------------------------------ MODULE MCWsHub ------------------------------
(* Instances of WsHub for TLC. *)
EXTENDS WsHub, TLC

CONSTANTS x1, x2, y1, X, Y

TwoTabs == (x1 :> X) @@ (x2 :> X) @@ (y1 :> Y)
=============================================================================
