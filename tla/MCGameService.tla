--------------------------- MODULE MCGameService ---------------------------
(* Instances of GameService for TLC. *)
EXTENDS GameService, TLC

CONSTANTS c1, c2, c3

(* One connection per player. *)
OneEach == (c1 :> P1) @@ (c2 :> P2)

(* P1 has reconnected: its old connection is still serving a message. *)
Reconnected == (c1 :> P1) @@ (c2 :> P2) @@ (c3 :> P1)

(* The two connections of P1 in Reconnected are alike, and the run that    *)
(* uses them checks safety alone.                                          *)
SameOwner == Permutations({c1, c3})
=============================================================================
