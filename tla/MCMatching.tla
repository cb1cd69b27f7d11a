---------------------------- MODULE MCMatching ----------------------------
(* Instances of Matching for TLC. *)
EXTENDS Matching, TLC

CONSTANTS A, B, C, a1, a2, b1, c1

(* A has two tabs open. *)
TwoTabs == (a1 :> A) @@ (a2 :> A) @@ (b1 :> B) @@ (c1 :> C)
=============================================================================
