------------------------------ MODULE MCUpkeep ------------------------------
(* Instances of Upkeep for TLC. *)
EXTENDS Upkeep, TLC

CONSTANTS w1, w2, b1, b2, s1, s2

(* Transactions, rebuilds and syncs are alike. *)
Alike == Permutations({w1, w2}) \cup Permutations({b1, b2}) \cup Permutations({s1, s2})
=============================================================================
