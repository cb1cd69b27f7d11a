------------------------------- MODULE MCApi -------------------------------
(* Instances of Api for TLC. *)
EXTENDS Api, TLC

CONSTANTS r1, r2

SmallLimits == [k \in Keys |-> 1]

(* The requests are alike. *)
SameRequests == Permutations({r1, r2})
=============================================================================
