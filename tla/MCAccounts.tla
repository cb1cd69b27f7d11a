----------------------------- MODULE MCAccounts -----------------------------
(* Instances of Accounts for TLC. *)
EXTENDS Accounts, TLC

CONSTANTS r1, r2

(* The requests of the browser are alike. *)
SameBrowser == Permutations({r1, r2})
=============================================================================
