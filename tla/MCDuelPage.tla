----------------------------- MODULE MCDuelPage -----------------------------
(* Instances of DuelPage for TLC. *)
EXTENDS DuelPage

(* A number and one that shares three digits with it. *)
TwoNumbers == {<<0, 1, 2, 3>>, <<0, 1, 2, 4>>}

(* Bound: what goes on after Me left the page is not looked at. *)
Watched == ~page.left

(* Bounds of the turns after the first: no mishap, the game loaded and in  *)
(* play, and few messages on their way at once.                            *)
InPlay ==
  /\ mishaps = 0 /\ load.pc = "idle" /\ game.row.status # "FINISHED"
  /\ Len(wire) <= 2

(* Bound: how many goroutines are at work at once. *)
TwoAtWork == Cardinality({t \in Threads : thread[t].pc # "idle"}) <= 2

(* One guess with everything that can go wrong, and the order of several. *)
FirstGuessOrInPlay == Watched /\ TwoAtWork /\ (game.row.turn <= 2 \/ InPlay)

SameSecret == [p \in Players |-> <<0, 1, 2, 3>>]
=============================================================================
