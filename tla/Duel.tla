-------------------------------- MODULE Duel --------------------------------
(***************************************************************************)
(* What one duel promises its two players, with no process, store or timer *)
(* in sight: each registers one secret, P1 opens, the guesses alternate,   *)
(* the first hit wins, and a duel that never got both secrets may be       *)
(* called off.  GameService implements this specification.                 *)
(***************************************************************************)
EXTENDS Integers, Sequences

CONSTANTS P1, P2, NoPlayer

VARIABLES ready,     \* the players whose secret is registered
          moves,     \* the guesses made so far, oldest first
          champion,  \* the winner, or NoPlayer
          over       \* TRUE once the duel is won or called off

duelVars == <<ready, moves, champion, over>>

Duelists == {P1, P2}

(* The player whose guess is expected: P1 makes the odd guesses. *)
OnMove == IF Len(moves) % 2 = 0 THEN P1 ELSE P2

Init ==
  /\ ready = {}
  /\ moves = <<>>
  /\ champion = NoPlayer
  /\ over = FALSE

Prepare(p) ==
  /\ ~over
  /\ p \notin ready
  /\ ready' = ready \cup {p}
  /\ UNCHANGED <<moves, champion, over>>

Play(p, hit) ==
  /\ ~over
  /\ ready = Duelists
  /\ p = OnMove
  /\ moves' = Append(moves, [by |-> p, hit |-> hit])
  /\ over' = hit
  /\ champion' = IF hit THEN p ELSE NoPlayer
  /\ UNCHANGED ready

CallOff ==
  /\ ~over
  /\ ready # Duelists
  /\ over' = TRUE
  /\ UNCHANGED <<ready, moves, champion>>

Next ==
  \/ \E p \in Duelists : Prepare(p)
  \/ \E p \in Duelists, hit \in BOOLEAN : Play(p, hit)
  \/ CallOff

Spec == Init /\ [][Next]_duelVars
=============================================================================
