------------------------------- MODULE Judge -------------------------------
(***************************************************************************)
(* Numbers and how a guess is judged.  The server keeps no number, only a  *)
(* keyed hash of each digit with the game, the slot of the player and the  *)
(* position; a guess is judged by hashing it the same way.  The number     *)
(* that is guessed for a player who lets a turn pass is drawn by a partial *)
(* shuffle of the ten digits.                                              *)
(***************************************************************************)
EXTENDS Integers, FiniteSets

Slots == {1, 2}

(* ValidateFourDigits, on the server and on the page *)
ValidateFourDigits(n) ==
  /\ DOMAIN n = 1 .. 4
  /\ \A i, j \in DOMAIN n : n[i] \in 0 .. 9 /\ (n[i] = n[j] => i = j)

(* JudgeDigits, which the tests compare Verify with *)
JudgeDigits(secret, guess) ==
  [i \in DOMAIN guess |-> IF secret[i] = guess[i] THEN 1 ELSE 0]

IsWin(results) == \A i \in DOMAIN results : results[i] = 1

HitCount(results) == Cardinality({i \in DOMAIN results : results[i] = 1})

(* HMAC-SHA256 of what is hashed, taken to be injective; one game *)
Digest(slot, position, digit) == <<slot, position, digit>>

Hash(n, slot) == [i \in DOMAIN n |-> Digest(slot, i, n[i])]

Verify(stored, guess, slot) ==
  [i \in DOMAIN guess |-> IF stored[i] = Digest(slot, i, guess[i]) THEN 1 ELSE 0]

-----------------------------------------------------------------------------
(* The draw *)

(* randInt, with the positions of a pool counted from 1 *)
RandInt(min, max) == min .. max

Pool == [k \in 1 .. 10 |-> k - 1]

Swap(pool, i, j) == [pool EXCEPT ![i] = pool[j], ![j] = pool[i]]

(* What the loop can have made of the pools in S once it has done i. *)
Shuffle(S, i) == {Swap(pool, i, j) : pool \in S, j \in RandInt(i, 10)}

GenerateGuessNumber ==
  {[i \in 1 .. 4 |-> pool[i]] :
     pool \in Shuffle(Shuffle(Shuffle(Shuffle({Pool}, 1), 2), 3), 4)}
=============================================================================
