---------------------------- MODULE JudgeProofs ----------------------------
(***************************************************************************)
(* What is proved of Judge: of numbers of any length and any digits for    *)
(* judging, and of the draw for every outcome of the shuffle.              *)
(***************************************************************************)
EXTENDS Judge, FiniteSetTheorems, TLAPS

(* Judging a guess by the hashes of a number is comparing the digits, for  *)
(* numbers of any length (secret.go:29-50 against judge.go:5-13).          *)
THEOREM VerifyIsJudge ==
  ASSUME NEW N, NEW s \in [N -> Int], NEW g \in [N -> Int], NEW slot
  PROVE  Verify(Hash(s, slot), g, slot) = JudgeDigits(s, g)
<1>1. DOMAIN g = N /\ DOMAIN s = N
  OBVIOUS
<1>2. ASSUME NEW i \in N
      PROVE  Hash(s, slot)[i] = Digest(slot, i, g[i]) <=> s[i] = g[i]
  BY <1>1, <1>2 DEF Hash, Digest
<1> QED
  BY <1>1, <1>2 DEF Verify, JudgeDigits

(* A guess wins when it is the number and only then (judge.go:15-22).      *)
THEOREM WinIsEqual ==
  ASSUME NEW N, NEW s \in [N -> Int], NEW g \in [N -> Int], NEW slot
  PROVE  IsWin(Verify(Hash(s, slot), g, slot)) <=> s = g
<1>1. Verify(Hash(s, slot), g, slot) = JudgeDigits(s, g)
  BY VerifyIsJudge
<1>2. IsWin(JudgeDigits(s, g)) <=> \A i \in N : s[i] = g[i]
  BY DEF IsWin, JudgeDigits
<1>3. s = g <=> \A i \in N : s[i] = g[i]
  OBVIOUS
<1> QED
  BY <1>1, <1>2, <1>3

(* The hit count of a guess is the length of the number exactly when the   *)
(* guess wins: the two columns agree (judge.go:15-32, game_play.go:156).   *)
THEOREM WinIsAllHits ==
  ASSUME NEW N, IsFiniteSet(N), NEW results \in [N -> {0, 1}]
  PROVE  IsWin(results) <=> HitCount(results) = Cardinality(N)
<1> DEFINE hits == {i \in N : results[i] = 1}
<1>1. HitCount(results) = Cardinality(hits)
  BY DEF HitCount
<1>2. hits = N => IsWin(results)
  BY DEF IsWin
<1>3. IsWin(results) => hits = N
  BY DEF IsWin
<1>4. Cardinality(N) = Cardinality(hits) => N = hits
  <2>1. hits \in SUBSET N
    OBVIOUS
  <2> QED
    BY <2>1, FS_Subset
<1> QED
  BY <1>1, <1>2, <1>3, <1>4

(* A number that is hashed for one slot shows no hit when a guess is       *)
(* judged in the other: nobody can be judged against the wrong player's    *)
(* number without it being seen (secret.go:29-50).                         *)
THEOREM SlotsApart ==
  ASSUME NEW N, NEW s \in [N -> Int], NEW g \in [N -> Int],
         NEW mine \in Slots, NEW other \in Slots \ {mine}
  PROVE  \A i \in N : Verify(Hash(s, other), g, mine)[i] = 0
<1> SUFFICES ASSUME NEW i \in N
             PROVE  Verify(Hash(s, other), g, mine)[i] = 0
  OBVIOUS
<1>1. Hash(s, other)[i] # Digest(mine, i, g[i])
  BY DEF Hash, Digest
<1> QED
  BY <1>1 DEF Verify

-----------------------------------------------------------------------------
(* A pool always holds each of the ten digits once. *)
Permuted(pool) ==
  /\ pool \in [1 .. 10 -> 0 .. 9]
  /\ \A k, l \in 1 .. 10 : pool[k] = pool[l] => k = l

LEMMA SwapPermutes ==
  ASSUME NEW pool, Permuted(pool), NEW i \in 1 .. 10, NEW j \in 1 .. 10
  PROVE  Permuted(Swap(pool, i, j))
<1> DEFINE new == Swap(pool, i, j)
<1>1. new \in [1 .. 10 -> 0 .. 9]
  BY DEF Permuted, Swap
<1>2. \A k \in 1 .. 10 : new[k] = IF k = j THEN pool[i] ELSE IF k = i THEN pool[j] ELSE pool[k]
  BY DEF Permuted, Swap
<1>3. ASSUME NEW k \in 1 .. 10, NEW l \in 1 .. 10, new[k] = new[l]
      PROVE  k = l
  <2> HIDE DEF new
  <2> QED
    BY <1>2, <1>3 DEF Permuted
<1> QED
  BY <1>1, <1>3 DEF Permuted

LEMMA ShufflePermutes ==
  ASSUME NEW S, \A pool \in S : Permuted(pool), NEW i \in 1 .. 10
  PROVE  \A pool \in Shuffle(S, i) : Permuted(pool)
<1>1. ASSUME NEW new \in Shuffle(S, i)
      PROVE  Permuted(new)
  <2>1. PICK pool \in S, j \in i .. 10 : new = Swap(pool, i, j)
    BY <1>1 DEF Shuffle, RandInt
  <2>2. j \in 1 .. 10 /\ Permuted(pool)
    BY <2>1
  <2> QED
    BY <2>1, <2>2, SwapPermutes
<1> QED
  BY <1>1

(* Whatever the draw, the number it makes is one the game accepts: four    *)
(* digits, no two the same (random.go:24-34, game_validate.go:5-37).       *)
THEOREM DrawIsValid ==
  \A n \in GenerateGuessNumber : n \in [1 .. 4 -> 0 .. 9] /\ ValidateFourDigits(n)
<1>1. \A pool \in {Pool} : Permuted(pool)
  BY DEF Pool, Permuted
<1>2. \A pool \in Shuffle({Pool}, 1) : Permuted(pool)
  BY <1>1, ShufflePermutes
<1>3. \A pool \in Shuffle(Shuffle({Pool}, 1), 2) : Permuted(pool)
  BY <1>2, ShufflePermutes
<1>4. \A pool \in Shuffle(Shuffle(Shuffle({Pool}, 1), 2), 3) : Permuted(pool)
  BY <1>3, ShufflePermutes
<1>5. \A pool \in Shuffle(Shuffle(Shuffle(Shuffle({Pool}, 1), 2), 3), 4) : Permuted(pool)
  BY <1>4, ShufflePermutes
<1>6. ASSUME NEW n \in GenerateGuessNumber
      PROVE  n \in [1 .. 4 -> 0 .. 9] /\ ValidateFourDigits(n)
  <2>1. PICK pool : Permuted(pool) /\ n = [i \in 1 .. 4 |-> pool[i]]
    BY <1>5 DEF GenerateGuessNumber
  <2> QED
    BY <2>1 DEF Permuted, ValidateFourDigits
<1> QED
  BY <1>6
-----------------------------------------------------------------------------
(* The numbers the game accepts. *)
ValidNumbers == {n \in [1 .. 4 -> 0 .. 9] : ValidateFourDigits(n)}

(* Some outcome of the first i swaps agrees with n so far. *)
Reached(S, i, n) ==
  \E pool \in S :
    /\ Permuted(pool)
    /\ \A d \in 0 .. 9 : \E k \in 1 .. 10 : pool[k] = d
    /\ \A k \in 1 .. i : pool[k] = n[k]

(* The next digit of n is not among those drawn, so it can be swapped in.  *)
LEMMA ShuffleReaches ==
  ASSUME NEW S, NEW n \in ValidNumbers, NEW i \in 1 .. 4, Reached(S, i - 1, n)
  PROVE  Reached(Shuffle(S, i), i, n)
<1>1. PICK pool \in S :
        /\ Permuted(pool)
        /\ \A d \in 0 .. 9 : \E k \in 1 .. 10 : pool[k] = d
        /\ \A k \in 1 .. i - 1 : pool[k] = n[k]
  BY DEF Reached
<1>2. n \in [1 .. 4 -> 0 .. 9] /\ \A k, l \in 1 .. 4 : n[k] = n[l] => k = l
  BY DEF ValidNumbers, ValidateFourDigits
<1>3. PICK j \in 1 .. 10 : pool[j] = n[i]
  BY <1>1, <1>2
<1>4. j \in i .. 10
  <2>1. j \notin 1 .. i - 1
    BY <1>1, <1>2, <1>3
  <2> QED
    BY <2>1
<1> DEFINE new == Swap(pool, i, j)
<1>5. new \in Shuffle(S, i)
  BY <1>4 DEF Shuffle, RandInt
<1>6. Permuted(new)
  BY <1>1, SwapPermutes
<1>7. \A k \in 1 .. 10 : new[k] = IF k = j THEN pool[i] ELSE IF k = i THEN pool[j] ELSE pool[k]
  BY <1>1 DEF Permuted, Swap
<1>8. \A d \in 0 .. 9 : \E k \in 1 .. 10 : new[k] = d
  <2> SUFFICES ASSUME NEW d \in 0 .. 9
               PROVE  \E k \in 1 .. 10 : new[k] = d
    OBVIOUS
  <2> HIDE DEF new
  <2>1. PICK k \in 1 .. 10 : pool[k] = d
    BY <1>1
  <2>2. i \in 1 .. 10 /\ new[j] = pool[i] /\ new[i] = pool[j]
    BY <1>7
  <2>3. k \notin {i, j} => new[k] = d
    BY <1>7, <2>1
  <2> QED
    BY <2>1, <2>2, <2>3
<1>9. \A k \in 1 .. i : new[k] = n[k]
  <2> HIDE DEF new
  <2>1. new[i] = n[i]
    BY <1>3, <1>7
  <2>2. ASSUME NEW k \in 1 .. i - 1
        PROVE  new[k] = n[k]
    BY <1>1, <1>4, <1>7
  <2> QED
    BY <2>1, <2>2
<1> HIDE DEF new
<1> QED
  BY <1>5, <1>6, <1>8, <1>9 DEF Reached

(* The draw makes every number of four different digits, and no other: the *)
(* bounds of the shuffle leave none out (random.go:24-34).                 *)
THEOREM EveryNumberDrawn == GenerateGuessNumber = ValidNumbers
<1>1. GenerateGuessNumber \subseteq ValidNumbers
  BY DrawIsValid DEF ValidNumbers
<1>2. ASSUME NEW n \in ValidNumbers
      PROVE  n \in GenerateGuessNumber
  <2>1. Reached({Pool}, 0, n)
    BY DEF Reached, Pool, Permuted
  <2>2. Reached(Shuffle({Pool}, 1), 1, n)
    BY <2>1, ShuffleReaches
  <2>3. Reached(Shuffle(Shuffle({Pool}, 1), 2), 2, n)
    BY <2>2, ShuffleReaches
  <2>4. Reached(Shuffle(Shuffle(Shuffle({Pool}, 1), 2), 3), 3, n)
    BY <2>3, ShuffleReaches
  <2>5. Reached(Shuffle(Shuffle(Shuffle(Shuffle({Pool}, 1), 2), 3), 4), 4, n)
    BY <2>4, ShuffleReaches
  <2>6. PICK pool \in Shuffle(Shuffle(Shuffle(Shuffle({Pool}, 1), 2), 3), 4) :
          \A k \in 1 .. 4 : pool[k] = n[k]
    BY <2>5 DEF Reached
  <2>7. n = [k \in 1 .. 4 |-> pool[k]]
    BY <2>6 DEF ValidNumbers
  <2> QED
    BY <2>7 DEF GenerateGuessNumber
<1> QED
  BY <1>1, <1>2
=============================================================================
