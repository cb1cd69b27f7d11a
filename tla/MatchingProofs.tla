--------------------------- MODULE MatchingProofs ---------------------------
(***************************************************************************)
(* Proofs about Matching, for any users, any number of requests of each    *)
(* and any bounds: the types, the invariant MatchingInv, and the           *)
(* properties that follow from it.                                         *)
(***************************************************************************)
EXTENDS Matching, TLAPS

USE RequestsAssumption, NoUserAssumption, NoEntryAssumption, BoundsAssumption

-----------------------------------------------------------------------------
(* Types *)

LEMMA LocalsType == NoLocals \in Locals
BY DEF NoLocals, Locals, Entries

(* Matching never holds a value that is not of its type.                   *)
LEMMA TypeInit == Init => TypeOK
BY LocalsType DEF Init, TypeOK, Points

LEMMA ReturnType ==
  ASSUME TypeOK, NEW t \in Threads, Return(t)
  PROVE  pc' \in [Threads -> Points] /\ mem' \in [Threads -> Locals]
BY LocalsType DEF TypeOK, Return, Goto, Points

LEMMA OwnType ==
  ASSUME TypeOK, NEW r \in Reqs
  PROVE  Own(r) \in Entries /\ r \in Threads
BY DEF TypeOK, Own, Entries, Threads, Locals

(* A pair about to become a game, or a user to be deleted, is there.       *)
LEMMA TypeNext == TypeOK /\ MatchingInv /\ [Next]_vars => TypeOK'
<1> SUFFICES ASSUME TypeOK, MatchingInv, [Next]_vars PROVE TypeOK'
  OBVIOUS
<1> USE DEF TypeOK
<1>0. Admin \in Threads
  BY DEF Threads
<1>1. ASSUME NEW r \in Reqs, StartCheckActive(r) PROVE TypeOK'
  BY <1>1, OwnType DEF StartCheckActive, Goto, Points
<1>2. ASSUME NEW r \in Reqs, StartCheckWaiting(r) PROVE TypeOK'
  <2>1. CASE Return(r) /\ UNCHANGED clock
    BY <1>2, <2>1, ReturnType, OwnType DEF StartCheckWaiting
  <2>2. CASE mem' = [mem EXCEPT ![r].at = clock] /\ clock' = clock + 1 /\ Goto(r, "insert")
    BY <1>2, <2>2, OwnType DEF StartCheckWaiting, Goto, Points, Locals
  <2> QED BY <1>2, <2>1, <2>2 DEF StartCheckWaiting
<1>3. ASSUME NEW r \in Reqs, InsertAndList(r) PROVE TypeOK'
  <2>1. queue \cup {Own(r)} \in SUBSET Entries
    BY OwnType
  <2> QED BY <1>3, <2>1, OwnType DEF InsertAndList, Goto, Points, Locals
<1>4. ASSUME NEW r \in Reqs, LockNext(r) PROVE TypeOK'
  <2>1. PICK e \in mem[r].todo :
          IF e \in queue \cup {Own(r)} THEN Lock(r, e)
          ELSE mem' = [mem EXCEPT ![r].todo = @ \ {e}]
    BY <1>4 DEF LockNext
  <2>2. e \in Entries /\ mem[r] \in Locals /\ r \in Threads
    BY OwnType DEF Locals
  <2>3. mem' \in [Threads -> Locals]
    BY <2>1, <2>2 DEF Lock, Locals
  <2> QED BY <1>4, <2>3 DEF LockNext
<1>5. ASSUME NEW r \in Reqs, WaitAlone(r) PROVE TypeOK'
  BY <1>5, ReturnType, OwnType DEF WaitAlone
<1>6. ASSUME NEW r \in Reqs, RejectPair(r) PROVE TypeOK'
  BY <1>6, ReturnType, OwnType DEF RejectPair
<1>7. ASSUME NEW r \in Reqs, CheckFirst(r) PROVE TypeOK'
  BY <1>7, ReturnType, OwnType DEF CheckFirst, Remove, Goto, Points
<1>8. ASSUME NEW r \in Reqs, CheckSecond(r) PROVE TypeOK'
  BY <1>8, ReturnType, OwnType DEF CheckSecond, Remove, Goto, Points
<1>9. ASSUME NEW t \in Threads, Abort(t) PROVE TypeOK'
  BY <1>9, ReturnType DEF Abort
<1>10. ASSUME NEW r \in Reqs, Cancel(r) PROVE TypeOK'
  BY <1>10, OwnType DEF Cancel, Goto, Points, Locals, RowsOf
<1>11. ASSUME NEW r \in Reqs, Erase(r) PROVE TypeOK'
  BY <1>11, ReturnType, OwnType DEF Erase
<1>12. ASSUME NEW u \in Users, AdminCheck(u) PROVE TypeOK'
  BY <1>0, <1>12 DEF AdminCheck, Goto, Points, Locals
<1>13. CASE AdminDelete
  BY <1>0, <1>13 DEF AdminDelete, Goto, Points, Locals, RowsOf
<1>14. CASE UNCHANGED vars
  BY <1>14 DEF vars
<1>15. ASSUME NEW g \in games, EndGame(g) PROVE TypeOK'
  BY <1>15 DEF EndGame, Games
<1>16. ASSUME NEW r \in Reqs, CreateGame(r) PROVE TypeOK'
  <2>1. mem[r].first \in Entries /\ mem[r].second \in Entries
    BY <1>16, OwnType DEF CreateGame, MatchingInv, ListedInOrder, Locals
  <2> DEFINE new == [first |-> mem[r].first, second |-> mem[r].second, active |-> TRUE]
  <2>a. new \in Games
    BY <2>1 DEF Games
  <2>b. games' = games \cup {new}
    BY <1>16 DEF CreateGame
  <2> HIDE DEF new
  <2>2. games' \subseteq Games
    BY <2>a, <2>b
  <2> QED BY <1>16, <2>2, ReturnType, OwnType DEF CreateGame
<1>17. CASE AdminCommit
  <2>1. mem[Admin].target \in Users
    BY <1>17 DEF AdminCommit, MatchingInv, ErasesOwnRows
  <2> QED BY <1>0, <1>17, <2>1, ReturnType DEF AdminCommit
<1> HIDE DEF TypeOK
<1> QED
  BY <1>1, <1>2, <1>3, <1>4, <1>5, <1>6, <1>7, <1>8, <1>9, <1>10, <1>11,
     <1>12, <1>13, <1>14, <1>15, <1>16, <1>17
  DEF Next, RequestStep, AdminStep

-----------------------------------------------------------------------------
(* Steps by their effect.  A step of a request either moves on, leaving    *)
(* the tables alone, or returns, and then commits at most its own entry    *)
(* and removes only rows that no other transaction holds.                  *)

Only(t) == \A s \in Threads \ {t} : pc'[s] = pc[s] /\ mem'[s] = mem[s]

Moves(t, l, m) ==
  /\ pc'[t] = l /\ mem'[t] = m /\ Only(t)
  /\ UNCHANGED <<queue, games, deleted>>

Returns(t) ==
  /\ pc'[t] = "idle" /\ mem'[t] = NoLocals /\ Only(t)
  /\ UNCHANGED clock
  /\ queue' \subseteq queue \cup {Own(t)}
  /\ Own(t) \in queue' \ queue => t \in Reqs /\ pc[t] \in Inserted
  /\ \A e \in queue \ queue' : \A s \in Threads \ {t} : e \notin Held(s)

Entered(r) ==
  /\ Moves(r, "insert", [mem[r] EXCEPT !.at = clock])
  /\ pc[r] = "checkWaiting" /\ ~Waiting(Caller[r]) /\ clock' = clock + 1

Listing(r) ==
  /\ Moves(r, "lock", [mem[r] EXCEPT !.todo = queue \cup {Own(r)}])
  /\ pc[r] = "insert" /\ clock' = clock

Skips(r, e) ==
  /\ Moves(r, "lock", [mem[r] EXCEPT !.todo = @ \ {e}])
  /\ pc[r] = "lock" /\ clock' = clock

LocksFirst(r, e) ==
  /\ Moves(r, "lock", [mem[r] EXCEPT !.todo = @ \ {e}, !.first = e])
  /\ pc[r] = "lock" /\ clock' = clock
  /\ mem[r].first = NoEntry /\ mem[r].second = NoEntry
  /\ e \in mem[r].todo /\ OldestOf(e, mem[r].todo)
  /\ e \in queue \cup {Own(r)} /\ ~Locked(e, r)

LocksSecond(r, e) ==
  /\ Moves(r, "lock", [mem[r] EXCEPT !.todo = @ \ {e}, !.second = e])
  /\ pc[r] = "lock" /\ clock' = clock
  /\ mem[r].first # NoEntry /\ mem[r].second = NoEntry
  /\ e \in mem[r].todo /\ OldestOf(e, mem[r].todo)
  /\ e \in queue \cup {Own(r)} /\ ~Locked(e, r)

FindsReady(r, l, u) ==
  /\ Moves(r, l, mem[r]) /\ clock' = clock
  /\ mem[r].second # NoEntry /\ ~SameUser(r) /\ Ready(u)
  /\ \/ pc[r] = "lock" /\ l = "checkSecond" /\ u = mem[r].first.user
     \/ pc[r] = "checkSecond" /\ l = "create" /\ u = mem[r].second.user

Erasing(t, l, u) ==
  /\ Moves(t, l, [mem[t] EXCEPT !.todo = RowsOf(u)]) /\ clock' = clock
  /\ \/ t \in Reqs /\ pc[t] = "idle" /\ l = "erase" /\ u = Caller[t]
     \/ t = Admin /\ pc[t] = "deleteRows" /\ l = "deleteUser" /\ u = mem[t].target

Aims(u) ==
  /\ Moves(Admin, "deleteRows", [mem[Admin] EXCEPT !.target = u])
  /\ pc[Admin] = "idle" /\ u \in Users /\ clock' = clock

(* Effects of each action *)
LEMMA MoveEffects ==
  ASSUME TypeOK, NEW t \in Threads, NEW l, NEW m,
         pc' = [pc EXCEPT ![t] = l], mem' = [mem EXCEPT ![t] = m],
         UNCHANGED <<queue, games, deleted>>
  PROVE  Moves(t, l, m)
BY DEF TypeOK, Moves, Only

LEMMA StayEffects ==
  ASSUME TypeOK, NEW t \in Threads, NEW l,
         pc' = [pc EXCEPT ![t] = l], mem' = mem,
         UNCHANGED <<queue, games, deleted>>
  PROVE  Moves(t, l, mem[t])
BY DEF TypeOK, Moves, Only

LEMMA LocalEffects ==
  ASSUME TypeOK, NEW t \in Threads, NEW m,
         pc' = pc, mem' = [mem EXCEPT ![t] = m],
         UNCHANGED <<queue, games, deleted>>
  PROVE  Moves(t, pc[t], m)
BY DEF TypeOK, Moves, Only

LEMMA ReturnEffects ==
  ASSUME TypeOK, NEW t \in Threads, Return(t)
  PROVE  pc'[t] = "idle" /\ mem'[t] = NoLocals /\ Only(t)
BY DEF TypeOK, Return, Goto, Only

(* A step of the system is one of these, or the end of a game, or no step  *)
Shape(t) ==
  \/ Moves(t, "checkWaiting", mem[t]) /\ t \in Reqs /\ pc[t] = "idle" /\ clock' = clock
  \/ t \in Reqs /\ Entered(t)
  \/ t \in Reqs /\ Listing(t)
  \/ t \in Reqs /\ \E e : Skips(t, e) \/ LocksFirst(t, e) \/ LocksSecond(t, e)
  \/ t \in Reqs /\ \E l, u : FindsReady(t, l, u)
  \/ \E l, u : Erasing(t, l, u)
  \/ t = Admin /\ \E u : Aims(u)

LEMMA LockShape ==
  ASSUME TypeOK, MatchingInv, NEW r \in Reqs, LockNext(r)
  PROVE  \E e : Skips(r, e) \/ LocksFirst(r, e) \/ LocksSecond(r, e)
<1>1. PICK e \in mem[r].todo :
        /\ OldestOf(e, mem[r].todo) /\ ~Locked(e, r)
        /\ IF e \in queue \cup {Own(r)}
           THEN Lock(r, e)
           ELSE mem' = [mem EXCEPT ![r].todo = @ \ {e}]
  BY DEF LockNext
<1>2. r \in Threads /\ pc[r] = "lock" /\ mem[r].second = NoEntry /\ clock' = clock
  BY DEF LockNext, Listed, Threads
<1>3. UNCHANGED <<queue, games, deleted, pc>>
  BY DEF LockNext
<1>4. CASE e \notin queue \cup {Own(r)}
  <2>1. mem' = [mem EXCEPT ![r] = [mem[r] EXCEPT !.todo = @ \ {e}]]
    BY <1>1, <1>4
  <2> QED BY <1>2, <1>3, <2>1, LocalEffects DEF Skips
<1>5. CASE e \in queue \cup {Own(r)} /\ mem[r].first = NoEntry
  <2>1. mem' = [mem EXCEPT ![r] = [mem[r] EXCEPT !.todo = @ \ {e}, !.first = e]]
    BY <1>1, <1>5 DEF Lock
  <2>2. Moves(r, pc[r], [mem[r] EXCEPT !.todo = @ \ {e}, !.first = e])
    BY <1>2, <1>3, <2>1, LocalEffects
  <2> QED BY <1>1, <1>2, <1>5, <2>2 DEF LocksFirst
<1>6. CASE e \in queue \cup {Own(r)} /\ mem[r].first # NoEntry
  <2>1. mem' = [mem EXCEPT ![r] = [mem[r] EXCEPT !.todo = @ \ {e}, !.second = e]]
    BY <1>1, <1>6 DEF Lock
  <2>2. Moves(r, pc[r], [mem[r] EXCEPT !.todo = @ \ {e}, !.second = e])
    BY <1>2, <1>3, <2>1, LocalEffects
  <2> QED BY <1>1, <1>2, <1>6, <2>2 DEF LocksSecond
<1> QED BY <1>4, <1>5, <1>6

(* The entry a Start commits, and what the others hold stays               *)
LEMMA CommitShape ==
  ASSUME TypeOK, MatchingInv, NEW r \in Reqs, NEW S \in SUBSET Held(r), Return(r),
         pc[r] \in Inserted, clock' = clock, queue' = (queue \cup {Own(r)}) \ S
  PROVE  Returns(r)
<1>1. r \in Threads
  BY DEF Threads
<1>2. \A e \in queue \ queue' : \A s \in Threads \ {r} : e \notin Held(s)
  BY <1>1 DEF MatchingInv, LocksHold
<1> QED BY <1>1, <1>2, ReturnEffects DEF Returns

LEMMA EraseShape ==
  ASSUME TypeOK, MatchingInv, NEW t \in Threads, Return(t), clock' = clock,
         \A e \in mem[t].todo : ~Locked(e, t), queue' = queue \ mem[t].todo
  PROVE  Returns(t)
BY ReturnEffects DEF Returns, Locked

LEMMA QuietShape ==
  ASSUME TypeOK, NEW t \in Threads, Return(t), clock' = clock, queue' = queue
  PROVE  Returns(t)
BY ReturnEffects DEF Returns

LEMMA Steps ==
  ASSUME TypeOK, MatchingInv, [Next]_vars
  PROVE  \/ UNCHANGED vars
         \/ \E t \in Threads : Shape(t)
         \/ \E t \in Threads : Returns(t) /\ games' = games
         \/ \E r \in Reqs : Returns(r) /\ CreateGame(r)
         \/ \E g \in games : EndGame(g)
<1> DEFINE Goal == \/ \E t \in Threads : Shape(t)
                   \/ \E t \in Threads : Returns(t) /\ games' = games
                   \/ \E r \in Reqs : Returns(r) /\ CreateGame(r)
<1>0. Admin \in Threads /\ Reqs \subseteq Threads
  BY DEF Threads
<1>1. ASSUME NEW r \in Reqs, StartCheckActive(r) PROVE Goal
  BY <1>0, <1>1, StayEffects DEF StartCheckActive, Goto, Shape
<1>2. ASSUME NEW r \in Reqs, StartCheckWaiting(r) PROVE Goal
  <2>1. CASE Return(r) /\ UNCHANGED clock
    BY <1>0, <1>2, <2>1, QuietShape DEF StartCheckWaiting
  <2>2. CASE ~(Waiting(Caller[r]) \/ clock > MaxStarts)
    <3>1. mem' = [mem EXCEPT ![r] = [mem[r] EXCEPT !.at = clock]]
      BY <1>2, <2>2 DEF StartCheckWaiting
    <3>2. Moves(r, "insert", [mem[r] EXCEPT !.at = clock])
      BY <1>0, <1>2, <2>2, <3>1, MoveEffects DEF StartCheckWaiting, Goto
    <3> QED BY <1>0, <1>2, <2>2, <3>2 DEF StartCheckWaiting, Entered, Shape
  <2> QED BY <1>2, <2>1, <2>2 DEF StartCheckWaiting
<1>3. ASSUME NEW r \in Reqs, InsertAndList(r) PROVE Goal
  <2>1. mem' = [mem EXCEPT ![r] = [mem[r] EXCEPT !.todo = queue \cup {Own(r)}]]
    BY <1>3 DEF InsertAndList
  <2>2. Moves(r, "lock", [mem[r] EXCEPT !.todo = queue \cup {Own(r)}])
    BY <1>0, <1>3, <2>1, MoveEffects DEF InsertAndList, Goto
  <2> QED BY <1>0, <1>3, <2>2 DEF InsertAndList, Listing, Shape
<1>4. ASSUME NEW r \in Reqs, LockNext(r) PROVE Goal
  BY <1>0, <1>4, LockShape DEF Shape
<1>5. ASSUME NEW r \in Reqs, WaitAlone(r) PROVE Goal
  <2>1. {} \in SUBSET Held(r) /\ queue' = (queue \cup {Own(r)}) \ {}
    BY <1>5 DEF WaitAlone
  <2>2. Returns(r)
    BY <1>5, <2>1, CommitShape DEF WaitAlone, Listed, Inserted
  <2> QED BY <1>0, <1>5, <2>2 DEF WaitAlone
<1>6. ASSUME NEW r \in Reqs, RejectPair(r) PROVE Goal
  BY <1>0, <1>6, QuietShape DEF RejectPair
<1>7. ASSUME NEW r \in Reqs, CheckFirst(r) PROVE Goal
  <2>1. mem[r].second # NoEntry /\ mem[r].first # NoEntry /\ pc[r] = "lock"
    BY <1>7 DEF CheckFirst, Paired, Listed, MatchingInv, ListedInOrder
  <2>2. CASE Ready(mem[r].first.user)
    <3>1. Moves(r, "checkSecond", mem[r])
      BY <1>0, <1>7, <2>2, StayEffects DEF CheckFirst, Goto
    <3> QED BY <1>0, <1>7, <2>1, <2>2, <3>1 DEF CheckFirst, FindsReady, Shape
  <2>3. CASE ~Ready(mem[r].first.user)
    <3>1. {mem[r].first} \in SUBSET Held(r)
      BY <2>1 DEF Held
    <3>2. Returns(r)
      BY <1>7, <2>1, <2>3, <3>1, CommitShape DEF CheckFirst, Remove, Inserted
    <3> QED BY <1>0, <1>7, <3>2 DEF CheckFirst
  <2> QED BY <2>2, <2>3
<1>8. ASSUME NEW r \in Reqs, CheckSecond(r) PROVE Goal
  <2>1. mem[r].second # NoEntry /\ ~SameUser(r) /\ pc[r] = "checkSecond"
    BY <1>8 DEF CheckSecond, MatchingInv, ListedInOrder
  <2>2. CASE Ready(mem[r].second.user)
    <3>1. Moves(r, "create", mem[r])
      BY <1>0, <1>8, <2>2, StayEffects DEF CheckSecond, Goto
    <3> QED BY <1>0, <1>8, <2>1, <2>2, <3>1 DEF CheckSecond, FindsReady, Shape
  <2>3. CASE ~Ready(mem[r].second.user)
    <3>1. {mem[r].second} \in SUBSET Held(r)
      BY <2>1 DEF Held
    <3>2. Returns(r)
      BY <1>8, <2>1, <2>3, <3>1, CommitShape DEF CheckSecond, Remove, Inserted
    <3> QED BY <1>0, <1>8, <3>2 DEF CheckSecond
  <2> QED BY <2>2, <2>3
<1>9. ASSUME NEW r \in Reqs, CreateGame(r) PROVE Goal
  <2>1. Held(r) \in SUBSET Held(r)
    OBVIOUS
  <2>2. Returns(r)
    BY <1>9, <2>1, CommitShape DEF CreateGame, Inserted
  <2> QED BY <1>9, <2>2
<1>10. ASSUME NEW r \in Reqs, Cancel(r) PROVE Goal
  <2>1. mem' = [mem EXCEPT ![r] = [mem[r] EXCEPT !.todo = RowsOf(Caller[r])]]
    BY <1>10 DEF Cancel
  <2>2. Moves(r, "erase", [mem[r] EXCEPT !.todo = RowsOf(Caller[r])])
    BY <1>0, <1>10, <2>1, MoveEffects DEF Cancel, Goto
  <2> QED BY <1>0, <1>10, <2>2 DEF Cancel, Erasing, Shape
<1>11. ASSUME NEW r \in Reqs, Erase(r) PROVE Goal
  BY <1>0, <1>11, EraseShape DEF Erase
<1>12. ASSUME NEW u \in Users, AdminCheck(u) PROVE Goal
  <2>1. mem' = [mem EXCEPT ![Admin] = [mem[Admin] EXCEPT !.target = u]]
    BY <1>12 DEF AdminCheck
  <2>2. Moves(Admin, "deleteRows", [mem[Admin] EXCEPT !.target = u])
    BY <1>0, <1>12, <2>1, MoveEffects DEF AdminCheck, Goto
  <2> QED BY <1>0, <1>12, <2>2 DEF AdminCheck, Aims, Shape
<1>13. ASSUME AdminDelete PROVE Goal
  <2>1. mem' = [mem EXCEPT ![Admin] = [mem[Admin] EXCEPT !.todo = RowsOf(mem[Admin].target)]]
    BY <1>13 DEF AdminDelete
  <2>2. Moves(Admin, "deleteUser", [mem[Admin] EXCEPT !.todo = RowsOf(mem[Admin].target)])
    BY <1>0, <1>13, <2>1, MoveEffects DEF AdminDelete, Goto
  <2> QED BY <1>0, <1>13, <2>2 DEF AdminDelete, Erasing, Shape
<1>14. ASSUME AdminCommit PROVE Goal
  BY <1>0, <1>14, EraseShape DEF AdminCommit
<1>15. ASSUME NEW t \in Threads, Abort(t) PROVE Goal
  BY <1>15, QuietShape DEF Abort
<1> HIDE DEF Goal
<1>16. ASSUME NEW r \in Reqs, RequestStep(r) PROVE Goal
  BY <1>2, <1>3, <1>4, <1>5, <1>6, <1>7, <1>8, <1>9, <1>11, <1>16, Zenon
  DEF RequestStep
<1>17. ASSUME AdminStep PROVE Goal
  BY <1>13, <1>14, <1>17 DEF AdminStep
<1>18. Next => Goal \/ \E g \in games : EndGame(g)
  BY <1>1, <1>10, <1>12, <1>15, <1>16, <1>17, Zenon DEF Next
<1> QED BY <1>18 DEF Goal

-----------------------------------------------------------------------------
(* LocksHold: what a thread holds concerns no other thread.                *)

LEMMA OthersStay ==
  ASSUME NEW t \in Threads, Only(t), NEW s \in Threads \ {t}
  PROVE  pc'[s] = pc[s] /\ mem'[s] = mem[s] /\ Held(s)' = Held(s) /\ Own(s)' = Own(s)
BY DEF Only, Held, Own

LEMMA LocksFrame ==
  ASSUME LocksHold, NEW t \in Threads, Only(t),
         \A s \in Reqs \ {t} : Held(s) \subseteq queue' \cup {Own(s)},
         Held(t)' # {} => /\ t \in Reqs /\ pc'[t] \in Locking
                          /\ Held(t)' \subseteq queue' \cup {Own(t)'},
         \A s \in Threads \ {t} : Held(t)' \cap Held(s) = {}
  PROVE  LocksHold'
<1>0. Reqs \subseteq Threads
  BY DEF Threads
<1>1. ASSUME NEW r \in Reqs PROVE Held(r)' \subseteq queue' \cup {Own(r)'}
  <2>1. CASE r = t
    BY <2>1
  <2>2. CASE r # t
    BY <1>0, <2>2, OthersStay
  <2> QED BY <2>1, <2>2
<1>2. ASSUME NEW s \in Threads, Held(s)' # {} PROVE s \in Reqs /\ pc'[s] \in Locking
  <2>1. CASE s = t
    BY <1>2, <2>1
  <2>2. CASE s # t
    BY <1>2, <2>2, OthersStay DEF LocksHold
  <2> QED BY <2>1, <2>2
<1>3. ASSUME NEW s \in Threads, NEW u \in Threads, s # u
      PROVE  Held(s)' \cap Held(u)' = {}
  <2>1. CASE s = t
    BY <1>3, <2>1, OthersStay
  <2>2. CASE u = t
    BY <1>3, <2>2, OthersStay
  <2>3. CASE s # t /\ u # t
    BY <1>3, <2>3, OthersStay DEF LocksHold
  <2> QED BY <2>1, <2>2, <2>3
<1> QED BY <1>1, <1>2, <1>3 DEF LocksHold

LEMMA LocksReturned ==
  ASSUME TypeOK, LocksHold, NEW t \in Threads, Returns(t)
  PROVE  LocksHold'
<1>1. Held(t)' = {}
  BY DEF Returns, Held, NoLocals
<1>2. ASSUME NEW s \in Reqs \ {t} PROVE Held(s) \subseteq queue' \cup {Own(s)}
  <2>1. s \in Threads \ {t}
    BY DEF Threads
  <2> QED BY <2>1 DEF Returns, LocksHold
<1> QED BY <1>1, <1>2, LocksFrame DEF Returns

LEMMA LocksMoved ==
  ASSUME TypeOK, LocksHold, NEW t \in Threads, NEW l, NEW m, Moves(t, l, m),
         m.first = mem[t].first, m.second = mem[t].second,
         \/ m.at = mem[t].at /\ l \in Locking
         \/ pc[t] \notin Locking
  PROVE  LocksHold'
<1>1. Held(t)' = Held(t)
  BY DEF Held, Moves
<1>2. Held(t)' # {} => m.at = mem[t].at /\ l \in Locking /\ t \in Reqs
  BY <1>1 DEF LocksHold
<1>3. Held(t)' # {} => Own(t)' = Own(t)
  BY <1>2 DEF Own, Moves
<1>4. Held(t)' # {} => t \in Reqs /\ pc'[t] \in Locking
                       /\ Held(t)' \subseteq queue' \cup {Own(t)'}
  BY <1>1, <1>2, <1>3 DEF Moves, LocksHold
<1>5. \A s \in Reqs \ {t} : Held(s) \subseteq queue' \cup {Own(s)}
  BY DEF Moves, LocksHold
<1>6. \A s \in Threads \ {t} : Held(t)' \cap Held(s) = {}
  BY <1>1 DEF LocksHold
<1> QED BY <1>4, <1>5, <1>6, LocksFrame DEF Moves

LEMMA LocksTaken ==
  ASSUME TypeOK, LocksHold, NEW r \in Reqs, NEW e, NEW m, Moves(r, "lock", m),
         m.at = mem[r].at, {m.first, m.second} \ {NoEntry} \subseteq Held(r) \cup {e},
         e \in queue \cup {Own(r)}, ~Locked(e, r)
  PROVE  LocksHold'
<1>0. r \in Threads
  BY DEF Threads
<1>1. Held(r)' \subseteq Held(r) \cup {e} /\ Own(r)' = Own(r)
  BY DEF Held, Own, Moves
<1>2. Held(r)' \subseteq queue' \cup {Own(r)'}
  BY <1>1 DEF Moves, LocksHold
<1>3. \A s \in Threads \ {r} : Held(r)' \cap Held(s) = {}
  BY <1>0, <1>1 DEF Locked, LocksHold
<1>4. \A s \in Reqs \ {r} : Held(s) \subseteq queue' \cup {Own(s)}
  BY DEF Moves, LocksHold
<1>5. r \in Reqs /\ pc'[r] \in Locking
  BY DEF Moves, Locking
<1> QED BY <1>0, <1>2, <1>3, <1>4, <1>5, LocksFrame DEF Moves

(* Row locks are exclusive and only on rows that are there.                *)
LEMMA LocksShape ==
  ASSUME TypeOK, MatchingInv, NEW t \in Threads, Shape(t)
  PROVE  LocksHold'
<1>0. mem[t] \in Locals /\ LocksHold
  BY DEF TypeOK, MatchingInv
<1>1. CASE Moves(t, "checkWaiting", mem[t]) /\ t \in Reqs /\ pc[t] = "idle"
  BY <1>0, <1>1, LocksMoved DEF Locking
<1>2. CASE Entered(t)
  <2> DEFINE m == [mem[t] EXCEPT !.at = clock]
  <2>1. m.first = mem[t].first /\ m.second = mem[t].second
    BY <1>0 DEF Locals
  <2>2. Moves(t, "insert", m) /\ pc[t] \notin Locking
    BY <1>2 DEF Entered, Locking
  <2> HIDE DEF m
  <2> QED BY <1>0, <2>1, <2>2, LocksMoved
<1>3. CASE Listing(t)
  <2> DEFINE m == [mem[t] EXCEPT !.todo = queue \cup {Own(t)}]
  <2>1. m.first = mem[t].first /\ m.second = mem[t].second
    BY <1>0 DEF Locals
  <2>2. Moves(t, "lock", m) /\ pc[t] \notin Locking
    BY <1>3 DEF Listing, Locking
  <2> HIDE DEF m
  <2> QED BY <1>0, <2>1, <2>2, LocksMoved
<1>4. ASSUME NEW e, Skips(t, e) PROVE LocksHold'
  <2> DEFINE m == [mem[t] EXCEPT !.todo = @ \ {e}]
  <2>1. m.first = mem[t].first /\ m.second = mem[t].second /\ m.at = mem[t].at
    BY <1>0 DEF Locals
  <2>2. Moves(t, "lock", m) /\ "lock" \in Locking
    BY <1>4 DEF Skips, Locking
  <2> HIDE DEF m
  <2> QED BY <1>0, <2>1, <2>2, LocksMoved
<1>5. ASSUME NEW e, t \in Reqs, LocksFirst(t, e) PROVE LocksHold'
  <2> DEFINE m == [mem[t] EXCEPT !.todo = @ \ {e}, !.first = e]
  <2>1. m.first = e /\ m.second = mem[t].second /\ m.at = mem[t].at
    BY <1>0 DEF Locals
  <2>2. Moves(t, "lock", m) /\ e \in queue \cup {Own(t)} /\ ~Locked(e, t)
    BY <1>5 DEF LocksFirst
  <2> HIDE DEF m
  <2>3. {m.first, m.second} \ {NoEntry} \subseteq Held(t) \cup {e}
    BY <2>1 DEF Held
  <2> QED BY <1>0, <1>5, <2>1, <2>2, <2>3, LocksTaken
<1>6. ASSUME NEW e, t \in Reqs, LocksSecond(t, e) PROVE LocksHold'
  <2> DEFINE m == [mem[t] EXCEPT !.todo = @ \ {e}, !.second = e]
  <2>1. m.first = mem[t].first /\ m.second = e /\ m.at = mem[t].at
    BY <1>0 DEF Locals
  <2>2. Moves(t, "lock", m) /\ e \in queue \cup {Own(t)} /\ ~Locked(e, t)
    BY <1>6 DEF LocksSecond
  <2> HIDE DEF m
  <2>3. {m.first, m.second} \ {NoEntry} \subseteq Held(t) \cup {e}
    BY <2>1 DEF Held
  <2> QED BY <1>0, <1>6, <2>1, <2>2, <2>3, LocksTaken
<1>7. ASSUME NEW l, NEW u, FindsReady(t, l, u) PROVE LocksHold'
  BY <1>0, <1>7, LocksMoved DEF FindsReady, Locking
<1>8. ASSUME NEW l, NEW u, Erasing(t, l, u) PROVE LocksHold'
  <2> DEFINE m == [mem[t] EXCEPT !.todo = RowsOf(u)]
  <2>1. m.first = mem[t].first /\ m.second = mem[t].second
    BY <1>0 DEF Locals
  <2>2. Moves(t, l, m) /\ pc[t] \notin Locking
    BY <1>8 DEF Erasing, Locking
  <2> HIDE DEF m
  <2> QED BY <1>0, <2>1, <2>2, LocksMoved
<1>9. ASSUME NEW u, Aims(u), t = Admin PROVE LocksHold'
  <2> DEFINE m == [mem[t] EXCEPT !.target = u]
  <2>1. m.first = mem[t].first /\ m.second = mem[t].second
    BY <1>0 DEF Locals
  <2>2. Moves(t, "deleteRows", m) /\ pc[t] \notin Locking
    BY <1>9 DEF Aims, Locking
  <2> HIDE DEF m
  <2> QED BY <1>0, <2>1, <2>2, LocksMoved
<1> QED BY <1>1, <1>2, <1>3, <1>4, <1>5, <1>6, <1>7, <1>8, <1>9, Zenon DEF Shape

LEMMA LocksNext == TypeOK /\ MatchingInv /\ [Next]_vars => LocksHold'
<1> SUFFICES ASSUME TypeOK, MatchingInv, [Next]_vars PROVE LocksHold'
  OBVIOUS
<1>1. CASE UNCHANGED vars
  BY <1>1 DEF vars, MatchingInv, LocksHold, Held, Own
<1>2. ASSUME NEW t \in Threads, Shape(t) PROVE LocksHold'
  BY <1>2, LocksShape
<1>3. ASSUME NEW t \in Threads, Returns(t) PROVE LocksHold'
  BY <1>3, LocksReturned DEF MatchingInv
<1>4. ASSUME NEW g \in games, EndGame(g) PROVE LocksHold'
  BY <1>4 DEF EndGame, MatchingInv, LocksHold, Held, Own
<1>5. Reqs \subseteq Threads
  BY DEF Threads
<1> QED BY <1>1, <1>2, <1>3, <1>4, <1>5, Steps

-----------------------------------------------------------------------------
(* StampsDiffer: a created_at is given out once.                           *)

LEMMA StampsReturned ==
  ASSUME TypeOK, StampsDiffer, NEW t \in Threads, Returns(t)
  PROVE  StampsDiffer'
<1>0. Reqs \subseteq Threads /\ clock' = clock /\ "idle" \notin Inserted
  BY DEF Threads, Returns, Inserted
<1>1. ASSUME NEW e \in queue', e \notin queue
      PROVE  e = Own(t) /\ e.at = mem[t].at /\ t \in Reqs /\ pc[t] \in Inserted
  BY <1>1 DEF Returns, Own
<1>2. \A e \in queue' : e.at < clock'
  BY <1>0, <1>1 DEF StampsDiffer
<1>3. \A e, f \in queue' : e.at = f.at => e = f
  BY <1>1 DEF StampsDiffer
<1>4. ASSUME NEW r \in Reqs, pc'[r] \in Inserted
      PROVE  r # t /\ pc[r] \in Inserted /\ mem'[r] = mem[r]
  BY <1>0, <1>4 DEF Returns, Only
<1>5. ASSUME NEW r \in Reqs, pc'[r] \in Inserted
      PROVE  mem'[r].at < clock' /\ \A e \in queue' : e.at # mem'[r].at
  BY <1>0, <1>1, <1>4, <1>5 DEF StampsDiffer
<1>6. \A r, s \in Reqs :
        pc'[r] \in Inserted /\ pc'[s] \in Inserted /\ mem'[r].at = mem'[s].at => r = s
  BY <1>4 DEF StampsDiffer
<1> QED BY <1>2, <1>3, <1>5, <1>6 DEF StampsDiffer

LEMMA StampsMoved ==
  ASSUME TypeOK, StampsDiffer, NEW t \in Threads, NEW l, NEW m, Moves(t, l, m),
         clock' = clock, l \in Inserted => pc[t] \in Inserted /\ m.at = mem[t].at
  PROVE  StampsDiffer'
<1>0. Reqs \subseteq Threads /\ queue' = queue
  BY DEF Threads, Moves
<1>1. ASSUME NEW r \in Reqs, pc'[r] \in Inserted
      PROVE  pc[r] \in Inserted /\ mem'[r].at = mem[r].at
  BY <1>0, <1>1 DEF Moves, Only
<1> QED BY <1>0, <1>1 DEF StampsDiffer

LEMMA StampsEntered ==
  ASSUME TypeOK, StampsDiffer, NEW t \in Reqs, Entered(t)
  PROVE  StampsDiffer'
<1>0. /\ Reqs \subseteq Threads /\ queue' = queue /\ clock' = clock + 1 /\ clock \in Nat
      /\ \A e \in queue : e.at \in Nat
  BY DEF Threads, Entered, Moves, TypeOK, Entries
<1>1. mem'[t].at = clock
  BY <1>0 DEF Entered, Moves, TypeOK, Locals
<1>2. \A r \in Reqs : mem[r].at \in Nat
  BY <1>0 DEF TypeOK, Locals
<1>3. ASSUME NEW r \in Reqs, pc'[r] \in Inserted, r # t
      PROVE  pc[r] \in Inserted /\ mem'[r] = mem[r] /\ mem[r].at < clock
  BY <1>0, <1>3 DEF Entered, Moves, Only, StampsDiffer
<1>4. ASSUME NEW r \in Reqs, pc'[r] \in Inserted
      PROVE  mem'[r].at < clock' /\ \A e \in queue' : e.at # mem'[r].at
  BY <1>0, <1>1, <1>2, <1>3, <1>4 DEF StampsDiffer
<1>5. ASSUME NEW r \in Reqs, NEW s \in Reqs,
             pc'[r] \in Inserted, pc'[s] \in Inserted, mem'[r].at = mem'[s].at
      PROVE  r = s
  BY <1>0, <1>1, <1>2, <1>3, <1>5 DEF StampsDiffer
<1>6. \A e \in queue' : e.at < clock'
  BY <1>0 DEF StampsDiffer
<1> QED BY <1>0, <1>4, <1>5, <1>6 DEF StampsDiffer

(* No two entries, committed or not, have the same created_at.             *)
LEMMA StampsShape ==
  ASSUME TypeOK, MatchingInv, NEW t \in Threads, Shape(t)
  PROVE  StampsDiffer'
<1>0. mem[t] \in Locals /\ StampsDiffer
  BY DEF TypeOK, MatchingInv
<1>1. CASE Moves(t, "checkWaiting", mem[t]) /\ clock' = clock
  BY <1>0, <1>1, StampsMoved DEF Inserted
<1>2. CASE t \in Reqs /\ Entered(t)
  BY <1>0, <1>2, StampsEntered
<1>3. CASE Listing(t)
  <2> DEFINE m == [mem[t] EXCEPT !.todo = queue \cup {Own(t)}]
  <2>1. m.at = mem[t].at
    BY <1>0 DEF Locals
  <2>2. Moves(t, "lock", m) /\ pc[t] \in Inserted /\ clock' = clock
    BY <1>3 DEF Listing, Inserted
  <2> HIDE DEF m
  <2> QED BY <1>0, <2>1, <2>2, StampsMoved
<1>4. ASSUME NEW e, Skips(t, e) PROVE StampsDiffer'
  <2> DEFINE m == [mem[t] EXCEPT !.todo = @ \ {e}]
  <2>1. m.at = mem[t].at
    BY <1>0 DEF Locals
  <2>2. Moves(t, "lock", m) /\ pc[t] \in Inserted /\ clock' = clock
    BY <1>4 DEF Skips, Inserted
  <2> HIDE DEF m
  <2> QED BY <1>0, <2>1, <2>2, StampsMoved
<1>5. ASSUME NEW e, LocksFirst(t, e) PROVE StampsDiffer'
  <2> DEFINE m == [mem[t] EXCEPT !.todo = @ \ {e}, !.first = e]
  <2>1. m.at = mem[t].at
    BY <1>0 DEF Locals
  <2>2. Moves(t, "lock", m) /\ pc[t] \in Inserted /\ clock' = clock
    BY <1>5 DEF LocksFirst, Inserted
  <2> HIDE DEF m
  <2> QED BY <1>0, <2>1, <2>2, StampsMoved
<1>6. ASSUME NEW e, LocksSecond(t, e) PROVE StampsDiffer'
  <2> DEFINE m == [mem[t] EXCEPT !.todo = @ \ {e}, !.second = e]
  <2>1. m.at = mem[t].at
    BY <1>0 DEF Locals
  <2>2. Moves(t, "lock", m) /\ pc[t] \in Inserted /\ clock' = clock
    BY <1>6 DEF LocksSecond, Inserted
  <2> HIDE DEF m
  <2> QED BY <1>0, <2>1, <2>2, StampsMoved
<1>7. ASSUME NEW l, NEW u, FindsReady(t, l, u) PROVE StampsDiffer'
  BY <1>0, <1>7, StampsMoved DEF FindsReady, Inserted
<1>8. ASSUME NEW l, NEW u, Erasing(t, l, u) PROVE StampsDiffer'
  BY <1>0, <1>8, StampsMoved DEF Erasing, Inserted
<1>9. ASSUME NEW u, Aims(u), t = Admin PROVE StampsDiffer'
  BY <1>0, <1>9, StampsMoved DEF Aims, Inserted
<1> QED BY <1>1, <1>2, <1>3, <1>4, <1>5, <1>6, <1>7, <1>8, <1>9, Zenon DEF Shape

LEMMA StampsNext == TypeOK /\ MatchingInv /\ [Next]_vars => StampsDiffer'
<1> SUFFICES ASSUME TypeOK, MatchingInv, [Next]_vars PROVE StampsDiffer'
  OBVIOUS
<1>1. CASE UNCHANGED vars
  BY <1>1 DEF vars, MatchingInv, StampsDiffer
<1>2. ASSUME NEW t \in Threads, Shape(t) PROVE StampsDiffer'
  BY <1>2, StampsShape
<1>3. ASSUME NEW t \in Threads, Returns(t) PROVE StampsDiffer'
  BY <1>3, StampsReturned DEF MatchingInv
<1>4. ASSUME NEW g \in games, EndGame(g) PROVE StampsDiffer'
  BY <1>4 DEF EndGame, MatchingInv, StampsDiffer
<1>5. Reqs \subseteq Threads
  BY DEF Threads
<1> QED BY <1>1, <1>2, <1>3, <1>4, <1>5, Steps

-----------------------------------------------------------------------------
(* ListedInOrder and ErasesOwnRows: the locals of one request              *)

LEMMA OrderKept ==
  ASSUME NEW r \in Reqs, ListedInOrder(r), pc'[r] = pc[r], mem'[r] = mem[r]
  PROVE  ListedInOrder(r)'
BY DEF ListedInOrder, SameUser

LEMMA OrderReturned ==
  ASSUME NEW r \in Reqs, pc'[r] = "idle", mem'[r] = NoLocals
  PROVE  ListedInOrder(r)'
BY DEF ListedInOrder, NoLocals

LEMMA HoldsNothing ==
  ASSUME LocksHold, NEW t \in Threads, pc[t] \notin Locking
  PROVE  mem[t].first = NoEntry /\ mem[t].second = NoEntry
BY DEF LocksHold, Held

(* The rows a listing has still to visit are younger than those it holds.  *)
LEMMA OrderShape ==
  ASSUME TypeOK, MatchingInv, NEW t \in Reqs, Shape(t)
  PROVE  ListedInOrder(t)'
<1>0. /\ mem[t] \in Locals /\ t \in Threads /\ t # Admin
      /\ LocksHold /\ StampsDiffer /\ ListedInOrder(t)
  BY DEF TypeOK, MatchingInv, Threads
<1>a. \A e \in mem[t].todo : e \in Entries /\ e.at \in Nat
  BY <1>0 DEF Locals, Entries
<1>1. CASE Moves(t, "checkWaiting", mem[t])
  BY <1>0, <1>1 DEF Moves, ListedInOrder, SameUser
<1>2. CASE Entered(t)
  <2> DEFINE m == [mem[t] EXCEPT !.at = clock]
  <2>1. m.first = mem[t].first /\ m.second = mem[t].second /\ m.todo = mem[t].todo
    BY <1>0 DEF Locals
  <2>2. pc'[t] = "insert" /\ mem'[t] = m
    BY <1>2 DEF Entered, Moves
  <2> HIDE DEF m
  <2> QED BY <1>0, <2>1, <2>2 DEF ListedInOrder
<1>3. CASE Listing(t)
  <2> DEFINE m == [mem[t] EXCEPT !.todo = queue \cup {Own(t)}]
  <2>1. m.first = mem[t].first /\ m.second = mem[t].second /\ m.todo = queue \cup {Own(t)}
    BY <1>0 DEF Locals
  <2>2. pc'[t] = "lock" /\ mem'[t] = m /\ pc[t] = "insert"
    BY <1>3 DEF Listing, Moves
  <2> HIDE DEF m
  <2>3. m.first = NoEntry /\ m.second = NoEntry
    BY <1>0, <2>1, <2>2, HoldsNothing DEF Locking
  <2>4. \A e, f \in m.todo : e.at = f.at => e = f
    BY <1>0, <2>1, <2>2 DEF StampsDiffer, Own, Inserted
  <2> QED BY <2>2, <2>3, <2>4 DEF ListedInOrder
<1>4. ASSUME NEW e, Skips(t, e) PROVE ListedInOrder(t)'
  <2> DEFINE m == [mem[t] EXCEPT !.todo = @ \ {e}]
  <2>1. m.first = mem[t].first /\ m.second = mem[t].second /\ m.todo = mem[t].todo \ {e}
    BY <1>0 DEF Locals
  <2>2. pc'[t] = "lock" /\ mem'[t] = m
    BY <1>4 DEF Skips, Moves
  <2> HIDE DEF m
  <2> QED BY <1>0, <2>1, <2>2 DEF ListedInOrder
<1>5. ASSUME NEW e, LocksFirst(t, e) PROVE ListedInOrder(t)'
  <2> DEFINE m == [mem[t] EXCEPT !.todo = @ \ {e}, !.first = e]
  <2>1. m.first = e /\ m.second = mem[t].second /\ m.todo = mem[t].todo \ {e}
    BY <1>0 DEF Locals
  <2>2. pc'[t] = "lock" /\ mem'[t] = m
    BY <1>5 DEF LocksFirst, Moves
  <2> HIDE DEF m
  <2>3. m.second = NoEntry /\ e \in mem[t].todo /\ \A f \in mem[t].todo : e.at <= f.at
    BY <1>5, <2>1 DEF LocksFirst, OldestOf
  <2>4. \A f \in m.todo : e.at < f.at
    BY <1>0, <1>a, <2>1, <2>3 DEF ListedInOrder
  <2> QED BY <1>0, <2>1, <2>2, <2>3, <2>4 DEF ListedInOrder
<1>6. ASSUME NEW e, LocksSecond(t, e) PROVE ListedInOrder(t)'
  <2> DEFINE m == [mem[t] EXCEPT !.todo = @ \ {e}, !.second = e]
  <2>1. m.first = mem[t].first /\ m.second = e /\ m.todo = mem[t].todo \ {e}
    BY <1>0 DEF Locals
  <2>2. pc'[t] = "lock" /\ mem'[t] = m
    BY <1>6 DEF LocksSecond, Moves
  <2> HIDE DEF m
  <2>3. e \in mem[t].todo /\ mem[t].first # NoEntry
    BY <1>6 DEF LocksSecond
  <2> QED BY <1>0, <2>1, <2>2, <2>3 DEF ListedInOrder
<1>7. ASSUME NEW l, NEW u, FindsReady(t, l, u) PROVE ListedInOrder(t)'
  BY <1>0, <1>7 DEF FindsReady, Moves, ListedInOrder, SameUser
<1>8. ASSUME NEW l, NEW u, Erasing(t, l, u) PROVE ListedInOrder(t)'
  <2> DEFINE m == [mem[t] EXCEPT !.todo = RowsOf(u)]
  <2>1. m.first = mem[t].first /\ m.second = mem[t].second /\ m.todo = RowsOf(u)
    BY <1>0 DEF Locals
  <2>2. pc'[t] = "erase" /\ mem'[t] = m /\ pc[t] = "idle"
    BY <1>0, <1>8 DEF Erasing, Moves
  <2> HIDE DEF m
  <2>3. m.first = NoEntry /\ m.second = NoEntry
    BY <1>0, <2>1, <2>2, HoldsNothing DEF Locking
  <2>4. \A e, f \in m.todo : e.at = f.at => e = f
    BY <1>0, <2>1 DEF RowsOf, StampsDiffer
  <2> QED BY <2>2, <2>3, <2>4 DEF ListedInOrder
<1> QED BY <1>0, <1>1, <1>2, <1>3, <1>4, <1>5, <1>6, <1>7, <1>8, Zenon DEF Shape

LEMMA OrderNext == TypeOK /\ MatchingInv /\ [Next]_vars => \A r \in Reqs : ListedInOrder(r)'
<1> SUFFICES ASSUME TypeOK, MatchingInv, [Next]_vars, NEW r \in Reqs
             PROVE  ListedInOrder(r)'
  OBVIOUS
<1>0. r \in Threads /\ Reqs \subseteq Threads /\ ListedInOrder(r)
  BY DEF Threads, MatchingInv
<1>1. CASE UNCHANGED vars
  BY <1>0, <1>1, OrderKept DEF vars
<1>2. ASSUME NEW t \in Threads, Shape(t) PROVE ListedInOrder(r)'
  <2>1. CASE t = r
    BY <1>2, <2>1, OrderShape
  <2>2. CASE t # r
    <3>1. Only(t)
      BY <1>2 DEF Shape, Entered, Listing, Skips, LocksFirst, LocksSecond, FindsReady,
                  Erasing, Aims, Moves
    <3> QED BY <1>0, <2>2, <3>1, OrderKept DEF Only
  <2> QED BY <2>1, <2>2
<1>3. ASSUME NEW t \in Threads, Returns(t) PROVE ListedInOrder(r)'
  BY <1>0, <1>3, OrderKept, OrderReturned DEF Returns, Only
<1>4. ASSUME NEW g \in games, EndGame(g) PROVE ListedInOrder(r)'
  BY <1>0, <1>4, OrderKept DEF EndGame
<1> QED BY <1>0, <1>1, <1>2, <1>3, <1>4, Steps

(* The rows a DELETE is about to delete are of the user it is for.         *)
LEMMA ErasesReturned ==
  ASSUME TypeOK, ErasesOwnRows, NEW t \in Threads, Returns(t)
  PROVE  ErasesOwnRows'
<1>0. Admin \in Threads /\ Reqs \subseteq Threads
  BY DEF Threads
<1> QED BY <1>0 DEF ErasesOwnRows, Returns, Only

LEMMA ErasesMoved ==
  ASSUME TypeOK, ErasesOwnRows, NEW t \in Reqs, NEW l, NEW m, Moves(t, l, m),
         l = "erase" => \A e \in m.todo : e.user = Caller[t]
  PROVE  ErasesOwnRows'
<1>0. Admin \in Threads /\ Reqs \subseteq Threads /\ t # Admin
  BY DEF Threads
<1> QED BY <1>0 DEF ErasesOwnRows, Moves, Only

LEMMA ErasesShape ==
  ASSUME TypeOK, MatchingInv, NEW t \in Threads, Shape(t)
  PROVE  ErasesOwnRows'
<1>0. /\ mem[t] \in Locals /\ ErasesOwnRows /\ Admin \in Threads
      /\ Reqs \subseteq Threads /\ Admin \notin Reqs
  BY DEF TypeOK, MatchingInv, Threads
<1>1. ASSUME NEW l, NEW m, Moves(t, l, m), t \in Reqs, l # "erase"
      PROVE  ErasesOwnRows'
  BY <1>0, <1>1, ErasesMoved
<1>2. ASSUME NEW l, NEW u, Erasing(t, l, u) PROVE ErasesOwnRows'
  <2> DEFINE m == [mem[t] EXCEPT !.todo = RowsOf(u)]
  <2>1. m.todo = RowsOf(u) /\ m.target = mem[t].target
    BY <1>0 DEF Locals
  <2>2. Moves(t, l, m)
    BY <1>2 DEF Erasing
  <2> HIDE DEF m
  <2>3. \A e \in m.todo : e.user = u
    BY <2>1 DEF RowsOf
  <2>4. CASE t \in Reqs /\ u = Caller[t]
    BY <1>0, <2>2, <2>3, <2>4, ErasesMoved
  <2>5. CASE t = Admin /\ pc[t] = "deleteRows" /\ l = "deleteUser" /\ u = mem[t].target
    <3>1. pc'[Admin] = "deleteUser" /\ mem'[Admin] = m /\ m.target = u /\ u \in Users
      BY <1>0, <2>1, <2>2, <2>5 DEF Moves, ErasesOwnRows
    <3>2. \A r \in Reqs : pc'[r] = pc[r] /\ mem'[r] = mem[r]
      BY <1>0, <2>2, <2>5 DEF Moves, Only
    <3> QED BY <1>0, <2>3, <3>1, <3>2 DEF ErasesOwnRows
  <2> QED BY <1>2, <2>4, <2>5 DEF Erasing
<1>3. ASSUME NEW u, Aims(u), t = Admin PROVE ErasesOwnRows'
  <2> DEFINE m == [mem[Admin] EXCEPT !.target = u]
  <2>1. m.target = u
    BY <1>0, <1>3 DEF Locals
  <2>2. pc'[Admin] = "deleteRows" /\ mem'[Admin] = m /\ u \in Users
    BY <1>3 DEF Aims, Moves
  <2> HIDE DEF m
  <2>3. \A r \in Reqs : pc'[r] = pc[r] /\ mem'[r] = mem[r]
    BY <1>0, <1>3 DEF Aims, Moves, Only
  <2> QED BY <1>0, <2>1, <2>2, <2>3 DEF ErasesOwnRows
<1>4. ASSUME t \in Reqs, Moves(t, "checkWaiting", mem[t]) PROVE ErasesOwnRows'
  BY <1>1, <1>4
<1>5. ASSUME t \in Reqs, Entered(t) PROVE ErasesOwnRows'
  BY <1>1, <1>5 DEF Entered
<1>6. ASSUME t \in Reqs, Listing(t) PROVE ErasesOwnRows'
  BY <1>1, <1>6 DEF Listing
<1>7. ASSUME t \in Reqs, NEW e, Skips(t, e) \/ LocksFirst(t, e) \/ LocksSecond(t, e)
      PROVE  ErasesOwnRows'
  <2>1. CASE Skips(t, e)
    BY <1>1, <1>7, <2>1 DEF Skips
  <2>2. CASE LocksFirst(t, e)
    BY <1>1, <1>7, <2>2 DEF LocksFirst
  <2>3. CASE LocksSecond(t, e)
    BY <1>1, <1>7, <2>3 DEF LocksSecond
  <2> QED BY <1>7, <2>1, <2>2, <2>3
<1>8. ASSUME t \in Reqs, NEW l, NEW u, FindsReady(t, l, u) PROVE ErasesOwnRows'
  BY <1>1, <1>8 DEF FindsReady
<1> QED BY <1>2, <1>3, <1>4, <1>5, <1>6, <1>7, <1>8, Zenon DEF Shape

LEMMA ErasesNext == TypeOK /\ MatchingInv /\ [Next]_vars => ErasesOwnRows'
<1> SUFFICES ASSUME TypeOK, MatchingInv, [Next]_vars PROVE ErasesOwnRows'
  OBVIOUS
<1>1. CASE UNCHANGED vars
  BY <1>1 DEF vars, MatchingInv, ErasesOwnRows
<1>2. ASSUME NEW t \in Threads, Shape(t) PROVE ErasesOwnRows'
  BY <1>2, ErasesShape
<1>3. ASSUME NEW t \in Threads, Returns(t) PROVE ErasesOwnRows'
  BY <1>3, ErasesReturned DEF MatchingInv
<1>4. ASSUME NEW g \in games, EndGame(g) PROVE ErasesOwnRows'
  BY <1>4 DEF EndGame, MatchingInv, ErasesOwnRows
<1>5. Reqs \subseteq Threads
  BY DEF Threads
<1> QED BY <1>1, <1>2, <1>3, <1>4, <1>5, Steps

-----------------------------------------------------------------------------
(* EntriesSpent and SingleEntry                                            *)

(* What a step that moves a request on does to the tables, and to the      *)
(* entry the request has inserted.                                         *)
LEMMA ShapeFrame ==
  ASSUME TypeOK, NEW t \in Threads, Shape(t)
  PROVE  Only(t) /\ UNCHANGED <<queue, games, deleted>> /\ clock' \in {clock, clock + 1}
BY DEF Shape, Entered, Listing, Skips, LocksFirst, LocksSecond, FindsReady, Erasing, Aims, Moves

LEMMA ShapeInserted ==
  ASSUME TypeOK, NEW t \in Reqs, Shape(t), pc'[t] \in Inserted
  PROVE  \/ pc[t] \in Inserted /\ mem'[t].at = mem[t].at
         \/ mem'[t].at = clock /\ ~Waiting(Caller[t])
<1> DEFINE Goal == \/ pc[t] \in Inserted /\ mem'[t].at = mem[t].at
                   \/ mem'[t].at = clock /\ ~Waiting(Caller[t])
<1>0. mem[t] \in Locals /\ t # Admin
  BY DEF TypeOK, Threads
<1>1. ASSUME NEW l, l \notin Inserted, pc'[t] = l PROVE Goal
  BY <1>1
<1>2. ASSUME Entered(t) PROVE Goal
  BY <1>0, <1>2 DEF Entered, Moves, Locals
<1>3. ASSUME Listing(t) PROVE Goal
  BY <1>0, <1>3 DEF Listing, Moves, Locals, Inserted
<1>4. ASSUME NEW e, Skips(t, e) PROVE Goal
  BY <1>0, <1>4 DEF Skips, Moves, Locals, Inserted
<1>5. ASSUME NEW e, LocksFirst(t, e) PROVE Goal
  BY <1>0, <1>5 DEF LocksFirst, Moves, Locals, Inserted
<1>6. ASSUME NEW e, LocksSecond(t, e) PROVE Goal
  BY <1>0, <1>6 DEF LocksSecond, Moves, Locals, Inserted
<1>7. ASSUME NEW l, NEW u, FindsReady(t, l, u) PROVE Goal
  BY <1>0, <1>7 DEF FindsReady, Moves, Inserted
<1>8. ASSUME NEW l, NEW u, Erasing(t, l, u) PROVE Goal
  BY <1>0, <1>1, <1>8 DEF Erasing, Moves, Inserted
<1>9. ASSUME Moves(t, "checkWaiting", mem[t]) PROVE Goal
  BY <1>1, <1>9 DEF Moves, Inserted
<1> HIDE DEF Goal
<1>10. Goal
  BY <1>0, <1>2, <1>3, <1>4, <1>5, <1>6, <1>7, <1>8, <1>9, Zenon DEF Shape
<1> QED BY <1>10 DEF Goal

LEMMA SpentShape ==
  ASSUME TypeOK, NEW t \in Threads, Shape(t), NEW e \in Entries, Spent(e)
  PROVE  Spent(e)'
<1>0. e.at \in Nat /\ clock \in Nat /\ Reqs \subseteq Threads
  BY DEF TypeOK, Entries, Threads
<1>1. e \notin queue' /\ e.at < clock'
  BY <1>0, ShapeFrame DEF Spent
<1>2. ASSUME NEW r \in Reqs, pc'[r] \in Inserted PROVE e # Own(r)'
  <2>1. CASE r = t
    BY <1>0, <1>2, <2>1, ShapeInserted DEF Spent, Own
  <2>2. CASE r # t
    BY <1>0, <1>2, <2>2, ShapeFrame DEF Spent, Own, Only
  <2> QED BY <2>1, <2>2
<1> QED BY <1>1, <1>2 DEF Spent

LEMMA SpentReturned ==
  ASSUME NEW t \in Threads, Returns(t), NEW e, Spent(e)
  PROVE  Spent(e)'
<1>0. Reqs \subseteq Threads /\ "idle" \notin Inserted
  BY DEF Threads, Inserted
<1>1. e \notin queue' /\ e.at < clock'
  BY DEF Spent, Returns
<1>2. ASSUME NEW r \in Reqs, pc'[r] \in Inserted PROVE e # Own(r)'
  BY <1>0, <1>2 DEF Spent, Own, Returns, Only
<1> QED BY <1>1, <1>2 DEF Spent

(* The two entries of a new game are used up with it.                      *)
LEMMA SpentCreated ==
  ASSUME TypeOK, MatchingInv, NEW r \in Reqs, Returns(r), CreateGame(r), NEW e \in Held(r)
  PROVE  Spent(e)'
<1>0. /\ Reqs \subseteq Threads /\ "idle" \notin Inserted /\ pc[r] \in Inserted
      /\ StampsDiffer /\ LocksHold
  BY DEF Threads, Inserted, CreateGame, MatchingInv
<1>1. e \in queue \cup {Own(r)}
  BY <1>0 DEF LocksHold
<1>2. e \notin queue' /\ e.at < clock'
  BY <1>0, <1>1 DEF CreateGame, StampsDiffer, Own
<1>3. ASSUME NEW s \in Reqs, pc'[s] \in Inserted PROVE e # Own(s)'
  <2>1. s # r /\ pc[s] \in Inserted /\ mem'[s] = mem[s]
    BY <1>0, <1>3 DEF Returns, Only
  <2> QED BY <1>0, <1>1, <2>1 DEF StampsDiffer, Own
<1> QED BY <1>2, <1>3 DEF Spent

LEMMA GameCreated ==
  ASSUME TypeOK, MatchingInv, NEW r \in Reqs, CreateGame(r), NEW g \in games', g \notin games
  PROVE  /\ g.first = mem[r].first /\ g.second = mem[r].second /\ g.active
         /\ g.first \in Held(r) /\ g.second \in Held(r)
         /\ g.first.at < g.second.at /\ g.first.user # g.second.user
<1>1. g = [first |-> mem[r].first, second |-> mem[r].second, active |-> TRUE]
  BY DEF CreateGame
<1>2. pc[r] = "create" /\ ListedInOrder(r)
  BY DEF CreateGame, MatchingInv
<1> QED BY <1>1, <1>2 DEF ListedInOrder, SameUser, Held

LEMMA GameEnded ==
  ASSUME TypeOK, NEW g \in games, EndGame(g), NEW h \in games'
  PROVE  \E k \in games : /\ h.first = k.first /\ h.second = k.second
                          /\ h.active => h = k
<1>1. g \in Games /\ (h \in games \/ h = [g EXCEPT !.active = FALSE])
  BY DEF EndGame, TypeOK
<1> QED BY <1>1 DEF Games

(* No entry of a game comes back.                                          *)
LEMMA SpentNext == TypeOK /\ MatchingInv /\ [Next]_vars => EntriesSpent'
<1> SUFFICES ASSUME TypeOK, MatchingInv, [Next]_vars PROVE EntriesSpent'
  OBVIOUS
<1>0. /\ EntriesSpent
      /\ \A g \in games : g.first \in Entries /\ g.second \in Entries
  BY DEF MatchingInv, TypeOK, Games
<1>1. CASE UNCHANGED vars
  BY <1>0, <1>1 DEF vars, EntriesSpent, Spent, Own
<1>2. ASSUME NEW t \in Threads, Shape(t) PROVE EntriesSpent'
  BY <1>0, <1>2, SpentShape, ShapeFrame DEF EntriesSpent
<1>3. ASSUME NEW t \in Threads, Returns(t), games' = games PROVE EntriesSpent'
  BY <1>0, <1>3, SpentReturned DEF EntriesSpent
<1>4. ASSUME NEW r \in Reqs, Returns(r), CreateGame(r) PROVE EntriesSpent'
  <2>1. ASSUME NEW g \in games', g \in games PROVE Spent(g.first)' /\ Spent(g.second)'
    BY <1>0, <1>4, <2>1, SpentReturned DEF EntriesSpent, Threads
  <2>2. ASSUME NEW g \in games', g \notin games PROVE Spent(g.first)' /\ Spent(g.second)'
    BY <1>4, <2>2, SpentCreated, GameCreated
  <2> QED BY <2>1, <2>2 DEF EntriesSpent
<1>5. ASSUME NEW g \in games, EndGame(g) PROVE EntriesSpent'
  <2>1. ASSUME NEW e, Spent(e) PROVE Spent(e)'
    BY <1>5, <2>1 DEF EndGame, Spent, Own
  <2> QED BY <1>0, <1>5, <2>1, GameEnded DEF EntriesSpent
<1> QED BY <1>1, <1>2, <1>3, <1>4, <1>5, Steps

(* A user with one tab has one entry.                                      *)
LEMMA SingleNext == TypeOK /\ MatchingInv /\ [Next]_vars => SingleEntry'
<1> SUFFICES ASSUME TypeOK, MatchingInv, [Next]_vars PROVE SingleEntry'
  OBVIOUS
<1>0. SingleEntry /\ Reqs \subseteq Threads /\ "idle" \notin Inserted
  BY DEF MatchingInv, Threads, Inserted
<1>1. CASE UNCHANGED vars
  BY <1>0, <1>1 DEF vars, SingleEntry
<1>2. ASSUME NEW t \in Threads, Shape(t) PROVE SingleEntry'
  <2>1. queue' = queue /\ Only(t)
    BY <1>2, ShapeFrame
  <2>2. ASSUME NEW r \in Reqs, pc'[r] \in Inserted, Caller[r] \in SingleTabs,
               NEW e \in queue
        PROVE  e.user # Caller[r]
    <3>1. CASE r = t
      BY <1>0, <1>2, <2>2, <3>1, ShapeInserted DEF SingleEntry, Waiting
    <3>2. CASE r # t
      BY <1>0, <2>1, <2>2, <3>2 DEF SingleEntry, Only
    <3> QED BY <3>1, <3>2
  <2> QED BY <1>0, <2>1, <2>2 DEF SingleEntry
<1>3. ASSUME NEW t \in Threads, Returns(t) PROVE SingleEntry'
  <2>1. ASSUME NEW e \in queue', e \notin queue
        PROVE  e = Own(t) /\ e.user = Caller[t] /\ t \in Reqs /\ pc[t] \in Inserted
    BY <1>3, <2>1 DEF Returns, Own
  <2>2. \A e, f \in queue' : e.user = f.user /\ e.user \in SingleTabs => e = f
    BY <1>0, <2>1 DEF SingleEntry
  <2>3. ASSUME NEW r \in Reqs, pc'[r] \in Inserted, Caller[r] \in SingleTabs,
               NEW e \in queue'
        PROVE  e.user # Caller[r]
    <3>1. r # t /\ pc[r] \in Inserted
      BY <1>0, <1>3, <2>3 DEF Returns, Only
    <3>2. t \in Reqs => Caller[t] # Caller[r]
      BY <2>3, <3>1 DEF SingleTabs
    <3> QED BY <1>0, <2>1, <2>3, <3>1, <3>2 DEF SingleEntry
  <2> QED BY <2>2, <2>3 DEF SingleEntry
<1>4. ASSUME NEW g \in games, EndGame(g) PROVE SingleEntry'
  BY <1>0, <1>4 DEF EndGame, SingleEntry
<1> QED BY <1>0, <1>1, <1>2, <1>3, <1>4, Steps

-----------------------------------------------------------------------------
(* StillReady, FirstComeIsPlayer1 and OneGamePerSingleTab: the games       *)

(* Two requests never hold entries of one user with one tab.               *)
LEMMA UniqueHolder ==
  ASSUME MatchingInv, NEW r \in Reqs, NEW s \in Reqs, r # s,
         NEW e \in Held(r), NEW f \in Held(s), e.user = f.user, e.user \in SingleTabs
  PROVE  FALSE
<1>0. /\ LocksHold /\ SingleEntry /\ r \in Threads /\ s \in Threads
      /\ Own(r).user = Caller[r] /\ Own(s).user = Caller[s]
  BY DEF MatchingInv, Threads, Own
<1>1. e # f /\ e \in queue \cup {Own(r)} /\ f \in queue \cup {Own(s)}
  BY <1>0 DEF LocksHold
<1>2. pc[r] \in Inserted /\ pc[s] \in Inserted
  BY <1>0 DEF LocksHold, Locking, Inserted
<1>3. ~(e = Own(r) /\ f = Own(s))
  BY <1>0 DEF SingleTabs
<1> QED BY <1>0, <1>1, <1>2, <1>3 DEF SingleEntry

LEMMA ReadyKept ==
  ASSUME NEW r \in Reqs, StillReady(r), pc'[r] = pc[r], mem'[r] = mem[r],
         \A u : Playing(u)' => Playing(u)
  PROVE  StillReady(r)'
BY DEF StillReady

LEMMA ReadyShape ==
  ASSUME TypeOK, MatchingInv, NEW t \in Reqs, Shape(t)
  PROVE  StillReady(t)'
<1>0. /\ StillReady(t) /\ t # Admin /\ games' = games
      /\ \A u : Playing(u)' = Playing(u)
  BY ShapeFrame DEF MatchingInv, Threads, Playing
<1>1. ASSUME pc'[t] \notin {"checkSecond", "create"} PROVE StillReady(t)'
  BY <1>1 DEF StillReady
<1>2. ASSUME NEW l, NEW u, FindsReady(t, l, u) PROVE StillReady(t)'
  <2>1. mem'[t] = mem[t] /\ pc'[t] = l /\ ~Playing(u)
    BY <1>2 DEF FindsReady, Moves, Ready
  <2> QED BY <1>0, <1>2, <2>1 DEF FindsReady, StillReady
<1>3. CASE ~\E l, u : FindsReady(t, l, u)
  <2>1. pc'[t] \notin {"checkSecond", "create"}
    BY <1>0, <1>3 DEF Shape, Entered, Listing, Skips, LocksFirst, LocksSecond, Erasing, Moves
  <2> QED BY <1>1, <2>1
<1> QED BY <1>2, <1>3

(* A single-tab user found ready stays so until the request is answered.   *)
LEMMA ReadyNext == TypeOK /\ MatchingInv /\ [Next]_vars => \A r \in Reqs : StillReady(r)'
<1> SUFFICES ASSUME TypeOK, MatchingInv, [Next]_vars, NEW r \in Reqs
             PROVE  StillReady(r)'
  OBVIOUS
<1>0. StillReady(r) /\ r \in Threads
  BY DEF MatchingInv, Threads
<1>1. CASE UNCHANGED vars
  BY <1>0, <1>1 DEF vars, StillReady, Playing
<1>2. ASSUME NEW t \in Threads, Shape(t) PROVE StillReady(r)'
  <2>1. CASE r = t
    BY <1>2, <2>1, ReadyShape
  <2>2. CASE r # t
    <3>1. \A u : Playing(u)' => Playing(u)
      BY <1>2, ShapeFrame DEF Playing
    <3> QED BY <1>0, <1>2, <2>2, <3>1, ShapeFrame, ReadyKept DEF Only
  <2> QED BY <2>1, <2>2
<1>3. ASSUME NEW t \in Threads, Returns(t), games' = games PROVE StillReady(r)'
  <2>1. CASE r = t
    BY <1>3, <2>1 DEF Returns, StillReady
  <2>2. CASE r # t
    <3>1. \A u : Playing(u)' => Playing(u)
      BY <1>3 DEF Playing
    <3> QED BY <1>0, <1>3, <2>2, <3>1, ReadyKept DEF Returns, Only
  <2> QED BY <2>1, <2>2
<1>4. ASSUME NEW t \in Reqs, Returns(t), CreateGame(t) PROVE StillReady(r)'
  <2>1. CASE r = t
    BY <1>4, <2>1 DEF Returns, StillReady
  <2>2. CASE r # t
    <3>1. pc'[r] = pc[r] /\ mem'[r] = mem[r]
      BY <1>0, <1>4, <2>2 DEF Returns, Only
    <3>2. ASSUME NEW e \in Held(r), e.user \in SingleTabs, ~Playing(e.user)
          PROVE  ~Playing(e.user)'
      <4>1. ASSUME NEW g \in games', g \notin games, e.user \in {g.first.user, g.second.user}
            PROVE  FALSE
        <5>1. g.first \in Held(t) /\ g.second \in Held(t)
          BY <1>4, <4>1, GameCreated
        <5> QED BY <2>2, <3>2, <4>1, <5>1, UniqueHolder
      <4> QED BY <3>2, <4>1 DEF Playing
    <3>3. pc[r] \in {"checkSecond", "create"} =>
            mem[r].first \in Held(r) /\ mem[r].second \in Held(r)
      BY DEF MatchingInv, ListedInOrder, Held
    <3>4. pc[r] \in {"checkSecond", "create"} /\ mem[r].first.user \in SingleTabs =>
            ~Playing(mem[r].first.user)'
      BY <1>0, <3>1, <3>2, <3>3 DEF StillReady, Playing
    <3>5. pc[r] = "create" /\ mem[r].second.user \in SingleTabs =>
            ~Playing(mem[r].second.user)'
      BY <1>0, <3>1, <3>2, <3>3 DEF StillReady, Playing
    <3> QED BY <3>1, <3>4, <3>5 DEF StillReady, Playing
  <2> QED BY <2>1, <2>2
<1>5. ASSUME NEW g \in games, EndGame(g) PROVE StillReady(r)'
  <2>1. \A u : Playing(u)' => Playing(u)
    BY <1>5, GameEnded DEF Playing
  <2> QED BY <1>0, <1>5, <2>1, ReadyKept DEF EndGame
<1> QED BY <1>1, <1>2, <1>3, <1>4, <1>5, Steps

LEMMA FirstComeNext == TypeOK /\ MatchingInv /\ [Next]_vars => FirstComeIsPlayer1'
<1> SUFFICES ASSUME TypeOK, MatchingInv, [Next]_vars PROVE FirstComeIsPlayer1'
  OBVIOUS
<1>0. FirstComeIsPlayer1
  BY DEF MatchingInv
<1>1. CASE games' = games
  BY <1>0, <1>1 DEF FirstComeIsPlayer1
<1>2. ASSUME NEW r \in Reqs, CreateGame(r) PROVE FirstComeIsPlayer1'
  BY <1>0, <1>2, GameCreated DEF FirstComeIsPlayer1
<1>3. ASSUME NEW g \in games, EndGame(g) PROVE FirstComeIsPlayer1'
  BY <1>0, <1>3, GameEnded DEF FirstComeIsPlayer1
<1> QED BY <1>1, <1>2, <1>3, Steps, ShapeFrame DEF vars

LEMMA OneGameNext == TypeOK /\ MatchingInv /\ [Next]_vars => OneGamePerSingleTab'
<1> SUFFICES ASSUME TypeOK, MatchingInv, [Next]_vars PROVE OneGamePerSingleTab'
  OBVIOUS
<1>0. \A u \in SingleTabs : \A g, h \in games :
        g.active /\ h.active /\ u \in {g.first.user, g.second.user}
        /\ u \in {h.first.user, h.second.user} => g = h
  BY DEF MatchingInv, OneGamePerSingleTab, AtMostOneGame
<1>1. CASE games' = games
  BY <1>0, <1>1 DEF OneGamePerSingleTab, AtMostOneGame
<1>2. ASSUME NEW r \in Reqs, CreateGame(r) PROVE OneGamePerSingleTab'
  <2>1. ASSUME NEW g \in games', g \notin games, NEW u \in SingleTabs,
               u \in {g.first.user, g.second.user}
        PROVE  ~Playing(u)
    <3>1. g.first = mem[r].first /\ g.second = mem[r].second /\ pc[r] = "create"
      BY <1>2, <2>1, GameCreated DEF CreateGame
    <3> QED BY <2>1, <3>1 DEF MatchingInv, StillReady
  <2>2. \A g, h \in games' : g \notin games /\ h \notin games => g = h
    BY <1>2 DEF CreateGame
  <2> QED BY <1>0, <2>1, <2>2 DEF OneGamePerSingleTab, AtMostOneGame, Playing
<1>3. ASSUME NEW g \in games, EndGame(g) PROVE OneGamePerSingleTab'
  <2>1. \A h \in games' : h.active => h \in games
    BY <1>3, GameEnded
  <2> QED BY <1>0, <2>1 DEF OneGamePerSingleTab, AtMostOneGame
<1> QED BY <1>1, <1>2, <1>3, Steps, ShapeFrame DEF vars

-----------------------------------------------------------------------------
(* The theorems                                                            *)

LEMMA InvInit == Init => MatchingInv
<1> SUFFICES ASSUME Init PROVE MatchingInv
  OBVIOUS
<1>1. /\ queue = {} /\ games = {}
      /\ \A t \in Threads : /\ pc[t] = "idle" /\ mem[t].first = NoEntry
                            /\ mem[t].second = NoEntry /\ mem[t].todo = {}
  BY DEF Init, NoLocals
<1>2. Reqs \subseteq Threads /\ Admin \in Threads
  BY DEF Threads
<1>3. StampsDiffer /\ SingleEntry /\ ErasesOwnRows
  BY <1>1, <1>2 DEF StampsDiffer, SingleEntry, ErasesOwnRows, Inserted
<1>4. LocksHold
  BY <1>1, <1>2 DEF LocksHold, Held
<1>5. \A r \in Reqs : ListedInOrder(r) /\ StillReady(r)
  BY <1>1, <1>2 DEF ListedInOrder, StillReady
<1>6. EntriesSpent /\ FirstComeIsPlayer1 /\ OneGamePerSingleTab
  BY <1>1 DEF EntriesSpent, FirstComeIsPlayer1, OneGamePerSingleTab, AtMostOneGame
<1> QED BY <1>3, <1>4, <1>5, <1>6 DEF MatchingInv

(* Types and the invariant hold in every state of every interleaving of    *)
(* Start, Cancel and DeleteUser.                                           *)
THEOREM MatchingSafety == Spec => [](TypeOK /\ MatchingInv)
<1>1. Init => TypeOK /\ MatchingInv
  BY TypeInit, InvInit
<1>2. TypeOK /\ MatchingInv /\ [Next]_vars => (TypeOK /\ MatchingInv)'
  BY TypeNext, LocksNext, StampsNext, OrderNext, ErasesNext, SpentNext, SingleNext,
     ReadyNext, FirstComeNext, OneGameNext DEF MatchingInv
<1> QED BY <1>1, <1>2, PTL DEF Spec

(* Every variable stays in its type, for any number of requests. *)
THEOREM TypeCorrect == Spec => []TypeOK
<1> QED BY MatchingSafety, PTL

(* player1 of a game came to the queue before player2, who is another user *)
(* (ListByStatusForUpdate's order, matchPlayers' check of the pair).       *)
THEOREM PairInOrder == Spec => []FirstComeIsPlayer1
<1>1. MatchingInv => FirstComeIsPlayer1
  BY DEF MatchingInv
<1> QED BY <1>1, MatchingSafety, PTL

(* A user who never has two requests under way is never in two active      *)
(* games (Start's checks, matchingPlayerReady and the row locks together). *)
THEOREM OneGameEach == Spec => []OneGamePerSingleTab
<1>1. MatchingInv => OneGamePerSingleTab
  BY DEF MatchingInv
<1> QED BY <1>1, MatchingSafety, PTL

(* A game takes two waiting entries out of the queue, and no entry makes   *)
(* two games (FOR UPDATE and DeleteByIDs in one transaction).              *)
THEOREM EntriesUsedOnce == Spec => MatchConsumesEntries
<1> DEFINE Consumes ==
      \A g \in games' \ games : g.active =>
        /\ \A e \in {g.first, g.second} :
             e \notin queue' /\ (e \in queue \/ \E r \in Reqs : e = Own(r))
        /\ \A h \in games : {g.first, g.second} \cap {h.first, h.second} = {}
<1>1. ASSUME TypeOK, MatchingInv, [Next]_vars PROVE Consumes
  <2>1. CASE games' = games
    BY <2>1
  <2>2. ASSUME NEW r \in Reqs, CreateGame(r) PROVE Consumes
    <3>1. pc[r] \in Inserted /\ Held(r) \subseteq queue \cup {Own(r)}
      BY <1>1, <2>2 DEF CreateGame, Inserted, MatchingInv, LocksHold
    <3>2. \A h \in games : h.first \notin Held(r) /\ h.second \notin Held(r)
      BY <1>1, <3>1 DEF MatchingInv, EntriesSpent, Spent
    <3>3. queue' \cap Held(r) = {}
      BY <2>2 DEF CreateGame
    <3> QED BY <1>1, <2>2, <3>1, <3>2, <3>3, GameCreated
  <2>3. ASSUME NEW g \in games, EndGame(g) PROVE Consumes
    BY <1>1, <2>3, GameEnded
  <2> HIDE DEF Consumes
  <2> QED BY <1>1, <2>1, <2>2, <2>3, Steps, ShapeFrame DEF vars
<1>2. TypeOK /\ MatchingInv /\ [Next]_vars => [Consumes]_vars
  BY <1>1
<1> QED BY <1>2, MatchingSafety, PTL DEF Spec, MatchConsumesEntries

(* A waiting entry goes by a match, a cancel, a deletion, or because its   *)
(* own user is not ready: a DELETE or a rejected pair takes no one else's  *)
(* (DeleteByUserID, matchPlayers' early returns).                          *)
THEOREM NobodyElseRemoved == Spec => InnocentsStay
<1> DEFINE Accounted(e) ==
      \/ \E g \in games' \ games : e \in {g.first, g.second}
      \/ ~Ready(e.user)
      \/ \E r \in Reqs : pc[r] = "erase" /\ Caller[r] = e.user
      \/ mem[Admin].target = e.user
<1>1. ASSUME MatchingInv, [Next]_vars, NEW e \in queue, e \notin queue'
      PROVE  Accounted(e)
  <2>1. ASSUME NEW r \in Reqs, CheckFirst(r) \/ CheckSecond(r) PROVE Accounted(e)
    BY <1>1, <2>1 DEF CheckFirst, CheckSecond, Remove
  <2>2. ASSUME NEW r \in Reqs, CreateGame(r) PROVE Accounted(e)
    <3> DEFINE new == [first |-> mem[r].first, second |-> mem[r].second, active |-> TRUE]
    <3>1. new \in games' /\ e \in {new.first, new.second}
      BY <1>1, <2>2 DEF CreateGame, Held
    <3>2. \A g \in games : g.first # e /\ g.second # e
      BY <1>1 DEF MatchingInv, EntriesSpent, Spent
    <3> HIDE DEF new
    <3> QED BY <3>1, <3>2
  <2>3. ASSUME NEW r \in Reqs, Erase(r) PROVE Accounted(e)
    BY <1>1, <2>3 DEF Erase, MatchingInv, ErasesOwnRows
  <2>4. CASE AdminCommit
    BY <1>1, <2>4 DEF AdminCommit, MatchingInv, ErasesOwnRows
  <2>5. ASSUME queue \subseteq queue' PROVE FALSE
    BY <1>1, <2>5
  <2>6. ASSUME NEW r \in Reqs, \/ StartCheckActive(r) \/ Cancel(r) \/ StartCheckWaiting(r)
                              \/ InsertAndList(r) \/ LockNext(r) \/ WaitAlone(r)
                              \/ RejectPair(r)
        PROVE  queue \subseteq queue'
    BY <2>6 DEF StartCheckActive, Cancel, StartCheckWaiting, InsertAndList, LockNext,
                WaitAlone, RejectPair
  <2>7. CASE \/ UNCHANGED vars \/ AdminDelete \/ \E u \in Users : AdminCheck(u)
             \/ \E g \in games : EndGame(g)
             \/ \E t \in Threads : Abort(t)
    BY <2>5, <2>7 DEF vars, AdminDelete, AdminCheck, EndGame, Abort
  <2> HIDE DEF Accounted
  <2>8. ASSUME NEW r \in Reqs, StartCheckActive(r) \/ Cancel(r) \/ RequestStep(r)
        PROVE  Accounted(e)
    BY <2>1, <2>2, <2>3, <2>5, <2>6, <2>8, Zenon DEF RequestStep
  <2> QED BY <1>1, <2>4, <2>7, <2>8 DEF Next, AdminStep
<1> DEFINE Stay == \A e \in queue \ queue' : Accounted(e)
<1>2. MatchingInv /\ [Next]_vars => [Stay]_vars
  BY <1>1
<1> QED BY <1>2, MatchingSafety, PTL DEF Spec, InnocentsStay
=============================================================================
