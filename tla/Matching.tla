------------------------------ MODULE Matching ------------------------------
(***************************************************************************)
(* Matching: the requests Start and Cancel of usecase/matching.go and the  *)
(* deletion of a user in usecase/admin.go, on the table matching_queue.    *)
(*                                                                         *)
(* Transactions run under READ COMMITTED, PostgreSQL's default: a          *)
(* statement sees what was committed when it began, a row locked by        *)
(* another transaction is waited for, and then taken only if it is still   *)
(* there.  What a transaction has written is seen by itself alone until it *)
(* commits, so its last statement and the commit are one step.  A request  *)
(* is cut before each statement that can see another's commit.             *)
(***************************************************************************)
EXTENDS Integers

CONSTANTS
  Users,        \* users with role=user; Start refuses a master
  Reqs,         \* requests that can be in flight at once
  Caller,       \* Caller[r]: the user who sends r; two tabs are two requests
  Admin,        \* the administrator's request
  NoUser, NoEntry,
  MaxStarts,    \* bound: the entries ever given a created_at
  Failing,      \* bound: the requests that may fail
  Deletable     \* bound: the users the administrator may delete

Threads == Reqs \cup {Admin}

ASSUME RequestsAssumption ==
  (\A r \in Reqs : Caller[r] \in Users) /\ Admin \notin Reqs
ASSUME NoUserAssumption == NoUser \notin Users
ASSUME NoEntryAssumption == NoEntry \notin [user : Users, at : Nat]
ASSUME BoundsAssumption ==
  MaxStarts \in Nat /\ Failing \subseteq Threads /\ Deletable \subseteq Users

VARIABLES
  queue,     \* the committed rows of matching_queue
  games,     \* the committed games and the two entries each was made of
  deleted,   \* the users with deleted_at set
  pc, mem,   \* where each request is, and its locals
  clock      \* the next created_at; no two readings are equal

vars == <<queue, games, deleted, pc, mem, clock>>

Entries == [user : Users, at : Nat]

-----------------------------------------------------------------------------
Playing(u) == \E g \in games : g.active /\ u \in {g.first.user, g.second.user}

Waiting(u) == \E e \in queue : e.user = u

(* matchingPlayerReady; its two reads are one step: to tell them apart a   *)
(* game of u has to end and u be deleted, in full, between them.           *)
Ready(u) == u \notin deleted /\ ~Playing(u)

RowsOf(u) == {e \in queue : e.user = u}

NoLocals == [at |-> 0, todo |-> {}, first |-> NoEntry, second |-> NoEntry,
             target |-> NoUser]

Goto(t, l) == pc' = [pc EXCEPT ![t] = l]

Return(t) ==
  /\ Goto(t, "idle")
  /\ mem' = [mem EXCEPT ![t] = NoLocals]

(* The entry a Start has inserted and not yet committed. *)
Own(r) == [user |-> Caller[r], at |-> mem[r].at]

(* The rows whose locks a transaction holds; a DELETE locks and commits in *)
(* one step.                                                               *)
Held(t) == {mem[t].first, mem[t].second} \ {NoEntry}

Locked(e, t) == \E s \in Threads \ {t} : e \in Held(s)

(* Mutant: ORDER BY created_at DESC. *)
NewestOf(e, S) == \A f \in S : f.at <= e.at

OldestOf(e, S) == \A f \in S : e.at <= f.at

-----------------------------------------------------------------------------
(* Start *)

StartCheckActive(r) ==
  /\ pc[r] = "idle"
  /\ Caller[r] \notin deleted /\ ~Playing(Caller[r])
  /\ Goto(r, "checkWaiting")
  /\ UNCHANGED <<queue, games, deleted, mem, clock>>

StartCheckWaiting(r) ==
  /\ pc[r] = "checkWaiting"
  /\ IF Waiting(Caller[r]) \/ clock > MaxStarts
     THEN Return(r) /\ UNCHANGED clock
     ELSE /\ mem' = [mem EXCEPT ![r].at = clock]
          /\ clock' = clock + 1
          /\ Goto(r, "insert")
  /\ UNCHANGED <<queue, games, deleted>>

(* Insert, then the snapshot of ListByStatusForUpdate *)
InsertAndList(r) ==
  /\ pc[r] = "insert"
  /\ mem' = [mem EXCEPT ![r].todo = queue \cup {Own(r)}]
  /\ Goto(r, "lock")
  /\ UNCHANGED <<queue, games, deleted, clock>>

Listed(r) ==
  pc[r] = "lock" /\ (mem[r].todo = {} \/ mem[r].second # NoEntry)

Lock(r, e) ==
  IF mem[r].first = NoEntry
  THEN mem' = [mem EXCEPT ![r].todo = @ \ {e}, ![r].first = e]
  ELSE mem' = [mem EXCEPT ![r].todo = @ \ {e}, ![r].second = e]

(* Mutant: the rows are read without FOR UPDATE. *)
LockNextFree(r) ==
  /\ pc[r] = "lock" /\ ~Listed(r)
  /\ \E e \in mem[r].todo : OldestOf(e, mem[r].todo) /\ Lock(r, e)
  /\ UNCHANGED <<queue, games, deleted, pc, clock>>

(* The oldest row of the snapshot not visited yet is locked, or skipped if *)
(* the transaction waited for has deleted it.                              *)
LockNext(r) ==
  /\ pc[r] = "lock" /\ ~Listed(r)
  /\ \E e \in mem[r].todo :
       /\ OldestOf(e, mem[r].todo) /\ ~Locked(e, r)
       /\ IF e \in queue \cup {Own(r)}
          THEN Lock(r, e)
          ELSE mem' = [mem EXCEPT ![r].todo = @ \ {e}]
  /\ UNCHANGED <<queue, games, deleted, pc, clock>>

WaitAlone(r) ==
  /\ Listed(r) /\ mem[r].second = NoEntry
  /\ queue' = queue \cup {Own(r)}
  /\ Return(r)
  /\ UNCHANGED <<games, deleted, clock>>

Paired(r) == Listed(r) /\ mem[r].second # NoEntry

SameUser(r) == mem[r].first.user = mem[r].second.user

(* Mutant: the request lists again instead of returning. *)
RejectPairRetried(r) ==
  /\ Paired(r) /\ SameUser(r)
  /\ mem' = [mem EXCEPT ![r].first = NoEntry, ![r].second = NoEntry]
  /\ Goto(r, "insert")
  /\ UNCHANGED <<queue, games, deleted, clock>>

(* ErrBadRequest: the insert is rolled back, the two rows stay. *)
RejectPair(r) ==
  /\ Paired(r) /\ SameUser(r)
  /\ Return(r)
  /\ UNCHANGED <<queue, games, deleted, clock>>

(* Mutant: both entries are removed when one player is not ready. *)
RemoveBoth(r, e) ==
  /\ queue' = (queue \cup {Own(r)}) \ Held(r)
  /\ Return(r)

Remove(r, e) ==
  /\ queue' = (queue \cup {Own(r)}) \ {e}
  /\ Return(r)

CheckFirst(r) ==
  /\ Paired(r) /\ ~SameUser(r)
  /\ IF Ready(mem[r].first.user)
     THEN Goto(r, "checkSecond") /\ UNCHANGED <<queue, mem>>
     ELSE Remove(r, mem[r].first)
  /\ UNCHANGED <<games, deleted, clock>>

CheckSecond(r) ==
  /\ pc[r] = "checkSecond"
  /\ IF Ready(mem[r].second.user)
     THEN Goto(r, "create") /\ UNCHANGED <<queue, mem>>
     ELSE Remove(r, mem[r].second)
  /\ UNCHANGED <<games, deleted, clock>>

(* Create, DeleteByIDs and the commit.  MATCHED is sent after it, its      *)
(* errors ignored, and changes nothing here.                               *)
CreateGame(r) ==
  /\ pc[r] = "create"
  /\ games' = games \cup
       {[first |-> mem[r].first, second |-> mem[r].second, active |-> TRUE]}
  /\ queue' = (queue \cup {Own(r)}) \ Held(r)
  /\ Return(r)
  /\ UNCHANGED <<deleted, clock>>

-----------------------------------------------------------------------------
(* Cancel, and DeleteUser: one DELETE by user_id, of the rows committed    *)
(* when it begins.  It takes its row locks together.                       *)

Cancel(r) ==
  /\ pc[r] = "idle"
  /\ mem' = [mem EXCEPT ![r].todo = RowsOf(Caller[r])]
  /\ Goto(r, "erase")
  /\ UNCHANGED <<queue, games, deleted, clock>>

Erase(r) ==
  /\ pc[r] = "erase"
  /\ \A e \in mem[r].todo : ~Locked(e, r)
  /\ queue' = queue \ mem[r].todo
  /\ Return(r)
  /\ UNCHANGED <<games, deleted, clock>>

AdminCheck(u) ==
  /\ pc[Admin] = "idle"
  /\ u \in Deletable \ deleted /\ ~Playing(u)
  /\ mem' = [mem EXCEPT ![Admin].target = u]
  /\ Goto(Admin, "deleteRows")
  /\ UNCHANGED <<queue, games, deleted, clock>>

(* Mutant: the target is forgotten before the commit. *)
AdminDeleteForgetful ==
  /\ pc[Admin] = "deleteRows"
  /\ mem' = [mem EXCEPT ![Admin] = [NoLocals EXCEPT !.todo = RowsOf(mem[Admin].target)]]
  /\ Goto(Admin, "deleteUser")
  /\ UNCHANGED <<queue, games, deleted, clock>>

AdminDelete ==
  /\ pc[Admin] = "deleteRows"
  /\ mem' = [mem EXCEPT ![Admin].todo = RowsOf(mem[Admin].target)]
  /\ Goto(Admin, "deleteUser")
  /\ UNCHANGED <<queue, games, deleted, clock>>

AdminCommit ==
  /\ pc[Admin] = "deleteUser"
  /\ \A e \in mem[Admin].todo : ~Locked(e, Admin)
  /\ queue' = queue \ mem[Admin].todo
  /\ deleted' = deleted \cup {mem[Admin].target}
  /\ Return(Admin)
  /\ UNCHANGED <<games, clock>>

-----------------------------------------------------------------------------
(* The environment: the game is played to its end (GameService); a call    *)
(* fails or the process dies, and the transaction is rolled back.          *)

EndGame(g) ==
  /\ g.active
  /\ games' = (games \ {g}) \cup {[g EXCEPT !.active = FALSE]}
  /\ UNCHANGED <<queue, deleted, pc, mem, clock>>

Abort(t) ==
  /\ pc[t] # "idle" /\ t \in Failing
  /\ Return(t)
  /\ UNCHANGED <<queue, games, deleted, clock>>

Init ==
  /\ queue = {} /\ games = {} /\ deleted = {}
  /\ pc = [t \in Threads |-> "idle"]
  /\ mem = [t \in Threads |-> NoLocals]
  /\ clock = 1

(* The steps of a request under way *)
RequestStep(r) ==
  \/ StartCheckWaiting(r)
  \/ InsertAndList(r)
  \/ LockNext(r)
  \/ WaitAlone(r)
  \/ RejectPair(r)
  \/ CheckFirst(r)
  \/ CheckSecond(r)
  \/ CreateGame(r)
  \/ Erase(r)

AdminStep == AdminDelete \/ AdminCommit

Next ==
  \/ \E r \in Reqs : StartCheckActive(r) \/ Cancel(r) \/ RequestStep(r)
  \/ \E u \in Users : AdminCheck(u)
  \/ AdminStep
  \/ \E g \in games : EndGame(g)
  \/ \E t \in Threads : Abort(t)

Spec == Init /\ [][Next]_vars

(* A request that can go on does. *)
FairSpec == Spec /\ WF_vars(AdminStep) /\ \A r \in Reqs : WF_vars(RequestStep(r))

-----------------------------------------------------------------------------
(* Properties *)

Games == [first : Entries, second : Entries, active : BOOLEAN]

Locals == [at : Nat, todo : SUBSET Entries, first : Entries \cup {NoEntry},
           second : Entries \cup {NoEntry}, target : Users \cup {NoUser}]

Points == {"idle", "checkWaiting", "insert", "lock", "checkSecond", "create",
           "erase", "deleteRows", "deleteUser"}

(* Every variable stays in its type. *)
TypeOK ==
  /\ queue \subseteq Entries
  /\ games \subseteq Games
  /\ deleted \subseteq Users
  /\ pc \in [Threads -> Points]
  /\ mem \in [Threads -> Locals]
  /\ clock \in Nat

(* A game is made of two entries that wait at that very moment, the        *)
(* caller's own among them or not, and takes both out of the queue: no     *)
(* entry is matched twice, and none after its Cancel has returned          *)
(* (ListByStatusForUpdate, DeleteByIDs).                                   *)
MatchConsumesEntries ==
  [][\A g \in games' \ games : g.active =>
       /\ \A e \in {g.first, g.second} :
            e \notin queue' /\ (e \in queue \/ \E r \in Reqs : e = Own(r))
       /\ \A h \in games : {g.first, g.second} \cap {h.first, h.second} = {}]_vars

(* README.md:277: the one who came to the queue first is player1; and the  *)
(* two players differ, also when one user has two entries.                 *)
FirstComeIsPlayer1 ==
  \A g \in games : g.first.at < g.second.at /\ g.first.user # g.second.user

(* Nobody loses a place in the queue but by being matched, by cancelling,  *)
(* by being deleted, or by not being ready when it is their turn.          *)
InnocentsStay ==
  [][\A e \in queue \ queue' :
       \/ \E g \in games' \ games : e \in {g.first, g.second}
       \/ ~Ready(e.user)
       \/ \E r \in Reqs : pc[r] = "erase" /\ Caller[r] = e.user
       \/ mem[Admin].target = e.user]_vars

(* A user is in at most one game that is not over. *)
AtMostOneGame(u) ==
  \A g, h \in {g \in games : g.active /\ u \in {g.first.user, g.second.user}} : g = h

(* A user who sends one request at a time is never in two active games,    *)
(* whatever the others send.                                               *)
SingleTabs == {u \in Users : \A r, s \in Reqs : Caller[r] = u /\ Caller[s] = u => r = s}
OneGamePerSingleTab == \A u \in SingleTabs : AtMostOneGame(u)

(* Every request returns: the row locks are taken in the order of          *)
(* created_at, so no two listings wait for each other.                     *)
RequestsReturn == \A r \in Reqs : pc[r] # "idle" ~> pc[r] = "idle"

(* model/errors.go:27: a user who has a game in progress gets no other.    *)
OneActiveGame == \A u \in Users : AtMostOneGame(u)

-----------------------------------------------------------------------------
(* The inductive strengthening of the properties above, in named parts.    *)

(* Where a Start has a transaction open, and where its listing may hold    *)
(* row locks                                                               *)
Inserted == {"insert", "lock", "checkSecond", "create"}
Locking == {"lock", "checkSecond", "create"}

(* created_at identifies an entry, among the committed rows and the ones   *)
(* transactions have not committed yet.                                    *)
StampsDiffer ==
  /\ \A e \in queue : e.at < clock
  /\ \A e, f \in queue : e.at = f.at => e = f
  /\ \A r \in Reqs : pc[r] \in Inserted =>
       mem[r].at < clock /\ \A e \in queue : e.at # mem[r].at
  /\ \A r, s \in Reqs :
       pc[r] \in Inserted /\ pc[s] \in Inserted /\ mem[r].at = mem[s].at => r = s

(* A row that is locked is there, and locked by one transaction.           *)
LocksHold ==
  /\ \A r \in Reqs : Held(r) \subseteq queue \cup {Own(r)}
  /\ \A t \in Threads : Held(t) # {} => t \in Reqs /\ pc[t] \in Locking
  /\ \A s, t \in Threads : s # t => Held(s) \cap Held(t) = {}

(* A listing locks from the oldest row on, and a pair is two users.        *)
ListedInOrder(r) ==
  /\ pc[r] \notin {"deleteRows", "deleteUser"}
  /\ \A e, f \in mem[r].todo : e.at = f.at => e = f
  /\ mem[r].first # NoEntry => \A e \in mem[r].todo : mem[r].first.at < e.at
  /\ mem[r].second # NoEntry =>
       mem[r].first # NoEntry /\ mem[r].first.at < mem[r].second.at
  /\ pc[r] \in {"checkSecond", "create"} => mem[r].second # NoEntry /\ ~SameUser(r)

(* A DELETE deletes rows of the user it is about.                          *)
ErasesOwnRows ==
  /\ \A r \in Reqs : pc[r] = "erase" => \A e \in mem[r].todo : e.user = Caller[r]
  /\ pc[Admin] \in {"idle", "deleteRows", "deleteUser"}
  /\ pc[Admin] # "idle" => mem[Admin].target \in Users
  /\ pc[Admin] = "deleteUser" =>
       \A e \in mem[Admin].todo : e.user = mem[Admin].target

(* The entries of a game are used up.                                      *)
Spent(e) ==
  /\ e \notin queue /\ e.at < clock
  /\ \A r \in Reqs : pc[r] \in Inserted => e # Own(r)

EntriesSpent == \A g \in games : Spent(g.first) /\ Spent(g.second)

(* A user with one tab has at most one entry, committed or not, and is     *)
(* still not playing after matchingPlayerReady has said so.                *)
SingleEntry ==
  /\ \A e, f \in queue : e.user = f.user /\ e.user \in SingleTabs => e = f
  /\ \A r \in Reqs : pc[r] \in Inserted /\ Caller[r] \in SingleTabs =>
       \A e \in queue : e.user # Caller[r]

StillReady(r) ==
  /\ pc[r] \in {"checkSecond", "create"} /\ mem[r].first.user \in SingleTabs =>
       ~Playing(mem[r].first.user)
  /\ pc[r] = "create" /\ mem[r].second.user \in SingleTabs =>
       ~Playing(mem[r].second.user)

(* The invariant the proofs are by: who holds which row, in what order the *)
(* rows were taken, and what is known of a single-tab user.                *)
MatchingInv ==
  /\ StampsDiffer
  /\ LocksHold
  /\ \A r \in Reqs : ListedInOrder(r)
  /\ ErasesOwnRows
  /\ EntriesSpent
  /\ SingleEntry
  /\ \A r \in Reqs : StillReady(r)
  /\ FirstComeIsPlayer1
  /\ OneGamePerSingleTab

=============================================================================
