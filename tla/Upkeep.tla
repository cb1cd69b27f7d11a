------------------------------- MODULE Upkeep -------------------------------
(***************************************************************************)
(* The rows of users and what is made from them: the ranking, rebuilt by   *)
(* administrators and by a cron job, and the backup, brought up to date by *)
(* a cron job that remembers in Redis when it last succeeded.              *)
(*                                                                         *)
(* Whoever changes a user reads the row and saves all of it later; a row   *)
(* carries the clock of whoever wrote it, read before it was committed.    *)
(*                                                                         *)
(* History: "won" counts the rows of match_histories a user won; "dirty"   *)
(* are the users with a win committed between the two steps of another     *)
(* save; "gone" are the users ever marked as deleted, whatever undid it;   *)
(* "late" are the rows committed while a sync ran, or with a clock that    *)
(* the last sync had already passed.                                       *)
(***************************************************************************)
EXTENDS Integers, FiniteSets, Sequences

CONSTANTS
  Users,             \* numbers, in the order of their names
  Writers,           \* transactions that save a user row
  Builders,          \* rebuilds of the ranking, each under a lock of its own
  Syncs,             \* runs of the backup's cron job
  Second,            \* how many ticks of the clock a second has
  MaxRetries,
  MaxBusy, MaxStarts, MaxWins, MaxClock    \* bounds of the model

Procs == Writers \cup Builders \cup Syncs
Tables == <<"users", "rankings">>    \* of the seven, in the order of Sync
TableNames == {"users", "rankings"}
Kinds == {"win", "touch", "delete"}

ASSUME UsersAssumption == Users \subseteq Nat \ {0} /\ IsFiniteSet(Users)
ASSUME RetriesAssumption == MaxRetries \in Nat \ {0} /\ Second \in Nat \ {0}
ASSUME JobsAssumption ==
  Writers \cap Builders = {} /\ Writers \cap Syncs = {} /\ Builders \cap Syncs = {}
ASSUME UpkeepBoundsAssumption ==
  MaxBusy \in Nat /\ MaxStarts \in Nat /\ MaxWins \in Nat /\ MaxClock \in Nat \ {0}

VARIABLES
  clock, starts,
  rows,      \* both tables: NoRow, or the columns that matter and updated_at
  backup,    \* the same tables in the backup database
  status,    \* backup:status in Redis, if set; last is 0 when it names no time
  pc, mem,   \* where each transaction or job is, and its locals
  won, dirty, gone, late

vars == <<clock, starts, rows, backup, status, pc, mem, won, dirty, gone, late>>
history == <<won, dirty, gone, late>>

NoRow == [stamp |-> 0]
NoRows == [u \in Users |-> NoRow]
NewUser == [wins |-> 0, deleted |-> FALSE, stamp |-> 1]
NoStatus == [state |-> "none", last |-> 0]
NoLocals == [kind |-> "none", user |-> 0, row |-> NoRow, stamp |-> 0, list |-> <<>>,
             seen |-> {}, since |-> 0, attempt |-> 0, table |-> 0, found |-> NoRows]

Init ==
  /\ clock = 1 /\ starts = 0
  /\ rows = [t \in TableNames |-> IF t = "users" THEN [u \in Users |-> NewUser] ELSE NoRows]
  /\ backup = [t \in TableNames |-> NoRows]
  /\ status = NoStatus
  /\ pc = [p \in Procs |-> "idle"] /\ mem = [p \in Procs |-> NoLocals]
  /\ won = [u \in Users |-> 0] /\ dirty = {} /\ gone = {} /\ late = {}

-----------------------------------------------------------------------------
(* Bounds: at most MaxBusy transactions and jobs are under way at once, and *)
(* MaxStarts of them in a behaviour.                                       *)
Starts(p) ==
  /\ pc[p] = "idle" /\ Cardinality({q \in Procs : pc[q] # "idle"}) < MaxBusy
  /\ starts < MaxStarts /\ starts' = starts + 1

Goto(p, l, m) == pc' = [pc EXCEPT ![p] = l] /\ mem' = [mem EXCEPT ![p] = m]
Done(p) == Goto(p, "idle", NoLocals)

(* All is well as long as no sync has said otherwise. *)
GetBackupStatus == IF status = NoStatus THEN [state |-> "ok", last |-> 0] ELSE status

Syncing == \E s \in Syncs : pc[s] # "idle"

(* The rows of a table that S writes with the clock "stamp". *)
Committed(table, S, stamp) ==
  late' = IF Syncing \/ stamp <= status.last
          THEN late \cup {<<table, u>> : u \in S}
          ELSE late \ {<<table, u>> : u \in S}

-----------------------------------------------------------------------------
(* User rows: incrementUserWinCount of a guess that wins, TouchActivity    *)
(* and touchUserActivity, DeleteUser.                                      *)

Winning(w, u) == mem[w].kind = "win" /\ mem[w].user = u

ReadUser(w, u, kind) ==
  /\ Starts(w)
  /\ kind # "win" => ~rows["users"][u].deleted
  /\ kind = "win" => won[u] + Cardinality({v \in Writers : Winning(v, u)}) < MaxWins
  /\ Goto(w, "save", [NoLocals EXCEPT !.kind = kind, !.user = u,
                        !.row = rows["users"][u], !.stamp = clock])
  /\ UNCHANGED <<clock, rows, backup, status, history>>

Saved(m, now) ==
  [wins |-> IF m.kind = "win" THEN m.row.wins + 1 ELSE m.row.wins,
   deleted |-> m.row.deleted \/ m.kind = "delete", stamp |-> now]

(* Save writes all columns, with a clock read before the commit; a win also *)
(* writes the match history.  A save that read the row before this win     *)
(* takes it back.                                                          *)
SaveUser(w) ==
  LET m == mem[w]
      u == m.user
  IN /\ pc[w] = "save"
     /\ \E now \in m.stamp .. clock :
          /\ rows' = [rows EXCEPT !["users"][u] = Saved(m, now)]
          /\ Committed("users", {u}, now)
     /\ won' = IF m.kind = "win" THEN [won EXCEPT ![u] = @ + 1] ELSE won
     /\ dirty' = IF m.kind = "win" /\ \E v \in Writers \ {w} : mem[v].user = u
                 THEN dirty \cup {u} ELSE dirty
     /\ gone' = IF m.kind = "delete" THEN gone \cup {u} ELSE gone
     /\ Done(w)
     /\ UNCHANGED <<clock, starts, backup, status>>

(* Mutant: the match history outlives a save that fails. *)
SaveFailsHalf(w) ==
  /\ pc[w] = "save"
  /\ won' = IF mem[w].kind = "win" THEN [won EXCEPT ![mem[w].user] = @ + 1] ELSE won
  /\ Done(w)
  /\ UNCHANGED <<clock, starts, rows, backup, status, dirty, gone, late>>

SaveFails(w) ==
  /\ pc[w] = "save"
  /\ Done(w)
  /\ UNCHANGED <<clock, starts, rows, backup, status, history>>

-----------------------------------------------------------------------------
(* The ranking *)

(* listUsersForRankingRebuild: by wins, then by name. *)
Precedes(x, y) == x.wins > y.wins \/ (x.wins = y.wins /\ x.user < y.user)

Listed == {u \in Users : ~rows["users"][u].deleted}

(* The list of an order of the users, and the order that sorting leads to. *)
ListOf(order) ==
  [i \in DOMAIN order |-> [user |-> order[i], wins |-> rows["users"][order[i]].wins]]

ListUsers ==
  {ListOf(order) : order \in
     {f \in [1 .. Cardinality(Listed) -> Listed] :
        /\ \A u \in Listed : \E i \in DOMAIN f : f[i] = u
        /\ \A i, j \in DOMAIN f : i < j => Precedes(ListOf(f)[i], ListOf(f)[j])}}

(* Rebuild reads the users, outside the transaction that follows. *)
StartRebuild(b) ==
  /\ Starts(b)
  /\ \E list \in ListUsers :
       Goto(b, "delete", [NoLocals EXCEPT !.list = list, !.stamp = clock])
  /\ UNCHANGED <<clock, rows, backup, status, history>>

Present == {u \in Users : rows["rankings"][u] # NoRow}

(* DELETE FROM rankings: it sees the rows there are now, and waits until   *)
(* nobody else is deleting them.                                           *)
DeleteRanking(b) ==
  /\ pc[b] = "delete"
  /\ Goto(b, "wait", [mem[b] EXCEPT !.seen = Present])
  /\ UNCHANGED <<clock, starts, rows, backup, status, history>>

DeleteWaits(b) ==
  /\ pc[b] = "wait"
  /\ \A c \in Builders \ {b} : pc[c] = "insert" => mem[c].seen \cap mem[b].seen = {}
  /\ Goto(b, "insert", mem[b])
  /\ UNCHANGED <<clock, starts, rows, backup, status, history>>

(* Mutant: ranks are the indices of the list. *)
RankRowFromZero(m, i) == [rank |-> i - 1, wins |-> m.list[i].wins, stamp |-> m.stamp]

RankRow(m, i) == [rank |-> i, wins |-> m.list[i].wins, stamp |-> m.stamp]

(* Mutant: a user who is there already is updated. *)
InsertRankingOver(b) ==
  LET m == mem[b]
      new == {m.list[i].user : i \in DOMAIN m.list}
      kept == Present \ m.seen
  IN /\ pc[b] = "insert"
     /\ rows' = [rows EXCEPT !["rankings"] =
          [u \in Users |->
             IF u \in new THEN RankRow(m, CHOOSE i \in DOMAIN m.list : m.list[i].user = u)
             ELSE IF u \in kept THEN @[u] ELSE NoRow]]
     /\ Committed("rankings", new, m.stamp)
     /\ pc' = [pc EXCEPT ![b] = "idle"]
     /\ mem' = [c \in Procs |-> IF c = b THEN NoLocals
                  ELSE [mem[c] EXCEPT !.seen = @ \ m.seen]]
     /\ UNCHANGED <<clock, starts, backup, status, won, dirty, gone>>

(* INSERT and commit.  The key is the user: a row that the DELETE did not  *)
(* see makes it fail, and everything is rolled back.                       *)
InsertRanking(b) ==
  LET m == mem[b]
      new == {m.list[i].user : i \in DOMAIN m.list}
      kept == Present \ m.seen
  IN /\ pc[b] = "insert"
     /\ IF new \cap kept # {}
        THEN Done(b) /\ UNCHANGED <<rows, late>>
        ELSE /\ rows' = [rows EXCEPT !["rankings"] =
                  [u \in Users |->
                     IF u \in new THEN RankRow(m, CHOOSE i \in DOMAIN m.list : m.list[i].user = u)
                     ELSE IF u \in kept THEN @[u] ELSE NoRow]]
             /\ Committed("rankings", new, m.stamp)
             /\ pc' = [pc EXCEPT ![b] = "idle"]
             /\ mem' = [c \in Procs |-> IF c = b THEN NoLocals
                          ELSE [mem[c] EXCEPT !.seen = @ \ m.seen]]
     /\ UNCHANGED <<clock, starts, backup, status, won, dirty, gone>>

-----------------------------------------------------------------------------
(* The backup *)

Truncate(t) == t - (t % Second)    \* RFC 3339, without fractions

(* RunSync: the status of the last run, and the first attempt. *)
StartSync(s) ==
  /\ Starts(s)
  /\ Goto(s, "read", [NoLocals EXCEPT !.since = GetBackupStatus.last, !.attempt = 1, !.table = 1])
  /\ UNCHANGED <<clock, rows, backup, status, history>>

(* syncRows: what was updated after the last sync ... *)
ReadRows(s) ==
  LET table == rows[Tables[mem[s].table]]
  IN /\ pc[s] = "read"
     /\ Goto(s, "copy", [mem[s] EXCEPT !.found =
          [u \in Users |-> IF table[u].stamp > mem[s].since THEN table[u] ELSE NoRow]])
     /\ UNCHANGED <<clock, starts, rows, backup, status, history>>

(* ... goes into the backup, over what is there. *)
CopyRows(s) ==
  LET m == mem[s]
      table == Tables[m.table]
  IN /\ pc[s] = "copy"
     /\ backup' = [backup EXCEPT ![table] =
          [u \in Users |-> IF m.found[u] = NoRow THEN @[u] ELSE m.found[u]]]
     /\ IF m.table = Len(Tables)
        THEN Goto(s, "ok", [m EXCEPT !.found = NoRows])
        ELSE Goto(s, "read", [m EXCEPT !.found = NoRows, !.table = @ + 1])
     /\ UNCHANGED <<clock, starts, rows, status, history>>

(* One table fails: the attempt ends there, and the next starts over. *)
SyncFails(s) ==
  /\ pc[s] \in {"read", "copy"}
  /\ LET m == [mem[s] EXCEPT !.found = NoRows, !.table = 1]
     IN IF m.attempt < MaxRetries
        THEN Goto(s, "read", [m EXCEPT !.attempt = @ + 1])
        ELSE Goto(s, "failed", m)
  /\ UNCHANGED <<clock, starts, rows, backup, status, history>>

SetOk(s) ==
  /\ pc[s] = "ok"
  /\ status' = [state |-> "ok", last |-> Truncate(clock)]
  /\ Done(s)
  /\ UNCHANGED <<clock, starts, rows, backup, history>>

(* The status is read again to keep its time; a failing read keeps none.   *)
ReadAgain(s) ==
  /\ pc[s] = "failed"
  /\ \E kept \in {GetBackupStatus.last, 0} : Goto(s, "error", [mem[s] EXCEPT !.since = kept])
  /\ UNCHANGED <<clock, starts, rows, backup, status, history>>

(* Mutant: an attempt that failed moves the time on. *)
SetErrorMovingOn(s) ==
  /\ pc[s] = "error"
  /\ status' = [state |-> "error", last |-> Truncate(clock)]
  /\ Done(s)
  /\ UNCHANGED <<clock, starts, rows, backup, history>>

SetError(s) ==
  /\ pc[s] = "error"
  /\ status' = [state |-> "error", last |-> mem[s].since]
  /\ Done(s)
  /\ UNCHANGED <<clock, starts, rows, backup, history>>

Tick ==
  /\ clock < MaxClock
  /\ clock' = clock + 1
  /\ UNCHANGED <<starts, rows, backup, status, pc, mem, history>>

BuilderStep(b) ==
  \/ StartRebuild(b)
  \/ DeleteRanking(b)
  \/ DeleteWaits(b)
  \/ InsertRanking(b)

SyncStep(s) ==
  \/ StartSync(s)
  \/ ReadRows(s)
  \/ CopyRows(s)
  \/ SyncFails(s)
  \/ SetOk(s)
  \/ ReadAgain(s)
  \/ SetError(s)

Next ==
  \/ \E w \in Writers, u \in Users, kind \in Kinds : ReadUser(w, u, kind)
  \/ \E w \in Writers : SaveUser(w) \/ SaveFails(w)
  \/ \E b \in Builders : BuilderStep(b)
  \/ \E s \in Syncs : SyncStep(s)
  \/ Tick

Spec == Init /\ [][Next]_vars

-----------------------------------------------------------------------------
(* Properties *)

Times == 0 .. MaxClock
UserRows == [wins : Nat, deleted : BOOLEAN, stamp : Times]
RankRows == [rank : 1 .. Cardinality(Users), wins : Nat, stamp : Times]
RowsOf(t) == IF t = "users" THEN UserRows ELSE RankRows \cup {NoRow}
Found == [Users -> UserRows \cup RankRows \cup {NoRow}]
Places == {"idle", "save", "delete", "wait", "insert", "read", "copy", "ok", "failed", "error"}

(* Every variable stays in its type. *)
TypeOK ==
  /\ clock \in Times /\ starts \in 0 .. MaxStarts
  /\ rows \in [TableNames -> Found] /\ backup \in [TableNames -> Found]
  /\ \A t \in TableNames, u \in Users :
       rows[t][u] \in RowsOf(t) /\ backup[t][u] \in RowsOf(t) \cup {NoRow}
  /\ status \in [state : {"none", "ok", "error"}, last : Times]
  /\ pc \in [Procs -> Places]
  /\ mem \in [Procs ->
       [kind : Kinds \cup {"none"}, user : Users \cup {0}, row : UserRows \cup {NoRow},
        stamp : Times, list : Seq([user : Users, wins : Nat]), seen : SUBSET Users,
        since : Times, attempt : 0 .. MaxRetries, table : 0 .. Len(Tables), found : Found]]
  /\ won \in [Users -> Nat] /\ dirty \subseteq Users /\ gone \subseteq Users
  /\ late \subseteq TableNames \X Users

(* game_play.go:218-229: a user's wins are the games that user won, unless *)
(* a win was committed in the middle of another save of the row.           *)
WinsCounted == \A u \in Users \ dirty : rows["users"][u].wins = won[u]

OneList(table) ==
  LET listed == {u \in Users : table[u] # NoRow}
      place(u) == [user |-> u, wins |-> table[u].wins]
  IN /\ {table[u].rank : u \in listed} = 1 .. Cardinality(listed)
     /\ \A u, v \in listed : table[u].rank < table[v].rank => Precedes(place(u), place(v))

(* ranking.go:62-77: however rebuilds overlap, the table is one list:      *)
(* ranks 1, 2, 3 ... in the order of wins, and of names among equals, as   *)
(* long as one user was never deleted.  (Two rebuilds whose lists have     *)
(* nobody in common do not get in each other's way.)                       *)
RankingIsOneList == gone # Users => OneList(rows["rankings"])

(* backup.go:51-89: after any failure, retry or overlap of syncs, a row    *)
(* that the next sync will not look at is in the backup as it is.          *)
BackupComplete ==
  \A t \in TableNames, u \in Users :
    rows[t][u] # NoRow /\ rows[t][u].stamp <= status.last /\ <<t, u>> \notin late
      => backup[t][u] = rows[t][u]
=============================================================================
