---------------------------- MODULE UpkeepProofs ----------------------------
(***************************************************************************)
(* Proofs about Upkeep: for any users, any number of transactions,         *)
(* rebuilds and syncs, and any number of retries, wins are counted, the    *)
(* ranking is one list, and the backup misses only what was written while  *)
(* a sync ran.                                                             *)
(***************************************************************************)
EXTENDS Upkeep, FiniteSetTheorems, SequenceTheorems, TLAPS

USE UsersAssumption, RetriesAssumption, JobsAssumption, UpkeepBoundsAssumption

-----------------------------------------------------------------------------
(* Types, and what a process has in hand where it is *)

Locals ==
  [kind : Kinds \cup {"none"}, user : Users \cup {0}, row : UserRows \cup {NoRow},
   stamp : Times, list : Seq([user : Users, wins : Nat]), seen : SUBSET Users,
   since : Times, attempt : 0 .. MaxRetries, table : 0 .. Len(Tables), found : Found]

Named(list) == {list[i].user : i \in DOMAIN list}

(* A list names every user once, in the order of the ranking.              *)
IsList(list) ==
  /\ Len(list) = Cardinality(Named(list))
  /\ \A i, j \in DOMAIN list : i < j => /\ Precedes(list[i], list[j])
                                        /\ list[i].user # list[j].user

WellFormed(p, l, m) ==
  /\ l = "save" => p \in Writers /\ m.kind \in Kinds /\ m.user \in Users /\ m.row \in UserRows
  /\ l \in {"delete", "wait", "insert"} => p \in Builders /\ IsList(m.list)
  /\ l \in {"read", "copy", "ok", "failed", "error"} => p \in Syncs
  /\ l \in {"save", "delete", "wait", "insert"} => m.stamp > 0
  /\ l \in {"read", "copy"} => m.table \in {1, 2}
  /\ l = "copy" => \A u \in Users : m.found[u] \in RowsOf(Tables[m.table]) \cup {NoRow}

Shape ==
  /\ clock > 0
  /\ \A p \in Procs : WellFormed(p, pc[p], mem[p])
  /\ \A t \in TableNames, u \in Users : rows[t][u] # NoRow => rows[t][u].stamp > 0

TypeInv == TypeOK /\ Shape

(* The parts of the types that the steps below use.                        *)
LEMMA Parts ==
  ASSUME TypeInv
  PROVE  /\ clock \in Times /\ clock > 0 /\ starts \in 0 .. MaxStarts
         /\ rows \in [TableNames -> Found] /\ backup \in [TableNames -> Found]
         /\ status \in [state : {"none", "ok", "error"}, last : Times]
         /\ pc \in [Procs -> Places] /\ mem \in [Procs -> Locals]
         /\ \A u \in Users : rows["users"][u] \in UserRows
         /\ \A p \in Procs : WellFormed(p, pc[p], mem[p])
         /\ Writers \subseteq Procs /\ Builders \subseteq Procs /\ Syncs \subseteq Procs
BY DEF TypeInv, TypeOK, Shape, Locals, RowsOf, TableNames, Procs

(* Sync goes through these two tables, in this order.                     *)
LEMMA TablesAre == Len(Tables) = 2 /\ Tables[1] = "users" /\ Tables[2] = "rankings"
BY DEF Tables

(* Where a sync can be in that order.                                      *)
LEMMA TableRange == {0, 1, 2} \subseteq 0 .. Len(Tables)
BY TablesAre

(* Whoever is idle has locals of their types.                              *)
LEMMA NoLocalsType ==
  /\ NoLocals \in Locals
  /\ \A p \in Procs : WellFormed(p, "idle", NoLocals)
<1>1. NoRows \in Found /\ 0 \in Times /\ <<>> \in Seq([user : Users, wins : Nat])
  BY DEF NoRows, Found, Times
<1>2. 0 \in 0 .. MaxRetries /\ 0 \in 0 .. Len(Tables)
  BY TablesAre
<1> QED
  BY <1>1, <1>2 DEF NoLocals, Locals, Kinds, WellFormed

(* A process that moves on keeps the types if what it takes along fits.    *)
LEMMA Moves ==
  ASSUME TypeInv, NEW p \in Procs, NEW l \in Places, NEW m \in Locals, Goto(p, l, m),
         WellFormed(p, l, m)
  PROVE  /\ pc' \in [Procs -> Places] /\ mem' \in [Procs -> Locals]
         /\ \A q \in Procs : WellFormed(q, pc'[q], mem'[q])
         /\ pc'[p] = l /\ mem'[p] = m
         /\ \A q \in Procs \ {p} : pc'[q] = pc[q] /\ mem'[q] = mem[q]
<1>1. pc \in [Procs -> Places] /\ mem \in [Procs -> Locals]
      /\ \A q \in Procs : WellFormed(q, pc[q], mem[q])
  BY Parts
<1>2. pc' = [pc EXCEPT ![p] = l] /\ mem' = [mem EXCEPT ![p] = m]
  BY DEF Goto
<1>3. pc' \in [Procs -> Places] /\ mem' \in [Procs -> Locals]
  BY <1>1, <1>2
<1>4. pc'[p] = l /\ mem'[p] = m
  BY <1>1, <1>2
<1>5. \A q \in Procs \ {p} : pc'[q] = pc[q] /\ mem'[q] = mem[q]
  BY <1>1, <1>2
<1>6. ASSUME NEW q \in Procs PROVE WellFormed(q, pc'[q], mem'[q])
  BY <1>1, <1>4, <1>5
<1> QED
  BY <1>3, <1>4, <1>5, <1>6

(* A process that is done is idle, and the others are where they were.     *)
LEMMA Ends ==
  ASSUME TypeInv, NEW p \in Procs, Done(p)
  PROVE  /\ pc' \in [Procs -> Places] /\ mem' \in [Procs -> Locals]
         /\ \A q \in Procs : WellFormed(q, pc'[q], mem'[q])
         /\ pc'[p] = "idle" /\ mem'[p] = NoLocals
         /\ \A q \in Procs \ {p} : pc'[q] = pc[q] /\ mem'[q] = mem[q]
BY Moves, NoLocalsType DEF Done, Places

(* What is late are rows of the tables.                                   *)
LEMMA CommittedType ==
  ASSUME TypeInv, NEW t \in TableNames, NEW S \in SUBSET Users, NEW stamp, Committed(t, S, stamp)
  PROVE  late' \subseteq TableNames \X Users
BY DEF Committed, TypeInv, TypeOK

(* The steps that only move a process leave the data as it is.             *)
LEMMA OnlyMoves ==
  ASSUME TypeInv, pc' \in [Procs -> Places], mem' \in [Procs -> Locals],
         \A q \in Procs : WellFormed(q, pc'[q], mem'[q]),
         starts' \in 0 .. MaxStarts, UNCHANGED <<clock, rows, backup, status, history>>
  PROVE  TypeInv'
BY DEF TypeInv, TypeOK, Shape, Locals, history, Times, RowsOf, RankRows, UserRows, Found

(* Starting is counted.                                                    *)
LEMMA StartsType == ASSUME TypeInv, NEW p \in Procs, Starts(p) PROVE starts' \in 0 .. MaxStarts
BY Parts DEF Starts

(* A function on 1 .. n is a sequence of length n.                         *)
LEMMA FunctionIsSeq ==
  ASSUME NEW n \in Nat, NEW S, NEW f \in [1 .. n -> S]
  PROVE  f \in Seq(S) /\ Len(f) = n
<1>1. f \in UNION {[1 .. k -> S] : k \in Nat}
  OBVIOUS
<1>2. f \in Seq(S)
  BY <1>1, SeqDef
<1> QED
  BY <1>2, LenProperties

(* The elements of a list are users with their wins.                       *)
LEMMA ListElements ==
  ASSUME NEW list \in Seq([user : Users, wins : Nat])
  PROVE  /\ DOMAIN list = 1 .. Len(list) /\ Len(list) \in Nat
         /\ \A i \in DOMAIN list : list[i].user \in Users /\ list[i].wins \in Nat
         /\ Named(list) \subseteq Users
<1>1. /\ Len(list) \in Nat /\ DOMAIN list = 1 .. Len(list)
      /\ list \in [1 .. Len(list) -> [user : Users, wins : Nat]]
  BY LenProperties
<1>2. ASSUME NEW i \in DOMAIN list PROVE list[i] \in [user : Users, wins : Nat]
  BY <1>1
<1> QED
  BY <1>1, <1>2 DEF Named

(* What listUsersForRankingRebuild returns: everybody who is not deleted,  *)
(* once, in order.                                                         *)
LEMMA ListUsersIsList ==
  ASSUME TypeInv, NEW list \in ListUsers
  PROVE  /\ list \in Seq([user : Users, wins : Nat])
         /\ IsList(list)
         /\ Named(list) = Listed
<1>1. PICK f \in [1 .. Cardinality(Listed) -> Listed] :
        /\ list = ListOf(f)
        /\ \A u \in Listed : \E i \in DOMAIN f : f[i] = u
        /\ \A i, j \in DOMAIN f : i < j => Precedes(ListOf(f)[i], ListOf(f)[j])
  BY DEF ListUsers
<1>2. Cardinality(Listed) \in Nat
  BY FS_Subset, FS_CardinalityType DEF Listed
<1>3. \A u \in Users : rows["users"][u].wins \in Nat
  BY Parts DEF UserRows
<1>4. Listed \subseteq Users /\ Listed \subseteq Nat
  BY DEF Listed
<1>5. DOMAIN list = 1 .. Cardinality(Listed)
      /\ \A i \in 1 .. Cardinality(Listed) :
           list[i] = [user |-> f[i], wins |-> rows["users"][f[i]].wins]
  BY <1>1 DEF ListOf
<1>6. ASSUME NEW i \in 1 .. Cardinality(Listed) PROVE list[i] \in [user : Users, wins : Nat]
  <2>1. f[i] \in Users /\ rows["users"][f[i]].wins \in Nat
    BY <1>3, <1>4
  <2>2. list[i] = [user |-> f[i], wins |-> rows["users"][f[i]].wins]
    BY <1>5
  <2> QED
    BY <2>1, <2>2
<1>7. list \in [1 .. Cardinality(Listed) -> [user : Users, wins : Nat]]
  <2>1. list = [i \in 1 .. Cardinality(Listed) |->
                  [user |-> f[i], wins |-> rows["users"][f[i]].wins]]
    BY <1>1 DEF ListOf
  <2> QED
    BY <1>6, <2>1
<1>8. list \in Seq([user : Users, wins : Nat]) /\ Len(list) = Cardinality(Listed)
  BY <1>2, <1>7, FunctionIsSeq
<1>9. Named(list) = Listed
  BY <1>1, <1>5 DEF Named
<1>10. ASSUME NEW i \in DOMAIN list, NEW j \in DOMAIN list, i < j
       PROVE  Precedes(list[i], list[j]) /\ list[i].user # list[j].user
  <2>1. Precedes(list[i], list[j])
    BY <1>1, <1>5, <1>10
  <2>2. list[i] \in [user : Users, wins : Nat] /\ list[j] \in [user : Users, wins : Nat]
    BY <1>5, <1>6, <1>10
  <2>3. list[i].user = list[j].user => list[i].wins = list[j].wins
    BY <1>5, <1>10
  <2>4. /\ list[i].wins \in Nat /\ list[i].user \in Nat
        /\ list[j].wins \in Nat /\ list[j].user \in Nat
    BY <2>2
  <2> QED
    BY <2>1, <2>3, <2>4 DEF Precedes
<1> QED
  BY <1>8, <1>9, <1>10 DEF IsList

(* What the transaction of a rebuild does to the table: nothing, or the    *)
(* rows that its DELETE saw make room for one row for each of its list.    *)
Replaces(m, kept, table) ==
  \A u \in Users :
    IF u \in Named(m.list)
    THEN \E i \in DOMAIN m.list : m.list[i].user = u /\ table[u] = RankRow(m, i)
    ELSE table[u] = IF u \in kept THEN rows["rankings"][u] ELSE NoRow

(* A rebuild that is rolled back by the key changes nothing.               *)
LEMMA InsertEffect ==
  ASSUME TypeInv, NEW b \in Builders, InsertRanking(b)
  PROVE  LET m == mem[b]
             kept == Present \ m.seen
         IN \/ Done(b) /\ UNCHANGED <<rows, late>>
            \/ /\ Named(m.list) \cap kept = {}
               /\ rows' \in [TableNames -> Found]
               /\ rows'["users"] = rows["users"]
               /\ \A u \in Users : rows'["rankings"][u] \in RankRows \cup {NoRow}
               /\ Replaces(m, kept, rows'["rankings"])
               /\ Committed("rankings", Named(m.list), m.stamp)
               /\ pc' = [pc EXCEPT ![b] = "idle"]
               /\ mem' = [c \in Procs |-> IF c = b THEN NoLocals
                                          ELSE [mem[c] EXCEPT !.seen = @ \ m.seen]]
<1> DEFINE m == mem[b]
           kept == Present \ m.seen
           at(u) == CHOOSE i \in DOMAIN m.list : m.list[i].user = u
           table == [u \in Users |-> IF u \in Named(m.list) THEN RankRow(m, at(u))
                                     ELSE IF u \in kept THEN rows["rankings"][u] ELSE NoRow]
<1>1. CASE Done(b) /\ UNCHANGED <<rows, late>>
  BY <1>1
<1>2. CASE ~(Done(b) /\ UNCHANGED <<rows, late>>)
  <2>1. /\ Named(m.list) \cap kept = {}
        /\ rows' = [rows EXCEPT !["rankings"] = table]
        /\ Committed("rankings", Named(m.list), m.stamp)
        /\ pc' = [pc EXCEPT ![b] = "idle"]
        /\ mem' = [c \in Procs |-> IF c = b THEN NoLocals
                                   ELSE [mem[c] EXCEPT !.seen = @ \ m.seen]]
    BY <1>2 DEF InsertRanking, Named
  <2>2. /\ rows \in [TableNames -> Found] /\ "rankings" \in TableNames
        /\ m \in Locals /\ IsList(m.list)
        /\ \A u \in Users : rows["rankings"][u] \in RankRows \cup {NoRow}
    <3>1. pc[b] = "insert"
      BY DEF InsertRanking
    <3>2. mem[b] \in Locals /\ WellFormed(b, pc[b], mem[b]) /\ rows \in [TableNames -> Found]
      BY Parts
    <3>3. \A u \in Users : rows["rankings"][u] \in RankRows \cup {NoRow}
      BY DEF TypeInv, TypeOK, RowsOf, TableNames
    <3> QED
      BY <3>1, <3>2, <3>3 DEF WellFormed, TableNames
  <2>3. \A u \in Named(m.list) : at(u) \in DOMAIN m.list /\ m.list[at(u)].user = u
    BY DEF Named
  <2>4. ASSUME NEW i \in DOMAIN m.list PROVE RankRow(m, i) \in RankRows
    <3>1. m.list \in Seq([user : Users, wins : Nat]) /\ m.stamp \in Times
      BY <2>2 DEF Locals
    <3>2. Named(m.list) \subseteq Users /\ m.list[i].wins \in Nat
      BY <3>1, ListElements
    <3>3. Cardinality(Named(m.list)) <= Cardinality(Users) /\ Cardinality(Users) \in Nat
      BY <3>2, FS_Subset, FS_CardinalityType
    <3>4. i \in 1 .. Len(m.list) /\ Len(m.list) = Cardinality(Named(m.list))
      BY <2>2, <3>1, LenProperties DEF IsList
    <3>5. i \in 1 .. Cardinality(Users)
      BY <3>2, <3>3, <3>4, FS_Subset, FS_CardinalityType
    <3> QED
      BY <3>1, <3>2, <3>5 DEF RankRow, RankRows
  <2>5. \A u \in Users : table[u] \in RankRows \cup {NoRow}
    BY <2>2, <2>3, <2>4
  <2>6. Replaces(m, kept, table)
    BY <2>3 DEF Replaces
  <2>7. table \in Found
    <3>1. table \in [Users -> RankRows \cup {NoRow}]
      BY <2>5
    <3> QED
      BY <3>1 DEF Found
  <2> HIDE DEF table
  <2>8. rows'["users"] = rows["users"] /\ rows'["rankings"] = table
        /\ rows' \in [TableNames -> Found]
    BY <2>1, <2>2, <2>7 DEF TableNames
  <2> QED
    BY <2>1, <2>5, <2>6, <2>8
<1> QED
  BY <1>1, <1>2

(* What a save does to the two tables.                                     *)
LEMMA SaveEffect ==
  ASSUME TypeInv, NEW w \in Writers, SaveUser(w)
  PROVE  LET m == mem[w]
             u == m.user
         IN /\ WellFormed(w, "save", m) /\ pc[w] = "save"
            /\ \E now \in Times :
                 /\ now > 0
                 /\ Committed("users", {u}, now)
                 /\ Saved(m, now) \in UserRows
                 /\ rows'["users"][u] = Saved(m, now)
            /\ rows' \in [TableNames -> Found]
            /\ rows'["rankings"] = rows["rankings"]
            /\ \A v \in Users \ {u} : rows'["users"][v] = rows["users"][v]
            /\ Done(w)
<1> DEFINE m == mem[w]
           u == m.user
<1>1. PICK now \in m.stamp .. clock :
        rows' = [rows EXCEPT !["users"][u] = Saved(m, now)] /\ Committed("users", {u}, now)
  BY DEF SaveUser
<1>2. /\ pc[w] = "save" /\ WellFormed(w, "save", m) /\ m \in Locals
      /\ clock \in Times /\ rows \in [TableNames -> Found]
  BY Parts DEF SaveUser
<1>3. m.kind \in Kinds /\ u \in Users /\ m.row \in UserRows /\ m.stamp > 0 /\ m.stamp \in Times
  BY <1>2 DEF WellFormed, Locals
<1>4. now \in Times /\ now > 0
  BY <1>2, <1>3 DEF Times
<1>5. Saved(m, now) \in UserRows
  BY <1>3, <1>4 DEF Saved, UserRows
<1> HIDE DEF m, u
<1>6. /\ rows' \in [TableNames -> Found]
      /\ rows'["users"][u] = Saved(m, now)
      /\ rows'["rankings"] = rows["rankings"]
      /\ \A v \in Users \ {u} : rows'["users"][v] = rows["users"][v]
  BY <1>1, <1>2, <1>3, <1>5 DEF TableNames, Found
<1> QED
  BY <1>1, <1>2, <1>4, <1>5, <1>6 DEF SaveUser, m, u

(* What the upsert of one table does to the backup.                        *)
LEMMA CopyEffect ==
  ASSUME TypeInv, NEW s \in Syncs, CopyRows(s)
  PROVE  LET m == mem[s]
             table == Tables[m.table]
         IN /\ pc[s] = "copy" /\ m.table \in {1, 2} /\ table \in TableNames
            /\ backup' \in [TableNames -> Found]
            /\ \A u \in Users : backup'[table][u] =
                 IF m.found[u] = NoRow THEN backup[table][u] ELSE m.found[u]
            /\ \A t \in TableNames \ {table} : backup'[t] = backup[t]
            /\ \A t \in TableNames, u \in Users : backup'[t][u] \in RowsOf(t) \cup {NoRow}
            /\ \/ m.table = 2 /\ Goto(s, "ok", [m EXCEPT !.found = NoRows])
               \/ m.table = 1 /\ Goto(s, "read", [m EXCEPT !.found = NoRows, !.table = 2])
<1> DEFINE m == mem[s]
           table == Tables[m.table]
           new == [u \in Users |-> IF m.found[u] = NoRow THEN backup[table][u] ELSE m.found[u]]
<1>1. /\ pc[s] = "copy" /\ WellFormed(s, "copy", m) /\ m \in Locals
      /\ backup \in [TableNames -> Found]
      /\ \A t \in TableNames, u \in Users : backup[t][u] \in RowsOf(t) \cup {NoRow}
  <2>1. pc[s] = "copy"
    BY DEF CopyRows
  <2>2. \A t \in TableNames, u \in Users : backup[t][u] \in RowsOf(t) \cup {NoRow}
    BY DEF TypeInv, TypeOK
  <2> QED
    BY <2>1, <2>2, Parts
<1>2. m.table \in {1, 2} /\ table \in TableNames
  BY <1>1, TablesAre DEF WellFormed, TableNames
<1>3. \A u \in Users : m.found[u] \in RowsOf(table) \cup {NoRow}
  BY <1>1 DEF WellFormed
<1>4. m.found \in Found /\ backup[table] \in Found
  BY <1>1, <1>2 DEF Locals
<1>5. new \in Found
  BY <1>4 DEF Found
<1>6. backup' = [backup EXCEPT ![table] = new]
  BY <1>1, <1>2 DEF CopyRows
<1>7. /\ \/ m.table = 2 /\ Goto(s, "ok", [m EXCEPT !.found = NoRows])
         \/ m.table = 1 /\ Goto(s, "read", [m EXCEPT !.found = NoRows, !.table = 2])
  <2>1. CASE m.table = 2
    BY <1>1, <2>1, TablesAre DEF CopyRows
  <2>2. CASE m.table = 1
    BY <1>1, <2>2, TablesAre DEF CopyRows
  <2> QED
    BY <1>2, <2>1, <2>2
<1>8. \A u \in Users : new[u] \in RowsOf(table) \cup {NoRow}
  BY <1>1, <1>2, <1>3
<1>9. \A u \in Users : new[u] = IF m.found[u] = NoRow THEN backup[table][u] ELSE m.found[u]
  OBVIOUS
<1> HIDE DEF new, table, m
<1>10. backup' \in [TableNames -> Found] /\ backup'[table] = new
       /\ \A t \in TableNames \ {table} : backup'[t] = backup[t]
  BY <1>1, <1>2, <1>5, <1>6
<1>11. \A t \in TableNames, u \in Users : backup'[t][u] \in RowsOf(t) \cup {NoRow}
  BY <1>1, <1>8, <1>10
<1> QED
  BY <1>1, <1>2, <1>7, <1>9, <1>10, <1>11 DEF table, m

(* The first rows have their types.                                        *)
LEMMA TypeInit == ASSUME Init PROVE TypeInv
<1>1. NoRows \in Found /\ NoRow \notin UserRows /\ 1 \in Times /\ 0 \in Times
  BY DEF NoRows, Found, Times, UserRows, NoRow
<1>2. NewUser \in UserRows
  BY DEF NewUser, UserRows, Times
<1>3. /\ rows["users"] = [u \in Users |-> NewUser] /\ rows["rankings"] = NoRows
      /\ backup["users"] = NoRows /\ backup["rankings"] = NoRows
      /\ rows \in [TableNames -> Found] /\ backup \in [TableNames -> Found]
  <2>1. [u \in Users |-> NewUser] \in Found
    BY <1>2 DEF Found
  <2> QED
    BY <1>1, <2>1 DEF Init, TableNames
<1>4. /\ \A t \in TableNames, u \in Users :
           rows[t][u] \in RowsOf(t) /\ backup[t][u] \in RowsOf(t) \cup {NoRow}
      /\ \A t \in TableNames, u \in Users : rows[t][u] # NoRow => rows[t][u].stamp > 0
  <2>1. NewUser.stamp = 1
    BY DEF NewUser
  <2>2. \A u \in Users : /\ rows["users"][u] = NewUser /\ rows["rankings"][u] = NoRow
                         /\ backup["users"][u] = NoRow /\ backup["rankings"][u] = NoRow
    BY <1>3 DEF NoRows
  <2>3. ASSUME NEW t \in TableNames, NEW u \in Users
        PROVE  /\ rows[t][u] \in RowsOf(t) /\ backup[t][u] \in RowsOf(t) \cup {NoRow}
               /\ (rows[t][u] # NoRow => rows[t][u].stamp > 0)
    <3>1. CASE t = "users"
      <4>1. RowsOf(t) = UserRows
        BY <3>1 DEF RowsOf
      <4> QED
        BY <1>2, <2>1, <2>2, <3>1, <4>1
    <3>2. CASE t = "rankings"
      <4>1. RowsOf(t) = RankRows \cup {NoRow}
        BY <3>2 DEF RowsOf
      <4> QED
        BY <2>2, <3>2, <4>1
    <3> QED
      BY <3>1, <3>2 DEF TableNames
  <2> QED
    BY <2>3
<1>5. pc \in [Procs -> Places] /\ mem \in [Procs -> Locals]
      /\ \A p \in Procs : WellFormed(p, pc[p], mem[p])
  BY NoLocalsType DEF Init, Places
<1>6. /\ clock \in Times /\ clock > 0 /\ starts \in 0 .. MaxStarts
      /\ status \in [state : {"none", "ok", "error"}, last : Times]
      /\ won \in [Users -> Nat] /\ dirty \subseteq Users /\ gone \subseteq Users
      /\ late \subseteq TableNames \X Users
  BY <1>1 DEF Init, NoStatus
<1> QED
  BY <1>3, <1>4, <1>5, <1>6 DEF TypeInv, TypeOK, Shape, Locals

(* Every action keeps the types and gives the process that moves what its  *)
(* next step needs.                                                        *)
LEMMA TypeNext == ASSUME TypeInv, [Next]_vars PROVE TypeInv'
<1>0. /\ clock \in Times /\ clock > 0 /\ starts \in 0 .. MaxStarts
      /\ rows \in [TableNames -> Found] /\ backup \in [TableNames -> Found]
      /\ status \in [state : {"none", "ok", "error"}, last : Times]
      /\ pc \in [Procs -> Places] /\ mem \in [Procs -> Locals]
      /\ \A u \in Users : rows["users"][u] \in UserRows
      /\ \A p \in Procs : WellFormed(p, pc[p], mem[p])
      /\ Writers \subseteq Procs /\ Builders \subseteq Procs /\ Syncs \subseteq Procs
      /\ NoLocals \in Locals
  BY Parts, NoLocalsType
<1>a. /\ won \in [Users -> Nat] /\ dirty \subseteq Users /\ gone \subseteq Users
      /\ late \subseteq TableNames \X Users
      /\ \A t \in TableNames, u \in Users :
           rows[t][u] \in RowsOf(t) /\ backup[t][u] \in RowsOf(t) \cup {NoRow}
      /\ \A t \in TableNames, u \in Users : rows[t][u] # NoRow => rows[t][u].stamp > 0
  BY DEF TypeInv, TypeOK, Shape
<1>b. GetBackupStatus.last \in Times
  BY <1>0 DEF GetBackupStatus, Times
<1>1. ASSUME NEW w \in Writers, NEW u \in Users, NEW kind \in Kinds, ReadUser(w, u, kind)
      PROVE  TypeInv'
  <2> DEFINE m == [NoLocals EXCEPT !.kind = kind, !.user = u,
                     !.row = rows["users"][u], !.stamp = clock]
  <2>1. m \in Locals
    BY <1>0 DEF Locals, NoLocals
  <2>2. WellFormed(w, "save", m)
    BY <1>0 DEF WellFormed, NoLocals
  <2>3. Goto(w, "save", m) /\ "save" \in Places
    BY <1>1 DEF ReadUser, Places
  <2> HIDE DEF m
  <2> QED
    BY <1>0, <1>1, <2>1, <2>2, <2>3, Moves, OnlyMoves, StartsType DEF ReadUser
<1>2. ASSUME NEW w \in Writers, SaveUser(w) PROVE TypeInv'
  <2> DEFINE m == mem[w]
             u == m.user
  <2>1. PICK now \in Times :
          /\ now > 0 /\ Committed("users", {u}, now) /\ Saved(m, now) \in UserRows
          /\ rows'["users"][u] = Saved(m, now)
    BY <1>2, SaveEffect
  <2>2. /\ rows' \in [TableNames -> Found] /\ rows'["rankings"] = rows["rankings"]
        /\ \A v \in Users \ {u} : rows'["users"][v] = rows["users"][v]
        /\ Done(w) /\ u \in Users
    BY <1>2, SaveEffect DEF WellFormed
  <2>3. Saved(m, now).stamp = now
    BY DEF Saved
  <2>a. /\ won' = won \/ won' = [won EXCEPT ![u] = @ + 1]
        /\ dirty' \subseteq dirty \cup {u} /\ gone' \subseteq gone \cup {u}
    BY <1>2 DEF SaveUser
  <2> HIDE DEF m, u
  <2>4. \A t \in TableNames, v \in Users :
          rows'[t][v] \in RowsOf(t) /\ (rows'[t][v] # NoRow => rows'[t][v].stamp > 0)
    BY <1>a, <2>1, <2>2, <2>3 DEF TableNames, RowsOf
  <2>5. late' \subseteq TableNames \X Users
    BY <2>1, <2>2, CommittedType DEF TableNames
  <2>6. won' \in [Users -> Nat] /\ dirty' \subseteq Users /\ gone' \subseteq Users
    BY <1>a, <2>2, <2>a
  <2>7. /\ pc' \in [Procs -> Places] /\ mem' \in [Procs -> Locals]
        /\ \A q \in Procs : WellFormed(q, pc'[q], mem'[q])
    BY <1>0, <2>2, Ends
  <2>8. UNCHANGED <<clock, starts, backup, status>>
    BY <1>2 DEF SaveUser
  <2> QED
    BY <1>0, <1>a, <2>2, <2>4, <2>5, <2>6, <2>7, <2>8 DEF TypeInv, TypeOK, Shape, Locals, Times
<1>3. ASSUME NEW w \in Writers, SaveFails(w) PROVE TypeInv'
  BY <1>0, <1>3, Ends, OnlyMoves DEF SaveFails
<1>4. ASSUME NEW b \in Builders, StartRebuild(b) PROVE TypeInv'
  <2>1. PICK list \in ListUsers :
          Goto(b, "delete", [NoLocals EXCEPT !.list = list, !.stamp = clock])
    BY <1>4 DEF StartRebuild
  <2> DEFINE m == [NoLocals EXCEPT !.list = list, !.stamp = clock]
  <2>2. list \in Seq([user : Users, wins : Nat]) /\ IsList(list)
    BY ListUsersIsList
  <2>3. m \in Locals
    BY <1>0, <2>2 DEF Locals, NoLocals
  <2>4. WellFormed(b, "delete", m)
    BY <1>0, <2>2 DEF WellFormed, NoLocals
  <2>5. Goto(b, "delete", m) /\ "delete" \in Places
    BY <2>1 DEF Places
  <2> HIDE DEF m
  <2> QED
    BY <1>0, <1>4, <2>3, <2>4, <2>5, Moves, OnlyMoves, StartsType DEF StartRebuild
<1>5. ASSUME NEW b \in Builders, DeleteRanking(b) PROVE TypeInv'
  <2> DEFINE m == [mem[b] EXCEPT !.seen = Present]
  <2>1. pc[b] = "delete" /\ WellFormed(b, "delete", mem[b]) /\ mem[b] \in Locals
    BY <1>0, <1>5 DEF DeleteRanking
  <2>2. m \in Locals
    BY <2>1 DEF Locals, Present
  <2>3. WellFormed(b, "wait", m)
    BY <2>1 DEF WellFormed, Locals
  <2>4. Goto(b, "wait", m) /\ "wait" \in Places
    BY <1>5 DEF DeleteRanking, Places
  <2> HIDE DEF m
  <2> QED
    BY <1>0, <1>5, <2>2, <2>3, <2>4, Moves, OnlyMoves DEF DeleteRanking
<1>6. ASSUME NEW b \in Builders, DeleteWaits(b) PROVE TypeInv'
  <2>1. pc[b] = "wait" /\ WellFormed(b, "wait", mem[b]) /\ mem[b] \in Locals
    BY <1>0, <1>6 DEF DeleteWaits
  <2>2. WellFormed(b, "insert", mem[b])
    BY <2>1 DEF WellFormed
  <2>3. Goto(b, "insert", mem[b]) /\ "insert" \in Places
    BY <1>6 DEF DeleteWaits, Places
  <2> QED
    BY <1>0, <1>6, <2>1, <2>2, <2>3, Moves, OnlyMoves DEF DeleteWaits
<1>7. ASSUME NEW b \in Builders, InsertRanking(b) PROVE TypeInv'
  <2>0. UNCHANGED <<clock, starts, backup, status, won, dirty, gone>>
    BY <1>7 DEF InsertRanking
  <2>1. CASE Done(b) /\ UNCHANGED <<rows, late>>
    BY <1>0, <2>0, <2>1, Ends, OnlyMoves DEF history
  <2>2. CASE ~(Done(b) /\ UNCHANGED <<rows, late>>)
    <3> DEFINE m == mem[b]
    <3>1. /\ rows' \in [TableNames -> Found] /\ rows'["users"] = rows["users"]
          /\ \A u \in Users : rows'["rankings"][u] \in RankRows \cup {NoRow}
          /\ Replaces(m, Present \ m.seen, rows'["rankings"])
          /\ Committed("rankings", Named(m.list), m.stamp)
          /\ pc' = [pc EXCEPT ![b] = "idle"]
          /\ mem' = [c \in Procs |-> IF c = b THEN NoLocals
                                     ELSE [mem[c] EXCEPT !.seen = @ \ m.seen]]
      BY <1>7, <2>2, InsertEffect
    <3>2. m \in Locals /\ m.stamp > 0 /\ m.list \in Seq([user : Users, wins : Nat])
      BY <1>0, <1>7 DEF InsertRanking, WellFormed, Locals
    <3>3. Named(m.list) \subseteq Users
      BY <3>2, ListElements
    <3>4. late' \subseteq TableNames \X Users
      BY <3>1, <3>3, CommittedType DEF TableNames
    <3>5. ASSUME NEW u \in Users, rows'["rankings"][u] # NoRow
          PROVE  rows'["rankings"][u].stamp > 0
      <4>1. rows["rankings"][u] # NoRow => rows["rankings"][u].stamp > 0
        BY <1>a DEF TableNames
      <4>2. \A i : RankRow(m, i).stamp = m.stamp
        BY DEF RankRow
      <4> HIDE DEF m
      <4>3. CASE u \in Named(m.list)
        BY <3>1, <3>2, <4>2, <4>3 DEF Replaces
      <4>4. CASE u \notin Named(m.list)
        BY <3>1, <3>5, <4>1, <4>4 DEF Replaces
      <4> QED
        BY <4>3, <4>4
    <3>6. \A t \in TableNames, u \in Users :
            rows'[t][u] \in RowsOf(t) /\ (rows'[t][u] # NoRow => rows'[t][u].stamp > 0)
      BY <1>a, <3>1, <3>5 DEF TableNames, RowsOf
    <3> HIDE DEF m
    <3>7. ASSUME NEW c \in Procs
          PROVE  mem'[c] \in Locals /\ WellFormed(c, pc'[c], mem'[c])
      <4>1. CASE c = b
        BY <1>0, <3>1, <4>1, NoLocalsType
      <4>2. CASE c # b
        <5>1. mem[c] \in Locals /\ WellFormed(c, pc[c], mem[c])
              /\ mem'[c] = [mem[c] EXCEPT !.seen = @ \ m.seen] /\ pc'[c] = pc[c]
          BY <1>0, <3>1, <4>2
        <5>2. mem'[c] \in Locals
          BY <5>1 DEF Locals
        <5> QED
          BY <5>1, <5>2 DEF WellFormed, Locals
      <4> QED
        BY <4>1, <4>2
    <3>8. pc' \in [Procs -> Places] /\ mem' \in [Procs -> Locals]
      BY <1>0, <3>1, <3>7 DEF Places
    <3> QED
      BY <1>0, <1>a, <2>0, <3>1, <3>4, <3>6, <3>7, <3>8
         DEF TypeInv, TypeOK, Shape, Locals, Times
  <2> QED
    BY <2>1, <2>2
<1>8. ASSUME NEW s \in Syncs, StartSync(s) PROVE TypeInv'
  <2> DEFINE m == [NoLocals EXCEPT !.since = GetBackupStatus.last, !.attempt = 1, !.table = 1]
  <2>1. m \in Locals
    <3>1. 1 \in 0 .. MaxRetries /\ 1 \in 0 .. Len(Tables)
      BY TableRange
    <3> QED
      BY <1>0, <1>b, <3>1 DEF Locals, NoLocals
  <2>2. WellFormed(s, "read", m)
    BY DEF WellFormed, NoLocals
  <2>3. Goto(s, "read", m) /\ "read" \in Places
    BY <1>8 DEF StartSync, Places
  <2> HIDE DEF m
  <2> QED
    BY <1>0, <1>8, <2>1, <2>2, <2>3, Moves, OnlyMoves, StartsType DEF StartSync
<1>9. ASSUME NEW s \in Syncs, ReadRows(s) PROVE TypeInv'
  <2> DEFINE table == rows[Tables[mem[s].table]]
             f == [u \in Users |-> IF table[u].stamp > mem[s].since THEN table[u] ELSE NoRow]
             m == [mem[s] EXCEPT !.found = f]
  <2>1. pc[s] = "read" /\ WellFormed(s, "read", mem[s]) /\ mem[s] \in Locals
    BY <1>0, <1>9 DEF ReadRows
  <2>2. Tables[mem[s].table] \in TableNames
    BY <2>1, TablesAre DEF WellFormed, TableNames
  <2>3. \A u \in Users : f[u] \in RowsOf(Tables[mem[s].table]) \cup {NoRow}
    BY <1>a, <2>2
  <2>4. f \in Found
    BY <1>0, <2>2 DEF Found
  <2>5. Goto(s, "copy", m) /\ "copy" \in Places
    BY <1>9 DEF ReadRows, Places
  <2> HIDE DEF f
  <2>6. m \in Locals
    BY <2>1, <2>4 DEF Locals
  <2>7. WellFormed(s, "copy", m)
    BY <2>1, <2>3 DEF WellFormed, Locals
  <2> HIDE DEF m
  <2> QED
    BY <1>0, <1>9, <2>5, <2>6, <2>7, Moves, OnlyMoves DEF ReadRows
<1>10. ASSUME NEW s \in Syncs, CopyRows(s) PROVE TypeInv'
  <2> DEFINE m == mem[s]
             ok == [m EXCEPT !.found = NoRows]
             read == [m EXCEPT !.found = NoRows, !.table = 2]
  <2>1. /\ backup' \in [TableNames -> Found]
        /\ \A t \in TableNames, u \in Users : backup'[t][u] \in RowsOf(t) \cup {NoRow}
        /\ Goto(s, "ok", ok) \/ Goto(s, "read", read)
    BY <1>10, CopyEffect
  <2>2. m \in Locals /\ NoRows \in Found
    BY <1>0 DEF NoLocals, Locals
  <2>3. ok \in Locals /\ read \in Locals
    BY <2>2, TableRange DEF Locals
  <2>4. WellFormed(s, "ok", ok) /\ WellFormed(s, "read", read)
    BY <2>2 DEF WellFormed, Locals
  <2> HIDE DEF ok, read
  <2>5. /\ pc' \in [Procs -> Places] /\ mem' \in [Procs -> Locals]
        /\ \A q \in Procs : WellFormed(q, pc'[q], mem'[q])
    BY <1>0, <2>1, <2>3, <2>4, Moves DEF Places
  <2>6. UNCHANGED <<clock, starts, rows, status, history>>
    BY <1>10 DEF CopyRows
  <2> QED
    BY <1>0, <1>a, <2>1, <2>5, <2>6 DEF TypeInv, TypeOK, Shape, Locals, Times, history
<1>11. ASSUME NEW s \in Syncs, SyncFails(s) PROVE TypeInv'
  <2> DEFINE m == [mem[s] EXCEPT !.found = NoRows, !.table = 1]
             n == [m EXCEPT !.attempt = @ + 1]
  <2>1. mem[s] \in Locals /\ NoRows \in Found
    BY <1>0 DEF NoLocals, Locals
  <2>2. m \in Locals /\ WellFormed(s, "failed", m)
    <3>1. m \in Locals
      BY <2>1, TableRange DEF Locals
    <3> QED
      BY <3>1 DEF WellFormed
  <2>3. m.attempt < MaxRetries => n \in Locals /\ WellFormed(s, "read", n)
    <3>1. m.attempt \in 0 .. MaxRetries /\ m.table = 1
      BY <2>1 DEF Locals
    <3> HIDE DEF m
    <3>2. m.attempt < MaxRetries => n \in Locals
      <4>1. m.attempt < MaxRetries => m.attempt + 1 \in 0 .. MaxRetries
        BY <3>1
      <4> QED
        BY <2>2, <4>1 DEF Locals
    <3>3. n.table = 1
      BY <2>2, <3>1 DEF Locals
    <3> QED
      BY <3>2, <3>3 DEF WellFormed
  <2>4. \/ m.attempt < MaxRetries /\ Goto(s, "read", n)
        \/ Goto(s, "failed", m)
    BY <1>11 DEF SyncFails
  <2> HIDE DEF m, n
  <2>5. /\ pc' \in [Procs -> Places] /\ mem' \in [Procs -> Locals]
        /\ \A q \in Procs : WellFormed(q, pc'[q], mem'[q])
    BY <1>0, <2>2, <2>3, <2>4, Moves DEF Places
  <2> QED
    BY <1>0, <1>11, <2>5, OnlyMoves DEF SyncFails
<1>12. ASSUME NEW s \in Syncs, SetOk(s) PROVE TypeInv'
  <2>1. Truncate(clock) \in Times
    BY <1>0 DEF Truncate, Times
  <2>2. status' \in [state : {"none", "ok", "error"}, last : Times]
        /\ UNCHANGED <<clock, starts, rows, backup, history>>
    BY <1>12, <2>1 DEF SetOk
  <2>3. /\ pc' \in [Procs -> Places] /\ mem' \in [Procs -> Locals]
        /\ \A q \in Procs : WellFormed(q, pc'[q], mem'[q])
    BY <1>0, <1>12, Ends DEF SetOk
  <2> QED
    BY <1>0, <1>a, <2>2, <2>3 DEF TypeInv, TypeOK, Shape, Locals, Times, history
<1>13. ASSUME NEW s \in Syncs, ReadAgain(s) PROVE TypeInv'
  <2>1. PICK kept \in {GetBackupStatus.last, 0} : Goto(s, "error", [mem[s] EXCEPT !.since = kept])
    BY <1>13 DEF ReadAgain
  <2> DEFINE m == [mem[s] EXCEPT !.since = kept]
  <2>2. m \in Locals
    <3>1. kept \in Times /\ mem[s] \in Locals
      BY <1>0, <1>b DEF Times
    <3> QED
      BY <3>1 DEF Locals
  <2>3. WellFormed(s, "error", m)
    BY DEF WellFormed
  <2>4. Goto(s, "error", m) /\ "error" \in Places
    BY <2>1 DEF Places
  <2> HIDE DEF m
  <2> QED
    BY <1>0, <1>13, <2>2, <2>3, <2>4, Moves, OnlyMoves DEF ReadAgain
<1>14. ASSUME NEW s \in Syncs, SetError(s) PROVE TypeInv'
  <2>1. mem[s].since \in Times
    BY <1>0 DEF Locals
  <2>2. status' \in [state : {"none", "ok", "error"}, last : Times]
        /\ UNCHANGED <<clock, starts, rows, backup, history>>
    BY <1>14, <2>1 DEF SetError
  <2>3. /\ pc' \in [Procs -> Places] /\ mem' \in [Procs -> Locals]
        /\ \A q \in Procs : WellFormed(q, pc'[q], mem'[q])
    BY <1>0, <1>14, Ends DEF SetError
  <2> QED
    BY <1>0, <1>a, <2>2, <2>3 DEF TypeInv, TypeOK, Shape, Locals, Times, history
<1>15. CASE Tick
  <2>1. clock' \in Times /\ clock' > 0
    BY <1>0, <1>15 DEF Tick, Times
  <2> QED
    BY <1>0, <1>a, <1>15, <2>1 DEF Tick, TypeInv, TypeOK, Shape, Locals, Times, history
<1>16. CASE UNCHANGED vars
  BY <1>0, <1>a, <1>16 DEF vars, TypeInv, TypeOK, Shape, Locals, Times
<1> QED
  BY <1>1, <1>2, <1>3, <1>4, <1>5, <1>6, <1>7, <1>8, <1>9, <1>10, <1>11, <1>12, <1>13, <1>14,
     <1>15, <1>16 DEF Next, BuilderStep, SyncStep

(* No variable ever leaves its type.                                       *)
THEOREM TypeCorrect == Spec => []TypeOK
<1>1. Init => TypeInv
  BY TypeInit
<1>2. TypeInv /\ [Next]_vars => TypeInv'
  BY TypeNext
<1>3. TypeInv => TypeOK
  BY DEF TypeInv
<1> QED
  BY <1>1, <1>2, <1>3, PTL DEF Spec

-----------------------------------------------------------------------------
(* Who leaves whose things alone *)

(* Whoever does not move keeps its place and its locals.                   *)
LEMMA OthersStay ==
  ASSUME TypeInv, NEW p \in Procs, NEW l, NEW m, Goto(p, l, m)
  PROVE  /\ pc'[p] = l /\ mem'[p] = m
         /\ \A q \in Procs : q # p => pc'[q] = pc[q] /\ mem'[q] = mem[q]
BY Parts DEF Goto

OtherStep ==
  \/ \E b \in Builders : BuilderStep(b)
  \/ \E s \in Syncs : SyncStep(s)
  \/ Tick
  \/ UNCHANGED vars

(* Rebuilds and syncs read the rows of users and never write them.         *)
LEMMA UsersAlone ==
  ASSUME TypeInv, OtherStep
  PROVE  /\ rows'["users"] = rows["users"] /\ UNCHANGED <<won, dirty, gone>>
         /\ \A w \in Writers :
              /\ pc'[w] = pc[w] /\ mem'[w].kind = mem[w].kind
              /\ mem'[w].user = mem[w].user /\ mem'[w].row = mem[w].row
<1>1. ASSUME NEW b \in Builders, InsertRanking(b),
             ~(Done(b) /\ UNCHANGED <<rows, late>>)
      PROVE  /\ rows'["users"] = rows["users"] /\ UNCHANGED <<won, dirty, gone>>
             /\ \A w \in Writers :
                  /\ pc'[w] = pc[w] /\ mem'[w].kind = mem[w].kind
                  /\ mem'[w].user = mem[w].user /\ mem'[w].row = mem[w].row
  <2>1. /\ rows'["users"] = rows["users"] /\ UNCHANGED <<won, dirty, gone>>
        /\ pc' = [pc EXCEPT ![b] = "idle"]
        /\ mem' = [c \in Procs |-> IF c = b THEN NoLocals
                                   ELSE [mem[c] EXCEPT !.seen = @ \ mem[b].seen]]
    BY <1>1, InsertEffect DEF InsertRanking
  <2>2. ASSUME NEW w \in Writers
        PROVE  /\ pc'[w] = pc[w] /\ mem'[w].kind = mem[w].kind
               /\ mem'[w].user = mem[w].user /\ mem'[w].row = mem[w].row
    <3>1. w \in Procs /\ w # b /\ mem[w] \in Locals /\ pc \in [Procs -> Places]
      BY Parts
    <3> QED
      BY <2>1, <3>1 DEF Locals
  <2> QED
    BY <2>1, <2>2
<1>2. ASSUME NEW p \in Builders \cup Syncs, NEW l, NEW m, Goto(p, l, m)
      PROVE  \A w \in Writers : pc'[w] = pc[w] /\ mem'[w] = mem[w]
  <2>1. p \in Procs /\ \A w \in Writers : w \in Procs /\ w # p
    BY DEF Procs
  <2> QED
    BY <1>2, <2>1, OthersStay
<1>3. ASSUME NEW b \in Builders, BuilderStep(b),
             ~InsertRanking(b) \/ (Done(b) /\ UNCHANGED <<rows, late>>)
      PROVE  /\ UNCHANGED <<rows, won, dirty, gone>>
             /\ \A w \in Writers : pc'[w] = pc[w] /\ mem'[w] = mem[w]
  BY <1>2, <1>3 DEF BuilderStep, StartRebuild, DeleteRanking, DeleteWaits, InsertRanking, Done,
     history
<1>4. ASSUME NEW s \in Syncs, SyncStep(s)
      PROVE  /\ UNCHANGED <<rows, won, dirty, gone>>
             /\ \A w \in Writers : pc'[w] = pc[w] /\ mem'[w] = mem[w]
  BY <1>2, <1>4 DEF SyncStep, StartSync, ReadRows, CopyRows, SyncFails, SetOk, ReadAgain,
     SetError, Done, history
<1>5. CASE Tick \/ UNCHANGED vars
  BY <1>5 DEF Tick, vars, history
<1> QED
  BY <1>1, <1>3, <1>4, <1>5 DEF OtherStep, BuilderStep

-----------------------------------------------------------------------------
(* Wins *)

(* The row a save is going to write back has the wins the table has,       *)
(* unless a win came in between.                                           *)
WinsInv ==
  /\ WinsCounted
  /\ \A w \in Writers : pc[w] = "save" /\ mem[w].user \notin dirty =>
       mem[w].row.wins = rows["users"][mem[w].user].wins

(* Every action keeps the counts right.                                    *)
LEMMA WinsNext == ASSUME TypeInv, WinsInv, [Next]_vars PROVE WinsInv'
<1>0. /\ \A u \in Users : rows["users"][u] \in UserRows
      /\ \A p \in Procs : WellFormed(p, pc[p], mem[p])
      /\ Writers \subseteq Procs
      /\ won \in [Users -> Nat] /\ dirty \subseteq Users
  BY Parts DEF TypeInv, TypeOK
<1>1. ASSUME NEW w \in Writers, NEW u \in Users, NEW kind \in Kinds, ReadUser(w, u, kind)
      PROVE  WinsInv'
  <2> DEFINE m == [NoLocals EXCEPT !.kind = kind, !.user = u,
                     !.row = rows["users"][u], !.stamp = clock]
  <2>1. m.user = u /\ m.row = rows["users"][u]
    BY DEF NoLocals
  <2>2. Goto(w, "save", m) /\ UNCHANGED <<rows, won, dirty>>
    BY <1>1 DEF ReadUser, history
  <2> HIDE DEF m
  <2>3. mem'[w] = m /\ \A v \in Writers \ {w} : pc'[v] = pc[v] /\ mem'[v] = mem[v]
    BY <1>0, <2>2, OthersStay
  <2> QED
    BY <2>1, <2>2, <2>3 DEF WinsInv, WinsCounted
<1>2. ASSUME NEW w \in Writers, SaveUser(w) PROVE WinsInv'
  <2> DEFINE m == mem[w]
             u == m.user
             table == rows["users"]
             after == rows'["users"]
  <2>1. /\ pc[w] = "save" /\ u \in Users /\ m.row \in UserRows
        /\ after[u].wins = IF m.kind = "win" THEN m.row.wins + 1 ELSE m.row.wins
        /\ \A v \in Users \ {u} : after[v] = table[v]
        /\ Done(w)
    <3>1. \A now : Saved(m, now).wins = IF m.kind = "win" THEN m.row.wins + 1 ELSE m.row.wins
      BY DEF Saved
    <3>2. /\ pc[w] = "save" /\ WellFormed(w, "save", m) /\ Done(w)
          /\ \A v \in Users \ {u} : after[v] = table[v]
          /\ \E now \in Times : after[u] = Saved(m, now)
      BY <1>2, SaveEffect
    <3> HIDE DEF m, after
    <3>3. u \in Users /\ m.row \in UserRows
      BY <3>2 DEF WellFormed
    <3> QED
      BY <3>1, <3>2, <3>3
  <2>2. /\ won' = IF m.kind = "win" THEN [won EXCEPT ![u] = @ + 1] ELSE won
        /\ dirty' = IF m.kind = "win" /\ \E v \in Writers \ {w} : mem[v].user = u
                    THEN dirty \cup {u} ELSE dirty
    BY <1>2 DEF SaveUser
  <2>3. /\ pc'[w] = "idle"
        /\ \A v \in Writers \ {w} : pc'[v] = pc[v] /\ mem'[v] = mem[v]
    BY <1>0, <2>1, OthersStay DEF Done
  <2>4. \A v \in Writers \ {w} : pc[v] = "save" => mem[v].user \in Users
    BY <1>0 DEF WellFormed
  <2>5. u \notin dirty => m.row.wins = table[u].wins /\ table[u].wins = won[u]
    BY <2>1 DEF WinsInv, WinsCounted
  <2>6. \A v \in Users : won'[v] = IF m.kind = "win" /\ v = u THEN won[u] + 1 ELSE won[v]
    BY <1>0, <2>1, <2>2
  <2> HIDE DEF m, u, table, after
  <2>7. \A v \in Users \ dirty' : after[v].wins = won'[v]
    <3>1. \A v \in Users \ dirty : table[v].wins = won[v]
      BY DEF WinsInv, WinsCounted, table
    <3>2. dirty \subseteq dirty'
      BY <2>2
    <3> QED
      BY <2>1, <2>5, <2>6, <3>1, <3>2
  <2>8. ASSUME NEW v \in Writers, pc'[v] = "save", mem'[v].user \notin dirty'
        PROVE  mem'[v].row.wins = after[mem'[v].user].wins
    <3>1. v # w /\ pc[v] = "save" /\ mem'[v] = mem[v] /\ mem[v].user \notin dirty
          /\ mem[v].user \in Users
      BY <2>2, <2>3, <2>4, <2>8
    <3>2. mem[v].row.wins = table[mem[v].user].wins
      BY <3>1 DEF WinsInv, table
    <3>3. CASE mem[v].user = u
      <4>1. m.kind # "win"
        BY <2>2, <2>8, <3>1, <3>3
      <4> QED
        BY <2>1, <2>5, <3>1, <3>2, <3>3, <4>1
    <3>4. CASE mem[v].user # u
      BY <2>1, <3>1, <3>2, <3>4
    <3> QED
      BY <3>3, <3>4
  <2> QED
    BY <2>7, <2>8 DEF WinsInv, WinsCounted, after
<1>3. ASSUME NEW w \in Writers, SaveFails(w) PROVE WinsInv'
  <2>1. Done(w) /\ UNCHANGED <<rows, won, dirty>>
    BY <1>3 DEF SaveFails, history
  <2>2. pc'[w] = "idle" /\ \A v \in Writers \ {w} : pc'[v] = pc[v] /\ mem'[v] = mem[v]
    BY <1>0, <2>1, OthersStay DEF Done
  <2> QED
    BY <2>1, <2>2 DEF WinsInv, WinsCounted
<1>4. CASE OtherStep
  BY <1>4, UsersAlone DEF WinsInv, WinsCounted
<1> QED
  BY <1>1, <1>2, <1>3, <1>4 DEF Next, OtherStep

(* A user's wins are the games that user won, unless a win was committed   *)
(* in the middle of another save of the same row, however many saves,      *)
(* failures and deletions overlap.                                         *)
THEOREM WinsAreCounted == Spec => []WinsCounted
<1>1. Init => TypeInv /\ WinsInv
  <2>1. Init => WinsInv
    <3>1. NewUser.wins = 0
      BY DEF NewUser
    <3>2. Init => \A u \in Users : rows["users"][u] = NewUser /\ won[u] = 0
      BY DEF Init, TableNames
    <3>3. Init => \A w \in Writers : pc[w] = "idle"
      BY DEF Init, Procs
    <3> QED
      BY <3>1, <3>2, <3>3 DEF WinsInv, WinsCounted
  <2> QED
    BY <2>1, TypeInit
<1>2. TypeInv /\ WinsInv /\ [Next]_vars => (TypeInv /\ WinsInv)'
  BY TypeNext, WinsNext
<1>3. WinsInv => WinsCounted
  BY DEF WinsInv
<1> QED
  BY <1>1, <1>2, <1>3, PTL DEF Spec

-----------------------------------------------------------------------------
(* The ranking *)

(* Transactions, syncs and time leave the table and its rebuilds alone.    *)
LEMMA RankingAlone ==
  ASSUME TypeInv,
         \/ \E w \in Writers, u \in Users, kind \in Kinds : ReadUser(w, u, kind)
         \/ \E w \in Writers : SaveUser(w) \/ SaveFails(w)
         \/ \E s \in Syncs : SyncStep(s)
         \/ Tick
         \/ UNCHANGED vars
  PROVE  /\ rows'["rankings"] = rows["rankings"]
         /\ \A b \in Builders : pc'[b] = pc[b] /\ mem'[b] = mem[b]
<1>1. ASSUME NEW p \in Writers \cup Syncs, NEW l, NEW m, Goto(p, l, m)
      PROVE  \A b \in Builders : pc'[b] = pc[b] /\ mem'[b] = mem[b]
  <2>1. p \in Procs /\ \A b \in Builders : b \in Procs /\ b # p
    BY DEF Procs
  <2> QED
    BY <1>1, <2>1, OthersStay
<1>2. ASSUME NEW w \in Writers, SaveUser(w)
      PROVE  /\ rows'["rankings"] = rows["rankings"]
             /\ \A b \in Builders : pc'[b] = pc[b] /\ mem'[b] = mem[b]
  <2>1. rows'["rankings"] = rows["rankings"] /\ Done(w)
    BY <1>2, SaveEffect
  <2> QED
    BY <1>1, <2>1 DEF Done
<1>3. ASSUME NEW w \in Writers, NEW u \in Users, NEW kind \in Kinds, ReadUser(w, u, kind)
      PROVE  UNCHANGED rows /\ \A b \in Builders : pc'[b] = pc[b] /\ mem'[b] = mem[b]
  BY <1>1, <1>3 DEF ReadUser
<1>4. ASSUME NEW w \in Writers, SaveFails(w)
      PROVE  UNCHANGED rows /\ \A b \in Builders : pc'[b] = pc[b] /\ mem'[b] = mem[b]
  BY <1>1, <1>4 DEF SaveFails, Done
<1>5. ASSUME NEW s \in Syncs, SyncStep(s)
      PROVE  UNCHANGED rows /\ \A b \in Builders : pc'[b] = pc[b] /\ mem'[b] = mem[b]
  BY <1>1, <1>5 DEF SyncStep, StartSync, ReadRows, CopyRows, SyncFails, SetOk, ReadAgain,
     SetError, Done
<1>6. CASE Tick \/ UNCHANGED vars
  BY <1>6 DEF Tick, vars
<1> QED
  BY <1>2, <1>3, <1>4, <1>5, <1>6

NeverGone == Users \ gone

(* Whoever was never deleted is not deleted, in the table or in a row that *)
(* a save is going to write back.                                          *)
DeletionInv ==
  /\ \A u \in NeverGone : ~rows["users"][u].deleted
  /\ \A w \in Writers : pc[w] = "save" /\ mem[w].user \in NeverGone => ~mem[w].row.deleted

(* Only a deletion marks a row, and it is on record.                       *)
LEMMA DeletionNext ==
  ASSUME TypeInv, DeletionInv, [Next]_vars
  PROVE  DeletionInv' /\ NeverGone' \subseteq NeverGone
<1>0. Writers \subseteq Procs /\ \A p \in Procs : WellFormed(p, pc[p], mem[p])
  BY Parts
<1>1. ASSUME NEW w \in Writers, NEW u \in Users, NEW kind \in Kinds, ReadUser(w, u, kind)
      PROVE  DeletionInv' /\ NeverGone' \subseteq NeverGone
  <2> DEFINE m == [NoLocals EXCEPT !.kind = kind, !.user = u,
                     !.row = rows["users"][u], !.stamp = clock]
  <2>1. m.user = u /\ m.row = rows["users"][u]
    BY DEF NoLocals
  <2>2. Goto(w, "save", m) /\ UNCHANGED <<rows, gone>>
    BY <1>1 DEF ReadUser, history
  <2> HIDE DEF m
  <2>3. mem'[w] = m /\ \A v \in Writers \ {w} : pc'[v] = pc[v] /\ mem'[v] = mem[v]
    BY <1>0, <2>2, OthersStay
  <2> QED
    BY <2>1, <2>2, <2>3 DEF DeletionInv, NeverGone
<1>2. ASSUME NEW w \in Writers, SaveUser(w) PROVE DeletionInv' /\ NeverGone' \subseteq NeverGone
  <2> DEFINE m == mem[w]
             u == m.user
             after == rows'["users"]
  <2>1. /\ pc[w] = "save" /\ Done(w)
        /\ \A v \in Users \ {u} : after[v] = rows["users"][v]
        /\ \E now \in Times : after[u] = Saved(m, now)
    BY <1>2, SaveEffect
  <2>2. gone' = IF m.kind = "delete" THEN gone \cup {u} ELSE gone
    BY <1>2 DEF SaveUser
  <2>3. pc'[w] = "idle" /\ \A v \in Writers \ {w} : pc'[v] = pc[v] /\ mem'[v] = mem[v]
    BY <1>0, <2>1, OthersStay DEF Done
  <2>4. \A now : Saved(m, now).deleted = (m.row.deleted \/ m.kind = "delete")
    BY DEF Saved
  <2>5. u \in NeverGone => ~m.row.deleted
    BY <2>1 DEF DeletionInv
  <2> HIDE DEF m, u, after
  <2>6. NeverGone' \subseteq NeverGone /\ (m.kind = "delete" => u \notin NeverGone')
    BY <2>2 DEF NeverGone
  <2>7. \A v \in NeverGone' : ~after[v].deleted
    <3>1. \A v \in NeverGone' : v \in Users /\ ~rows["users"][v].deleted
      BY <2>6 DEF DeletionInv, NeverGone
    <3>2. u \in NeverGone' => m.kind # "delete" /\ ~m.row.deleted
      BY <2>5, <2>6
    <3> QED
      BY <2>1, <2>4, <3>1, <3>2
  <2> QED
    BY <2>3, <2>6, <2>7 DEF DeletionInv, after
<1>3. ASSUME NEW w \in Writers, SaveFails(w) PROVE DeletionInv' /\ NeverGone' \subseteq NeverGone
  <2>1. Done(w) /\ UNCHANGED <<rows, gone>>
    BY <1>3 DEF SaveFails, history
  <2>2. pc'[w] = "idle" /\ \A v \in Writers \ {w} : pc'[v] = pc[v] /\ mem'[v] = mem[v]
    BY <1>0, <2>1, OthersStay DEF Done
  <2> QED
    BY <2>1, <2>2 DEF DeletionInv, NeverGone
<1>4. CASE OtherStep
  BY <1>4, UsersAlone DEF DeletionInv, NeverGone
<1> QED
  BY <1>1, <1>2, <1>3, <1>4 DEF Next, OtherStep

(* A row that is there is not the row that is not.                         *)
LEMMA NoRowIsNone == NoRow \notin RankRows /\ NoRow \notin UserRows
BY DEF NoRow, RankRows, UserRows

(* A rebuild that leaves no row of before leaves its list.                 *)
LEMMA ReplacedIsOneList ==
  ASSUME NEW m \in Locals, IsList(m.list), NEW table, Replaces(m, {}, table),
         \A u \in Users : table[u] \in RankRows \cup {NoRow}
  PROVE  /\ OneList(table)
         /\ {u \in Users : table[u] # NoRow} = Named(m.list)
<1> DEFINE list == m.list
           listed == {u \in Users : table[u] # NoRow}
           place(u) == [user |-> u, wins |-> table[u].wins]
<1>1. list \in Seq([user : Users, wins : Nat])
  BY DEF Locals
<1>2. /\ DOMAIN list = 1 .. Len(list) /\ Len(list) \in Nat
      /\ \A i \in DOMAIN list : list[i].user \in Users /\ list[i].wins \in Nat
      /\ Named(list) \subseteq Users
  BY <1>1, ListElements
<1>3. \A i : /\ RankRow(m, i).rank = i /\ RankRow(m, i).wins = list[i].wins
             /\ RankRow(m, i) # NoRow
  BY DEF RankRow, NoRow
<1>4. \A u \in Users \ Named(list) : table[u] = NoRow
  BY DEF Replaces
<1>5. \A u \in Named(list) : \E i \in DOMAIN list : list[i].user = u /\ table[u] = RankRow(m, i)
  BY <1>2 DEF Replaces
<1>6. /\ Len(list) = Cardinality(Named(list))
      /\ \A i, j \in DOMAIN list : i < j => /\ Precedes(list[i], list[j])
                                            /\ list[i].user # list[j].user
  BY DEF IsList
<1>a. \A i \in DOMAIN list : list[i].user \in Named(list)
  BY DEF Named
<1> HIDE DEF list
<1>7. listed = Named(list)
  <2>1. \A u \in Named(list) : table[u] # NoRow
    BY <1>3, <1>5
  <2>2. \A u \in Users : u \in listed <=> u \in Named(list)
    BY <1>4, <2>1
  <2> QED
    BY <1>2, <2>2
<1>8. ASSUME NEW i \in DOMAIN list
      PROVE  table[list[i].user].rank = i /\ table[list[i].user].wins = list[i].wins
  <2>1. PICK j \in DOMAIN list : list[j].user = list[i].user
                               /\ table[list[i].user] = RankRow(m, j)
    BY <1>5, <1>8, <1>a
  <2>2. i = j
    BY <1>2, <1>6, <2>1
  <2> QED
    BY <1>3, <2>1, <2>2
<1>9. {table[u].rank : u \in listed} = 1 .. Cardinality(listed)
  <2>1. \A u \in listed : table[u].rank \in DOMAIN list
    BY <1>3, <1>5, <1>7
  <2>2. \A i \in DOMAIN list : list[i].user \in listed /\ table[list[i].user].rank = i
    BY <1>7, <1>8, <1>a
  <2>3. DOMAIN list = 1 .. Cardinality(listed)
    BY <1>2, <1>6, <1>7
  <2> QED
    BY <2>1, <2>2, <2>3
<1>10. ASSUME NEW u \in listed, NEW v \in listed, table[u].rank < table[v].rank
       PROVE  Precedes(place(u), place(v))
  <2>1. PICK i \in DOMAIN list : list[i].user = u
    BY <1>5, <1>7
  <2>2. PICK j \in DOMAIN list : list[j].user = v
    BY <1>5, <1>7
  <2>3. table[u].rank = i /\ table[u].wins = list[i].wins
        /\ table[v].rank = j /\ table[v].wins = list[j].wins
    BY <1>8, <2>1, <2>2
  <2>4. Precedes(list[i], list[j])
    BY <1>6, <1>10, <2>3
  <2> QED
    BY <2>1, <2>2, <2>3, <2>4 DEF Precedes
<1> QED
  BY <1>7, <1>9, <1>10 DEF OneList, list

(* Whoever was never deleted is in every list that a rebuild has read and, *)
(* once there was a rebuild, in the table.  So a rebuild that does not see *)
(* the rows of another one runs into their key.                            *)
RankInv ==
  /\ RankingIsOneList
  /\ \A b \in Builders : pc[b] \in {"delete", "wait", "insert"} =>
       NeverGone \subseteq Named(mem[b].list)
  /\ NeverGone # {} =>
       /\ Present = {} \/ NeverGone \subseteq Present
       /\ \A b \in Builders : pc[b] \in {"wait", "insert"} => mem[b].seen \in {{}, Present}

(* Every action leaves one list in the table.                              *)
LEMMA RankNext ==
  ASSUME TypeInv, DeletionInv, RankInv, [Next]_vars
  PROVE  RankInv'
<1>0. /\ NeverGone' \subseteq NeverGone /\ Builders \subseteq Procs
      /\ pc \in [Procs -> Places] /\ mem \in [Procs -> Locals]
      /\ \A p \in Procs : WellFormed(p, pc[p], mem[p])
      /\ gone \subseteq Users /\ gone' \subseteq Users
  BY DeletionNext, TypeNext, Parts DEF TypeInv, TypeOK
<1>a. gone = Users <=> NeverGone = {}
  BY <1>0 DEF NeverGone
<1>1. CASE /\ rows'["rankings"] = rows["rankings"]
           /\ \A b \in Builders : pc'[b] = pc[b] /\ mem'[b] = mem[b]
  <2>1. Present' = Present /\ (gone = Users => gone' = Users)
    BY <1>0, <1>1 DEF Present, NeverGone
  <2>2. RankingIsOneList'
    BY <1>1, <2>1 DEF RankInv, RankingIsOneList
  <2>3. NeverGone' # {} =>
          /\ Present' = {} \/ NeverGone' \subseteq Present'
          /\ \A b \in Builders : pc'[b] \in {"wait", "insert"} => mem'[b].seen \in {{}, Present'}
    BY <1>0, <1>1, <2>1 DEF RankInv
  <2>4. \A b \in Builders : pc'[b] \in {"delete", "wait", "insert"} =>
          NeverGone' \subseteq Named(mem'[b].list)
    BY <1>0, <1>1 DEF RankInv
  <2> QED
    BY <2>2, <2>3, <2>4 DEF RankInv
<1>2. ASSUME NEW b \in Builders, NEW l, NEW m, Goto(b, l, m), UNCHANGED <<rows, gone>>,
             l \in {"delete", "wait", "insert"} => NeverGone \subseteq Named(m.list),
             l \in {"wait", "insert"} /\ NeverGone # {} => m.seen \in {{}, Present}
      PROVE  RankInv'
  <2>1. /\ pc'[b] = l /\ mem'[b] = m
        /\ \A c \in Builders \ {b} : pc'[c] = pc[c] /\ mem'[c] = mem[c]
    BY <1>0, <1>2, OthersStay
  <2>2. Present' = Present /\ NeverGone' = NeverGone
    BY <1>2 DEF Present, NeverGone
  <2>3. RankingIsOneList'
    BY <1>2 DEF RankInv, RankingIsOneList
  <2>4. ASSUME NEW c \in Builders
        PROVE  /\ pc'[c] \in {"delete", "wait", "insert"} => NeverGone \subseteq Named(mem'[c].list)
               /\ pc'[c] \in {"wait", "insert"} /\ NeverGone # {} => mem'[c].seen \in {{}, Present}
    BY <1>2, <2>1, <2>4 DEF RankInv
  <2> QED
    BY <2>2, <2>3, <2>4 DEF RankInv
<1>3. ASSUME NEW b \in Builders, StartRebuild(b) PROVE RankInv'
  <2>1. PICK list \in ListUsers :
          Goto(b, "delete", [NoLocals EXCEPT !.list = list, !.stamp = clock])
    BY <1>3 DEF StartRebuild
  <2>2. NeverGone \subseteq Named(list)
    BY ListUsersIsList DEF DeletionInv, Listed, NeverGone
  <2>3. [NoLocals EXCEPT !.list = list, !.stamp = clock].list = list
    BY DEF NoLocals
  <2>4. UNCHANGED <<rows, gone>>
    BY <1>3 DEF StartRebuild, history
  <2> QED
    BY <1>2, <2>1, <2>2, <2>3, <2>4
<1>4. ASSUME NEW b \in Builders, DeleteRanking(b) PROVE RankInv'
  <2> DEFINE m == [mem[b] EXCEPT !.seen = Present]
  <2>1. m.list = mem[b].list /\ m.seen = Present
    BY <1>0 DEF Locals
  <2>2. pc[b] = "delete" /\ Goto(b, "wait", m) /\ UNCHANGED <<rows, gone>>
    BY <1>4 DEF DeleteRanking, history
  <2> HIDE DEF m
  <2>3. NeverGone \subseteq Named(m.list)
    BY <2>1, <2>2 DEF RankInv
  <2> QED
    BY <1>2, <2>1, <2>2, <2>3
<1>5. ASSUME NEW b \in Builders, DeleteWaits(b) PROVE RankInv'
  <2>1. pc[b] = "wait" /\ Goto(b, "insert", mem[b]) /\ UNCHANGED <<rows, gone>>
    BY <1>5 DEF DeleteWaits, history
  <2>2. /\ NeverGone \subseteq Named(mem[b].list)
        /\ NeverGone # {} => mem[b].seen \in {{}, Present}
    BY <2>1 DEF RankInv
  <2> QED
    BY <1>2, <2>1, <2>2
<1>6. ASSUME NEW b \in Builders, InsertRanking(b) PROVE RankInv'
  <2> DEFINE m == mem[b]
             kept == Present \ m.seen
             table == rows'["rankings"]
  <2>1. CASE Done(b) /\ UNCHANGED <<rows, late>>
    <3>1. Goto(b, "idle", NoLocals) /\ UNCHANGED <<rows, gone>>
      BY <1>6, <2>1 DEF Done, InsertRanking
    <3> QED
      BY <1>2, <3>1
  <2>2. CASE ~(Done(b) /\ UNCHANGED <<rows, late>>)
    <3>1. /\ Named(m.list) \cap kept = {}
          /\ \A u \in Users : table[u] \in RankRows \cup {NoRow}
          /\ Replaces(m, kept, table)
          /\ pc' = [pc EXCEPT ![b] = "idle"]
          /\ mem' = [c \in Procs |-> IF c = b THEN NoLocals
                                     ELSE [mem[c] EXCEPT !.seen = @ \ m.seen]]
      BY <1>6, <2>2, InsertEffect
    <3>2. pc[b] = "insert" /\ UNCHANGED gone
      BY <1>6 DEF InsertRanking
    <3>3. m \in Locals /\ IsList(m.list) /\ NeverGone \subseteq Named(m.list)
          /\ (NeverGone # {} => m.seen \in {{}, Present})
      BY <1>0, <3>2 DEF WellFormed, RankInv
    <3>4. NeverGone' = NeverGone
      BY <3>2 DEF NeverGone
    <3>5. pc'[b] = "idle"
          /\ \A c \in Builders \ {b} :
               /\ pc'[c] = pc[c] /\ mem'[c].list = mem[c].list
               /\ mem'[c].seen = mem[c].seen \ m.seen
      BY <1>0, <3>1 DEF Locals
    <3> HIDE DEF m, table
    <3>6. \A c \in Builders : pc'[c] \in {"delete", "wait", "insert"} =>
            NeverGone' \subseteq Named(mem'[c].list)
      BY <3>4, <3>5 DEF RankInv
    <3>7. CASE NeverGone = {}
      BY <1>0, <3>4, <3>6, <3>7 DEF RankInv, RankingIsOneList, NeverGone
    <3>8. CASE NeverGone # {}
      <4>1. kept = {} /\ (m.seen = Present \/ Present = {})
        BY <3>1, <3>3, <3>8 DEF RankInv
      <4>2. OneList(table) /\ Present' = Named(m.list)
        <5>1. Replaces(m, {}, table)
          BY <3>1, <4>1
        <5>2. /\ OneList(table)
              /\ {u \in Users : table[u] # NoRow} = Named(m.list)
          BY <3>1, <3>3, <5>1, ReplacedIsOneList
        <5> QED
          BY <5>2 DEF Present, table
      <4>3. \A c \in Builders : pc'[c] \in {"wait", "insert"} => mem'[c].seen = {}
        <5>1. \A c \in Builders : pc[c] \in {"wait", "insert"} => mem[c].seen \in {{}, Present}
          BY <3>8 DEF RankInv
        <5> QED
          BY <3>5, <4>1, <5>1
      <4> QED
        BY <3>3, <3>4, <3>6, <4>2, <4>3 DEF RankInv, RankingIsOneList, table
    <3> QED
      BY <3>7, <3>8
  <2> QED
    BY <2>1, <2>2
<1> QED
  BY <1>1, <1>3, <1>4, <1>5, <1>6, RankingAlone DEF Next, BuilderStep

(* However administrators' rebuilds and the cron job's overlap, and        *)
(* whatever is won, saved or deleted meanwhile, the table is the list of   *)
(* one of them.                                                            *)
THEOREM RankingIsAlwaysOneList == Spec => []RankingIsOneList
<1>1. Init => TypeInv /\ DeletionInv /\ RankInv
  <2>1. ASSUME Init PROVE DeletionInv /\ RankInv
    <3>1. /\ \A u \in Users : rows["users"][u].deleted = FALSE /\ rows["rankings"][u] = NoRow
          /\ \A p \in Procs : pc[p] = "idle"
      BY <2>1 DEF Init, TableNames, NewUser, NoRows
    <3>2. Present = {} /\ Writers \subseteq Procs /\ Builders \subseteq Procs
      BY <3>1 DEF Present, Procs
    <3>3. OneList(rows["rankings"])
      <4> DEFINE table == rows["rankings"]
                 listed == {u \in Users : table[u] # NoRow}
      <4>1. listed = {} /\ Cardinality({}) = 0
        BY <3>1, FS_EmptySet
      <4>2. {table[u].rank : u \in listed} = {} /\ 1 .. 0 = {}
        BY <4>1
      <4> QED
        BY <4>1, <4>2 DEF OneList
    <3>4. DeletionInv
      BY <3>1, <3>2 DEF DeletionInv, NeverGone
    <3>5. \A b \in Builders : pc[b] = "idle"
      BY <3>1, <3>2
    <3> QED
      BY <3>2, <3>3, <3>4, <3>5 DEF RankInv, RankingIsOneList
  <2> QED
    BY <2>1, TypeInit
<1>2. TypeInv /\ DeletionInv /\ RankInv /\ [Next]_vars => (TypeInv /\ DeletionInv /\ RankInv)'
  BY TypeNext, DeletionNext, RankNext
<1>3. RankInv => RankingIsOneList
  BY DEF RankInv
<1> QED
  BY <1>1, <1>2, <1>3, PTL DEF Spec

-----------------------------------------------------------------------------
(* The backup *)

Index(t) == IF t = "users" THEN 1 ELSE 2

(* What a sync at l with locals m, row r of table t and its copy b owe each *)
(* other: the row is copied, or this attempt will still look at it.        *)
Safe(l, m, t, u, r, b) ==
  /\ b = r \/ r.stamp > m.since
  /\ l = "ok" \/ (l \in {"read", "copy"} /\ Index(t) < m.table) => b = r
  /\ l = "copy" /\ Tables[m.table] = t =>
       m.found[u] = r \/ (m.found[u] = NoRow /\ b = r)

(* The rows that are answered for.                                         *)
Counts(t, u) == rows[t][u] # NoRow /\ <<t, u>> \notin late

BackupInv ==
  \A t \in TableNames, u \in Users : Counts(t, u) =>
    /\ backup[t][u] = rows[t][u] \/ rows[t][u].stamp > status.last
    /\ \A s \in Syncs : pc[s] # "idle" =>
         Safe(pc[s], mem[s], t, u, rows[t][u], backup[t][u])

(* Rows are written while no sync is under way and with a clock that the   *)
(* last one had not reached, or they are late.                             *)
LEMMA WritesAreSafe ==
  ASSUME TypeInv, BackupInv, UNCHANGED <<backup, status>>,
         \A s \in Syncs : pc'[s] = pc[s]
           /\ mem'[s].since = mem[s].since /\ mem'[s].table = mem[s].table
           /\ mem'[s].found = mem[s].found,
         NEW t \in TableNames, NEW S \in SUBSET Users, NEW stamp \in Times,
         Committed(t, S, stamp),
         \A other \in TableNames \ {t} : rows'[other] = rows[other],
         \A u \in S : rows'[t][u].stamp = stamp,
         \A u \in Users \ S : rows'[t][u] \in {rows[t][u], NoRow}
  PROVE  BackupInv'
<1>1. SUFFICES ASSUME NEW t2 \in TableNames, NEW u \in Users, Counts(t2, u)'
               PROVE  /\ backup[t2][u] = rows'[t2][u] \/ rows'[t2][u].stamp > status.last
                      /\ \A s \in Syncs : pc[s] # "idle" =>
                           Safe(pc'[s], mem'[s], t2, u, rows'[t2][u], backup[t2][u])
  BY DEF BackupInv
<1>2. rows'[t2][u] # NoRow /\ <<t2, u>> \notin late'
  BY <1>1 DEF Counts
<1>3. CASE t2 = t /\ u \in S
  <2>1. ~Syncing /\ ~(stamp <= status.last)
    BY <1>2, <1>3 DEF Committed
  <2>2. status.last \in Times
    BY Parts
  <2>3. stamp > status.last
    BY <2>1, <2>2 DEF Times
  <2> QED
    BY <1>3, <2>1, <2>3 DEF Syncing
<1>4. CASE ~(t2 = t /\ u \in S)
  <2>1. rows'[t2][u] = rows[t2][u]
    BY <1>2, <1>4
  <2>2. <<t2, u>> \notin late
    BY <1>2, <1>4 DEF Committed
  <2>3. /\ backup[t2][u] = rows[t2][u] \/ rows[t2][u].stamp > status.last
        /\ \A s \in Syncs : pc[s] # "idle" =>
             Safe(pc[s], mem[s], t2, u, rows[t2][u], backup[t2][u])
    BY <1>2, <2>1, <2>2 DEF BackupInv, Counts
  <2> QED
    BY <2>1, <2>3 DEF Safe
<1> QED
  BY <1>3, <1>4

(* A step of a sync that writes no backup and no status.                   *)
LEMMA SyncMoves ==
  ASSUME TypeInv, BackupInv, NEW s \in Syncs, NEW l, NEW m, Goto(s, l, m),
         UNCHANGED <<rows, backup, status, late>>,
         \A t \in TableNames, u \in Users : Counts(t, u) /\ l # "idle" =>
           Safe(l, m, t, u, rows[t][u], backup[t][u])
  PROVE  BackupInv'
<1>1. Syncs \subseteq Procs
  BY DEF Procs
<1>2. pc'[s] = l /\ mem'[s] = m /\ \A q \in Syncs \ {s} : pc'[q] = pc[q] /\ mem'[q] = mem[q]
  BY <1>1, OthersStay
<1> QED
  BY <1>2 DEF BackupInv, Counts

(* A row that is there has a time of its last update.                      *)
LEMMA StampType ==
  ASSUME TypeInv, NEW t \in TableNames, NEW u \in Users, Counts(t, u)
  PROVE  rows[t][u].stamp \in Nat \ {0}
<1>1. rows[t][u] \in RowsOf(t) /\ rows[t][u] # NoRow
  BY DEF TypeInv, TypeOK, Counts
<1>2. rows[t][u].stamp > 0
  BY <1>1 DEF TypeInv, Shape
<1>3. rows[t][u] \in UserRows \/ rows[t][u] \in RankRows
  BY <1>1 DEF RowsOf
<1>4. rows[t][u].stamp \in Times
  BY <1>3 DEF UserRows, RankRows
<1> QED
  BY <1>2, <1>4 DEF Times

(* A status that was never set names no time.                              *)
LEMMA StatusLast == GetBackupStatus.last = status.last
BY DEF GetBackupStatus, NoStatus

(* No action of a writer, a rebuild or a sync takes from the backup what   *)
(* it must have.                                                           *)
LEMMA BackupNext == ASSUME TypeInv, BackupInv, [Next]_vars PROVE BackupInv'
<1>0. /\ clock \in Times /\ clock > 0 /\ status.last \in Times
      /\ pc \in [Procs -> Places] /\ mem \in [Procs -> Locals]
      /\ \A p \in Procs : WellFormed(p, pc[p], mem[p])
      /\ Writers \subseteq Procs /\ Builders \subseteq Procs /\ Syncs \subseteq Procs
  BY Parts
<1>a. \A t \in TableNames, u \in Users : Counts(t, u) => rows[t][u].stamp \in Nat \ {0}
  BY StampType
<1>b. \A t \in TableNames, u \in Users : Counts(t, u) =>
        /\ backup[t][u] = rows[t][u] \/ rows[t][u].stamp > status.last
        /\ \A s \in Syncs : pc[s] # "idle" =>
             Safe(pc[s], mem[s], t, u, rows[t][u], backup[t][u])
  BY DEF BackupInv
<1>c. ASSUME NEW p \in Writers \cup Builders, NEW l, NEW m, Goto(p, l, m)
      PROVE  \A s \in Syncs : pc'[s] = pc[s] /\ mem'[s] = mem[s]
  <2>1. p \in Procs /\ \A s \in Syncs : s \in Procs /\ s # p
    BY DEF Procs
  <2> QED
    BY <1>c, <2>1, OthersStay
<1>d. CASE /\ UNCHANGED <<rows, backup, status, late>>
           /\ \A s \in Syncs : pc'[s] = pc[s] /\ mem'[s] = mem[s]
  BY <1>d DEF BackupInv, Counts
<1>1. ASSUME NEW w \in Writers, NEW u \in Users, NEW kind \in Kinds, ReadUser(w, u, kind)
      PROVE  BackupInv'
  BY <1>1, <1>c, <1>d DEF ReadUser, history
<1>2. ASSUME NEW w \in Writers, SaveUser(w) PROVE BackupInv'
  <2> DEFINE u == mem[w].user
  <2>1. PICK now \in Times :
          Committed("users", {u}, now) /\ rows'["users"][u] = Saved(mem[w], now)
    BY <1>2, SaveEffect
  <2>2. /\ u \in Users /\ rows'["rankings"] = rows["rankings"] /\ Done(w)
        /\ \A v \in Users \ {u} : rows'["users"][v] = rows["users"][v]
    BY <1>2, SaveEffect DEF WellFormed
  <2>3. Saved(mem[w], now).stamp = now
    BY DEF Saved
  <2>4. UNCHANGED <<backup, status>> /\ \A s \in Syncs : pc'[s] = pc[s] /\ mem'[s] = mem[s]
    BY <1>2, <1>c, <2>2 DEF SaveUser, Done
  <2> HIDE DEF u
  <2>5. /\ "users" \in TableNames
        /\ \A other \in TableNames \ {"users"} : rows'[other] = rows[other]
        /\ \A v \in {u} : rows'["users"][v].stamp = now
        /\ \A v \in Users \ {u} : rows'["users"][v] \in {rows["users"][v], NoRow}
    BY <2>1, <2>2, <2>3 DEF TableNames
  <2> QED
    BY <2>1, <2>2, <2>4, <2>5, WritesAreSafe
<1>3. ASSUME NEW w \in Writers, SaveFails(w) PROVE BackupInv'
  BY <1>3, <1>c, <1>d DEF SaveFails, Done, history
<1>4. ASSUME NEW b \in Builders, StartRebuild(b) \/ DeleteRanking(b) \/ DeleteWaits(b)
      PROVE  BackupInv'
  BY <1>4, <1>c, <1>d DEF StartRebuild, DeleteRanking, DeleteWaits, history
<1>5. ASSUME NEW b \in Builders, InsertRanking(b) PROVE BackupInv'
  <2> DEFINE m == mem[b]
             table == rows'["rankings"]
  <2>0. UNCHANGED <<backup, status>> /\ pc[b] = "insert"
    BY <1>5 DEF InsertRanking
  <2>1. CASE Done(b) /\ UNCHANGED <<rows, late>>
    BY <1>c, <1>d, <2>0, <2>1 DEF Done
  <2>2. CASE ~(Done(b) /\ UNCHANGED <<rows, late>>)
    <3>1. /\ rows'["users"] = rows["users"]
          /\ Replaces(m, Present \ m.seen, table)
          /\ Committed("rankings", Named(m.list), m.stamp)
          /\ pc' = [pc EXCEPT ![b] = "idle"]
          /\ mem' = [c \in Procs |-> IF c = b THEN NoLocals
                                     ELSE [mem[c] EXCEPT !.seen = @ \ m.seen]]
      BY <1>5, <2>2, InsertEffect
    <3>2. m \in Locals
      BY <1>0
    <3>3. m.stamp \in Times /\ Named(m.list) \subseteq Users
      BY <3>2, ListElements DEF Locals
    <3>4. ASSUME NEW s \in Syncs
          PROVE  /\ pc'[s] = pc[s]
                 /\ mem'[s].since = mem[s].since /\ mem'[s].table = mem[s].table
                 /\ mem'[s].found = mem[s].found
      <4>1. s \in Procs /\ s # b /\ mem[s] \in Locals
        BY <1>0
      <4> QED
        BY <1>0, <3>1, <4>1 DEF Locals
    <3>5. \A i : RankRow(m, i).stamp = m.stamp
      BY DEF RankRow
    <3> HIDE DEF m, table
    <3>6. /\ \A u \in Named(m.list) : table[u].stamp = m.stamp
          /\ \A u \in Users \ Named(m.list) : table[u] \in {rows["rankings"][u], NoRow}
      BY <3>1, <3>3, <3>5 DEF Replaces
    <3>7. /\ "rankings" \in TableNames
          /\ \A other \in TableNames \ {"rankings"} : rows'[other] = rows[other]
      BY <3>1 DEF TableNames
    <3> QED
      BY <2>0, <3>1, <3>3, <3>4, <3>6, <3>7, WritesAreSafe DEF table
  <2> QED
    BY <2>1, <2>2
<1>6. ASSUME NEW s \in Syncs, StartSync(s) PROVE BackupInv'
  <2> DEFINE m == [NoLocals EXCEPT !.since = GetBackupStatus.last, !.attempt = 1, !.table = 1]
  <2>1. m.since = status.last /\ m.table = 1
    BY StatusLast DEF NoLocals
  <2>2. Goto(s, "read", m) /\ UNCHANGED <<rows, backup, status, late>>
    BY <1>6 DEF StartSync, history
  <2> HIDE DEF m
  <2>3. \A t \in TableNames, u \in Users : Counts(t, u) =>
          Safe("read", m, t, u, rows[t][u], backup[t][u])
    BY <1>b, <2>1 DEF Safe, Index
  <2> QED
    BY <2>2, <2>3, SyncMoves
<1>7. ASSUME NEW s \in Syncs, ReadRows(s) PROVE BackupInv'
  <2> DEFINE name == Tables[mem[s].table]
             f == [u \in Users |-> IF rows[name][u].stamp > mem[s].since
                                   THEN rows[name][u] ELSE NoRow]
             m == [mem[s] EXCEPT !.found = f]
  <2>1. pc[s] = "read" /\ Goto(s, "copy", m) /\ UNCHANGED <<rows, backup, status, late>>
    BY <1>7 DEF ReadRows, history
  <2>2. mem[s] \in Locals
    BY <1>0
  <2>3. m.since = mem[s].since /\ m.table = mem[s].table /\ m.found = f
    BY <2>2 DEF Locals
  <2> HIDE DEF m
  <2>4. ASSUME NEW t \in TableNames, NEW u \in Users, Counts(t, u)
        PROVE  Safe("copy", m, t, u, rows[t][u], backup[t][u])
    <3>1. Safe("read", mem[s], t, u, rows[t][u], backup[t][u])
      BY <1>b, <2>1, <2>4
    <3>2. name = t => m.found[u] = IF rows[t][u].stamp > mem[s].since THEN rows[t][u] ELSE NoRow
      BY <2>3
    <3>3. name = Tables[m.table]
      BY <2>3
    <3> QED
      BY <2>3, <3>1, <3>2, <3>3 DEF Safe
  <2> QED
    BY <2>1, <2>4, SyncMoves
<1>8. ASSUME NEW s \in Syncs, CopyRows(s) PROVE BackupInv'
  <2> DEFINE m == mem[s]
             name == Tables[m.table]
             ok == [m EXCEPT !.found = NoRows]
             read == [m EXCEPT !.found = NoRows, !.table = 2]
  <2>1. /\ pc[s] = "copy" /\ m.table \in {1, 2} /\ name \in TableNames
        /\ \A u \in Users : backup'[name][u] =
             IF m.found[u] = NoRow THEN backup[name][u] ELSE m.found[u]
        /\ \A t \in TableNames \ {name} : backup'[t] = backup[t]
        /\ \/ m.table = 2 /\ Goto(s, "ok", ok)
           \/ m.table = 1 /\ Goto(s, "read", read)
    BY <1>8, CopyEffect
  <2>2. UNCHANGED <<rows, status, late>>
    BY <1>8 DEF CopyRows, history
  <2>3. m \in Locals
    BY <1>0
  <2>4. ok.since = m.since /\ ok.table = m.table /\ read.since = m.since /\ read.table = 2
    BY <2>3 DEF Locals
  <2> HIDE DEF m, ok, read
  <2>5. ASSUME NEW t \in TableNames, NEW u \in Users, Counts(t, u)
        PROVE  /\ backup[t][u] = rows[t][u] => backup'[t][u] = rows[t][u]
               /\ t = name => backup'[t][u] = rows[t][u]
    <3>1. Safe("copy", m, t, u, rows[t][u], backup[t][u])
      BY <1>b, <2>1, <2>5 DEF m
    <3>2. rows[t][u] # NoRow
      BY <2>5 DEF Counts
    <3>3. CASE t = name
      BY <2>1, <3>1, <3>2, <3>3 DEF Safe
    <3>4. CASE t # name
      BY <2>1, <3>4
    <3> QED
      BY <3>3, <3>4
  <2>6. ASSUME NEW t \in TableNames, NEW u \in Users, Counts(t, u)
        PROVE  /\ m.table = 2 => Safe("ok", ok, t, u, rows[t][u], backup'[t][u])
               /\ m.table = 1 => Safe("read", read, t, u, rows[t][u], backup'[t][u])
    <3>1. Safe("copy", m, t, u, rows[t][u], backup[t][u])
      BY <1>b, <2>1, <2>6 DEF m
    <3>2. Index(t) < m.table \/ t = name \/ (m.table = 1 /\ Index(t) = 2)
      BY <2>1, TablesAre DEF Index, TableNames
    <3>3. Index(t) < m.table \/ t = name => backup'[t][u] = rows[t][u]
      BY <2>5, <2>6, <3>1 DEF Safe
    <3>4. backup'[t][u] = rows[t][u] \/ rows[t][u].stamp > m.since
      BY <2>5, <2>6, <3>1 DEF Safe
    <3>5. m.table = 2 => Safe("ok", ok, t, u, rows[t][u], backup'[t][u])
      BY <2>4, <3>2, <3>3, <3>4 DEF Safe
    <3>6. m.table = 1 => Safe("read", read, t, u, rows[t][u], backup'[t][u])
      BY <2>4, <3>2, <3>3, <3>4 DEF Safe
    <3> QED
      BY <3>5, <3>6
  <2>7. ASSUME NEW q \in Syncs \ {s}
        PROVE  pc'[q] = pc[q] /\ mem'[q] = mem[q]
    BY <1>0, <2>1, OthersStay
  <2>8. \/ m.table = 2 /\ pc'[s] = "ok" /\ mem'[s] = ok
        \/ m.table = 1 /\ pc'[s] = "read" /\ mem'[s] = read
    BY <1>0, <2>1, OthersStay
  <2>9. ASSUME NEW t \in TableNames, NEW u \in Users, Counts(t, u)
        PROVE  /\ backup'[t][u] = rows[t][u] \/ rows[t][u].stamp > status.last
               /\ \A q \in Syncs : pc'[q] # "idle" =>
                    Safe(pc'[q], mem'[q], t, u, rows[t][u], backup'[t][u])
    <3>1. ASSUME NEW q \in Syncs \ {s}, pc[q] # "idle"
          PROVE  Safe(pc[q], mem[q], t, u, rows[t][u], backup'[t][u])
      <4>1. Safe(pc[q], mem[q], t, u, rows[t][u], backup[t][u])
        BY <1>b, <2>9, <3>1
      <4> QED
        BY <2>5, <2>9, <4>1 DEF Safe
    <3>2. Safe(pc'[s], mem'[s], t, u, rows[t][u], backup'[t][u])
      BY <2>6, <2>8, <2>9
    <3>3. backup'[t][u] = rows[t][u] \/ rows[t][u].stamp > status.last
      BY <1>b, <2>5, <2>9
    <3> QED
      BY <2>7, <3>1, <3>2, <3>3
  <2> QED
    BY <2>2, <2>9 DEF BackupInv, Counts
<1>9. ASSUME NEW s \in Syncs, SyncFails(s) PROVE BackupInv'
  <2> DEFINE m == [mem[s] EXCEPT !.found = NoRows, !.table = 1]
             n == [m EXCEPT !.attempt = @ + 1]
  <2>1. mem[s] \in Locals /\ pc[s] \in {"read", "copy"} /\ UNCHANGED <<rows, backup, status, late>>
    BY <1>0, <1>9 DEF SyncFails, history
  <2>2. m.since = mem[s].since /\ m.table = 1 /\ n.since = mem[s].since /\ n.table = 1
    BY <2>1 DEF Locals
  <2>3. Goto(s, "read", n) \/ Goto(s, "failed", m)
    BY <1>9 DEF SyncFails
  <2> HIDE DEF m, n
  <2>4. \A t \in TableNames, u \in Users : Counts(t, u) =>
          Safe("read", n, t, u, rows[t][u], backup[t][u])
          /\ Safe("failed", m, t, u, rows[t][u], backup[t][u])
    BY <1>b, <2>1, <2>2 DEF Safe, Index
  <2> QED
    BY <2>1, <2>3, <2>4, SyncMoves
<1>10. ASSUME NEW s \in Syncs, SetOk(s) PROVE BackupInv'
  <2>1. pc[s] = "ok" /\ Done(s) /\ UNCHANGED <<rows, backup, late>>
    BY <1>10 DEF SetOk, history
  <2>2. \A t \in TableNames, u \in Users : Counts(t, u) => backup[t][u] = rows[t][u]
    BY <1>b, <2>1 DEF Safe
  <2>3. pc'[s] = "idle" /\ \A q \in Syncs \ {s} : pc'[q] = pc[q] /\ mem'[q] = mem[q]
    BY <1>0, <2>1, OthersStay DEF Done
  <2> QED
    BY <1>b, <2>1, <2>2, <2>3 DEF BackupInv, Counts
<1>11. ASSUME NEW s \in Syncs, ReadAgain(s) PROVE BackupInv'
  <2>1. PICK kept \in {status.last, 0} : Goto(s, "error", [mem[s] EXCEPT !.since = kept])
    BY <1>11, StatusLast DEF ReadAgain
  <2> DEFINE m == [mem[s] EXCEPT !.since = kept]
  <2>2. m.since = kept /\ Goto(s, "error", m)
    BY <1>0, <2>1 DEF Locals
  <2>3. UNCHANGED <<rows, backup, status, late>>
    BY <1>11 DEF ReadAgain, history
  <2> HIDE DEF m
  <2>4. \A t \in TableNames, u \in Users : Counts(t, u) =>
          Safe("error", m, t, u, rows[t][u], backup[t][u])
    <3>1. ASSUME NEW t \in TableNames, NEW u \in Users, Counts(t, u)
          PROVE  Safe("error", m, t, u, rows[t][u], backup[t][u])
      <4>1. rows[t][u].stamp > 0
        BY <1>a, <3>1
      <4>2. backup[t][u] = rows[t][u] \/ rows[t][u].stamp > m.since
        BY <1>b, <2>2, <3>1, <4>1
      <4> QED
        BY <4>2 DEF Safe
    <3> QED
      BY <3>1
  <2> QED
    BY <2>2, <2>3, <2>4, SyncMoves
<1>12. ASSUME NEW s \in Syncs, SetError(s) PROVE BackupInv'
  <2>1. /\ pc[s] = "error" /\ Done(s) /\ UNCHANGED <<rows, backup, late>>
        /\ status'.last = mem[s].since
    BY <1>12 DEF SetError, history
  <2>2. \A t \in TableNames, u \in Users : Counts(t, u) =>
          backup[t][u] = rows[t][u] \/ rows[t][u].stamp > mem[s].since
    BY <1>b, <2>1 DEF Safe
  <2>3. pc'[s] = "idle" /\ \A q \in Syncs \ {s} : pc'[q] = pc[q] /\ mem'[q] = mem[q]
    BY <1>0, <2>1, OthersStay DEF Done
  <2> QED
    BY <1>b, <2>1, <2>2, <2>3 DEF BackupInv, Counts
<1>13. CASE Tick \/ UNCHANGED vars
  BY <1>13, <1>d DEF Tick, vars, history
<1> QED
  BY <1>1, <1>2, <1>3, <1>4, <1>5, <1>6, <1>7, <1>8, <1>9, <1>10, <1>11, <1>12, <1>13
     DEF Next, BuilderStep, SyncStep

(* After any failures, retries and overlaps of syncs, what the next sync   *)
(* will not look at is in the backup as it is, but for rows written while  *)
(* a sync ran or with a clock from before it.                              *)
THEOREM BackupIsComplete == Spec => []BackupComplete
<1>1. Init => TypeInv /\ BackupInv
  <2>1. ASSUME Init PROVE BackupInv
    <3>1. /\ \A u \in Users : rows["users"][u].stamp = 1 /\ rows["rankings"][u] = NoRow
          /\ \A s \in Syncs : pc[s] = "idle"
          /\ status.last = 0
      BY <2>1 DEF Init, TableNames, NewUser, NoRows, NoStatus, Procs
    <3>2. ASSUME NEW t \in TableNames, NEW u \in Users, Counts(t, u)
          PROVE  rows[t][u].stamp > status.last
      <4>1. t = "users" \/ t = "rankings"
        BY DEF TableNames
      <4>2. rows[t][u] # NoRow
        BY <3>2 DEF Counts
      <4>3. rows[t][u].stamp = 1
        BY <3>1, <4>1, <4>2
      <4> QED
        BY <3>1, <4>3
    <3> QED
      BY <3>1, <3>2 DEF BackupInv
  <2> QED
    BY <2>1, TypeInit
<1>2. TypeInv /\ BackupInv /\ [Next]_vars => (TypeInv /\ BackupInv)'
  BY TypeNext, BackupNext
<1>3. TypeInv /\ BackupInv => BackupComplete
  <2>1. ASSUME TypeInv, BackupInv, NEW t \in TableNames, NEW u \in Users,
               Counts(t, u), rows[t][u].stamp <= status.last
        PROVE  backup[t][u] = rows[t][u]
    <3>1. rows[t][u].stamp \in Nat
      BY <2>1, StampType
    <3>2. status.last \in Nat
      BY <2>1, Parts DEF Times
    <3>3. backup[t][u] = rows[t][u] \/ rows[t][u].stamp > status.last
      BY <2>1 DEF BackupInv
    <3> QED
      BY <2>1, <3>1, <3>2, <3>3
  <2> QED
    BY <2>1 DEF BackupComplete, Counts
<1> QED
  BY <1>1, <1>2, <1>3, PTL DEF Spec

=============================================================================
