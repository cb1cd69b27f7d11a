--------------------------- MODULE AccountsProofs ---------------------------
(***************************************************************************)
(* Proofs about Accounts: for any number of requests and tokens, any       *)
(* lifetimes and any number of restarts, no family has two live tokens,    *)
(* and one that has ended stays ended.                                     *)
(*                                                                         *)
(* A step is sorted by what it does to the rows of refresh_tokens          *)
(* (TokenStep); the rest of each argument is about those five cases.       *)
(***************************************************************************)
EXTENDS Accounts, TLAPS

USE TokensAssumption, LivesAssumption, AccountBoundsAssumption, ActorsAssumption

Begun == {i \in Tokens : token[i].status # "none"}

(* Where a process works on a token, its row has been inserted, and so     *)
(* have the rows that an UPDATE has in hand.                               *)
WorksOnRows ==
  \A p \in Procs :
    /\ pc[p] \in {"expire", "rotate", "rotated"} => mem[p].tok \in Begun
    /\ mem[p].snap \subseteq Begun

(* A family is named after the token of its login, whose row is there.     *)
FamilyHasBegun == \A i \in Begun : token[i].family \in Begun

AccountInv == TypeOK /\ WorksOnRows /\ FamilyHasBegun /\ OneLivePerFamily

-----------------------------------------------------------------------------
(* Types of the parts a step is made of *)

Locals == [tok : Tokens \cup {0}, now : Times, kind : Kinds,
           snap : SUBSET Tokens, row : UserRows]

(* An idle process has locals of their types.                              *)
LEMMA NoLocalsType == NoLocals \in Locals
  BY DEF NoLocals, Locals, UserRows, Times, Kinds

(* Moving on keeps the types of where a process is and of its locals.      *)
LEMMA GotoType ==
  ASSUME TypeOK, NEW p \in Procs, NEW l \in Places, NEW m \in Locals, Goto(p, l, m)
  PROVE  /\ pc' \in [Procs -> Places]
         /\ mem' \in [Procs -> Locals]
  BY DEF Goto, TypeOK, Locals

(* So does ending an operation, which leaves no locals behind.             *)
LEMMA DoneType ==
  ASSUME TypeOK, NEW p \in Procs, Done(p)
  PROVE  /\ pc' \in [Procs -> Places]
         /\ mem' \in [Procs -> Locals]
  BY NoLocalsType, GotoType DEF Done, Places

(* The row that goes back with a new activity is a row of users.           *)
LEMMA SaveType ==
  ASSUME NEW row \in UserRows, NEW now \in Times, SaveActive(row, now)
  PROVE  user' \in UserRows
  BY DEF SaveActive, UserRows

(* What NewRefreshToken makes is a live row of the family it was given.    *)
LEMMA NewRowType ==
  ASSUME NEW family \in Tokens, NEW now \in Times
  PROVE  /\ NewRow(family, now) \in TokenRows
         /\ NewRow(family, now).status = "ACTIVE"
         /\ NewRow(family, now).family = family
<1>1. 0 \in Times /\ family \in Tokens \cup {0} /\ "ACTIVE" \in TokenStatus \cup {"none", "gone"}
  BY DEF Times, TokenStatus
<1> QED
  BY <1>1 DEF NewRow, TokenRows

(* Rows that are ended keep their family.                                  *)
LEMMA EndType ==
  ASSUME TypeOK, NEW S, NEW now \in Times
  PROVE  /\ EndRows(S, now) \in [Tokens -> TokenRows]
         /\ \A i \in Tokens :
              /\ EndRows(S, now)[i].family = token[i].family
              /\ EndRows(S, now)[i].status =
                   IF i \in S THEN "REVOKED" ELSE token[i].status
<1>1. ASSUME NEW i \in Tokens
      PROVE  [token[i] EXCEPT !.status = "REVOKED", !.ended = now] \in TokenRows
  <2>1. token[i] \in TokenRows /\ "REVOKED" \in TokenStatus \cup {"none", "gone"}
    BY <1>1 DEF TypeOK, TokenStatus
  <2> QED
    BY <2>1 DEF TokenRows
<1>2. ASSUME NEW i \in Tokens
      PROVE  token[i] \in TokenRows
  BY <1>2 DEF TypeOK
<1>3. EndRows(S, now) \in [Tokens -> TokenRows]
  BY <1>1, <1>2 DEF EndRows
<1>4. ASSUME NEW i \in Tokens
      PROVE  /\ EndRows(S, now)[i].family = token[i].family
             /\ EndRows(S, now)[i].status = IF i \in S THEN "REVOKED" ELSE token[i].status
  BY <1>2, <1>4 DEF EndRows, TokenRows
<1> QED
  BY <1>3, <1>4

-----------------------------------------------------------------------------
(* What a step does to the rows of refresh_tokens: nothing, it ends some,  *)
(* a login inserts one, a rotation ends one and inserts its successor, or  *)
(* the clean-up deletes some.                                              *)

Ends == \E S \in SUBSET Begun, now \in Times : token' = EndRows(S, now)

Inserts ==
  \E i \in Tokens \ Begun, now \in Times : token' = [token EXCEPT ![i] = NewRow(i, now)]

Rotates ==
  \E i \in Tokens \ Begun, old \in LiveTokens, now \in Times :
    token' = [EndRows({old}, now) EXCEPT ![i] = NewRow(token[old].family, now)]

Deletes ==
  \E S \in SUBSET Begun :
    token' = [i \in Tokens |-> IF i \in S THEN [token[i] EXCEPT !.status = "gone"] ELSE token[i]]

TokenStep == UNCHANGED token \/ Ends \/ Inserts \/ Rotates \/ Deletes

(* A live row is there.                                                    *)
LEMMA LiveBegun == LiveTokens \subseteq Begun
  BY DEF LiveTokens, Live, Begun

(* The rows after a step, whichever it is: a row keeps its family once it  *)
(* is there, a live one was live or is new, and a new one belongs to its   *)
(* own family or to that of the row it replaces.                           *)
RowsAfter ==
  /\ token' \in [Tokens -> TokenRows]
  /\ Begun \subseteq Begun'
  /\ \A i \in Begun : token'[i].family = token[i].family
  /\ LiveTokens' \cap Begun \subseteq LiveTokens
  /\ \/ Begun' = Begun
     \/ \E i \in Tokens \ Begun :
          /\ Begun' = Begun \cup {i}
          /\ \/ token'[i].family = i
             \/ \E old \in LiveTokens : old \notin LiveTokens' /\ token'[i].family = token[old].family

(* Each of the five cases has this effect.                                 *)
LEMMA TokenEffect ==
  ASSUME AccountInv, TokenStep
  PROVE  RowsAfter
<1> USE DEF AccountInv
<1>1. CASE UNCHANGED token
  BY <1>1 DEF RowsAfter, TypeOK, Begun, LiveTokens, Live
<1>2. CASE Ends
  <2>1. PICK S \in SUBSET Begun, now \in Times : token' = EndRows(S, now)
    BY <1>2 DEF Ends
  <2>2. /\ token' \in [Tokens -> TokenRows]
        /\ \A i \in Tokens : /\ token'[i].family = token[i].family
                             /\ token'[i].status = IF i \in S THEN "REVOKED" ELSE token[i].status
    BY <2>1, EndType
  <2>3. Begun' = Begun
    BY <2>2 DEF Begun
  <2> QED
    BY <2>2, <2>3 DEF RowsAfter, Begun, LiveTokens, Live
<1>3. CASE Inserts
  <2>1. PICK i \in Tokens \ Begun, now \in Times : token' = [token EXCEPT ![i] = NewRow(i, now)]
    BY <1>3 DEF Inserts
  <2>2. /\ NewRow(i, now) \in TokenRows
        /\ NewRow(i, now).status = "ACTIVE" /\ NewRow(i, now).family = i
    BY NewRowType
  <2>3. /\ token' \in [Tokens -> TokenRows]
        /\ token'[i].status = "ACTIVE" /\ token'[i].family = i
        /\ \A j \in Tokens \ {i} : token'[j] = token[j]
    BY <2>1, <2>2 DEF TypeOK
  <2>4. Begun' = Begun \cup {i}
    BY <2>3 DEF Begun
  <2>5. LiveTokens' \cap Begun \subseteq LiveTokens
    BY <2>3 DEF LiveTokens, Live, Begun
  <2> QED
    BY <2>3, <2>4, <2>5 DEF RowsAfter, Begun
<1>4. CASE Rotates
  <2>1. PICK i \in Tokens \ Begun, old \in LiveTokens, now \in Times :
          token' = [EndRows({old}, now) EXCEPT ![i] = NewRow(token[old].family, now)]
    BY <1>4 DEF Rotates
  <2> DEFINE family == token[old].family
  <2>2. family \in Tokens /\ old \in Begun /\ old # i
    BY LiveBegun DEF FamilyHasBegun, Begun
  <2>3. /\ NewRow(family, now) \in TokenRows
        /\ NewRow(family, now).status = "ACTIVE" /\ NewRow(family, now).family = family
    BY <2>2, NewRowType
  <2>4. /\ EndRows({old}, now) \in [Tokens -> TokenRows]
        /\ \A j \in Tokens :
             /\ EndRows({old}, now)[j].family = token[j].family
             /\ EndRows({old}, now)[j].status =
                  IF j \in {old} THEN "REVOKED" ELSE token[j].status
    BY EndType
  <2>5. /\ token' \in [Tokens -> TokenRows]
        /\ token'[i].status = "ACTIVE" /\ token'[i].family = family
        /\ \A j \in Tokens \ {i} :
             /\ token'[j].family = token[j].family
             /\ token'[j].status = IF j = old THEN "REVOKED" ELSE token[j].status
    BY <2>1, <2>3, <2>4
  <2>6. Begun' = Begun \cup {i}
    BY <2>2, <2>5 DEF Begun
  <2>7. old \notin LiveTokens'
    BY <2>2, <2>5 DEF LiveTokens, Live
  <2>8. LiveTokens' \cap Begun \subseteq LiveTokens
    BY <2>5 DEF LiveTokens, Live, Begun
  <2> QED
    BY <2>2, <2>5, <2>6, <2>7, <2>8 DEF RowsAfter, Begun
<1>5. CASE Deletes
  <2>1. PICK S \in SUBSET Begun :
          token' = [i \in Tokens |->
                      IF i \in S THEN [token[i] EXCEPT !.status = "gone"] ELSE token[i]]
    BY <1>5 DEF Deletes
  <2>2. ASSUME NEW i \in Tokens
        PROVE  /\ token'[i] \in TokenRows /\ token'[i].family = token[i].family
               /\ token'[i].status = IF i \in S THEN "gone" ELSE token[i].status
    BY <2>1, <2>2 DEF TypeOK, TokenRows, TokenStatus
  <2>3. token' \in [Tokens -> TokenRows]
    BY <2>1, <2>2
  <2>4. Begun' = Begun
    BY <2>2 DEF Begun
  <2> QED
    BY <2>2, <2>3, <2>4 DEF RowsAfter, Begun, LiveTokens, Live
<1> QED
  BY <1>1, <1>2, <1>3, <1>4, <1>5 DEF TokenStep

-----------------------------------------------------------------------------
(* The invariant *)

(* Nothing is there at first.                                              *)
LEMMA AccountInit == ASSUME Init PROVE AccountInv
<1>1. TypeOK
  <2>1. NoRow \in TokenRows
    <3>1. "none" \in TokenStatus \cup {"none", "gone"} /\ 0 \in Tokens \cup {0} /\ 0 \in Times
      BY DEF TokenStatus, Times
    <3> QED
      BY <3>1 DEF NoRow, TokenRows
  <2>2. clock \in Times /\ frozen \in Times /\ user \in UserRows /\ crashes \in 0 .. MaxCrashes
    BY DEF Init, Times, UserRows
  <2>3. token \in [Tokens -> TokenRows] /\ pc \in [Procs -> Places]
    BY <2>1 DEF Init, Places
  <2>4. mem \in [Procs -> Locals]
    BY NoLocalsType DEF Init
  <2> QED
    BY <2>2, <2>3, <2>4 DEF TypeOK, Locals
<1>2. Begun = {} /\ LiveTokens = {}
  BY DEF Init, Begun, LiveTokens, Live, NoRow
<1>3. \A p \in Procs : pc[p] = "idle" /\ mem[p].snap = {}
  BY DEF Init, NoLocals
<1> QED
  BY <1>1, <1>2, <1>3 DEF AccountInv, WorksOnRows, FamilyHasBegun, OneLivePerFamily

(* After a step every process has locals of their types, and works on rows *)
(* that were there before the step.                                        *)
ProcsAfter ==
  /\ pc' \in [Procs -> Places]
  /\ mem' \in [Procs -> Locals]
  /\ \A p \in Procs :
       /\ pc'[p] \in {"expire", "rotate", "rotated"} => mem'[p].tok \in Begun
       /\ mem'[p].snap \subseteq Begun

(* It is enough to look at the process that moves: no row disappears.      *)
LEMMA ProcMoves ==
  ASSUME AccountInv, NEW p \in Procs, NEW l \in Places, NEW m \in Locals, Goto(p, l, m),
         l \in {"expire", "rotate", "rotated"} => m.tok \in Begun,
         m.snap \subseteq Begun
  PROVE  ProcsAfter
<1>1. pc' = [pc EXCEPT ![p] = l] /\ mem' = [mem EXCEPT ![p] = m]
  BY DEF Goto
<1>2. pc \in [Procs -> Places] /\ mem \in [Procs -> Locals]
  BY DEF AccountInv, TypeOK, Locals
<1>3. pc' \in [Procs -> Places] /\ mem' \in [Procs -> Locals]
  BY <1>1, <1>2
<1>4. ASSUME NEW q \in Procs
      PROVE  /\ pc'[q] \in {"expire", "rotate", "rotated"} => mem'[q].tok \in Begun
             /\ mem'[q].snap \subseteq Begun
  <2>1. CASE q = p
    BY <1>1, <1>2, <2>1
  <2>2. CASE q # p
    BY <1>1, <1>2, <1>4, <2>2 DEF AccountInv, WorksOnRows
  <2> QED
    BY <2>1, <2>2
<1> QED
  BY <1>3, <1>4 DEF ProcsAfter

(* A process that ends works on no row.                                    *)
LEMMA ProcEnds ==
  ASSUME AccountInv, NEW p \in Procs, Done(p)
  PROVE  ProcsAfter
BY ProcMoves, NoLocalsType DEF Done, NoLocals, Places

(* A step that moves no process leaves each on its rows.                   *)
LEMMA ProcsStay ==
  ASSUME AccountInv, UNCHANGED <<pc, mem>>
  PROVE  ProcsAfter
BY DEF AccountInv, TypeOK, WorksOnRows, Locals, ProcsAfter

(* What is known of a step, besides which of the five cases it is.         *)
StepGood ==
  /\ clock' \in Times /\ frozen' \in Times /\ user' \in UserRows
  /\ crashes' \in 0 .. MaxCrashes
  /\ ProcsAfter
  /\ TokenStep

(* Every action keeps the types and is one of the five cases.              *)
LEMMA StepIsGood == ASSUME AccountInv, Next PROVE StepGood
<1> USE DEF AccountInv
<1>0. /\ clock \in Times /\ frozen \in Times /\ user \in UserRows
      /\ crashes \in 0 .. MaxCrashes
      /\ token \in [Tokens -> TokenRows]
      /\ mem \in [Procs -> Locals]
      /\ pc \in [Procs -> Places]
      /\ LiveTokens \subseteq Begun
      /\ NoLocals \in Locals /\ NoLocals.snap = {}
      /\ Worker \in Procs /\ Admin \in Procs /\ Reqs \subseteq Procs
  BY NoLocalsType, LiveBegun DEF TypeOK, Locals, NoLocals, Procs
<1>a. \A i \in Tokens : Live(i) => i \in LiveTokens
  BY DEF LiveTokens
<1>b. \A i \in Tokens : Unused(i) => i \in Tokens \ Begun
  BY DEF Unused, Begun
<1>c. \A p \in Procs :
        /\ mem[p].now \in Times /\ mem[p].row \in UserRows /\ mem[p].kind \in Kinds
        /\ mem[p].snap \subseteq Begun
        /\ pc[p] \in {"expire", "rotate", "rotated"} => mem[p].tok \in Begun
  BY <1>0 DEF WorksOnRows, Locals
<1>1. ASSUME NEW r \in Reqs, LoginFind(r) PROVE StepGood
  <2>1. Goto(r, "login", [NoLocals EXCEPT !.row = user])
        /\ UNCHANGED <<clock, user, token, frozen, crashes>>
    BY <1>1 DEF LoginFind
  <2>2. [NoLocals EXCEPT !.row = user] \in Locals /\ [NoLocals EXCEPT !.row = user].snap = {}
    BY <1>0 DEF Locals, NoLocals
  <2>3. ProcsAfter
    BY <1>0, <2>1, <2>2, ProcMoves DEF Places
  <2> QED
    BY <1>0, <2>1, <2>3 DEF StepGood, TokenStep
<1>2. ASSUME NEW r \in Reqs, LoginCommit(r) PROVE StepGood
  <2>1. PICK i \in Tokens : Unused(i) /\ token' = [token EXCEPT ![i] = NewRow(i, clock)]
    BY <1>2 DEF LoginCommit
  <2>2. Inserts
    BY <1>0, <1>b, <2>1 DEF Inserts
  <2>3. user' \in UserRows
    BY <1>0, <1>2, <1>c, SaveType DEF LoginCommit
  <2>4. ProcsAfter
    BY <1>0, <1>2, ProcEnds DEF LoginCommit
  <2> QED
    BY <1>0, <1>2, <2>2, <2>3, <2>4 DEF LoginCommit, StepGood, TokenStep
<1>3. ASSUME NEW r \in Reqs, NEW i \in Tokens, RefreshFind(r, i) PROVE StepGood
  <2> DEFINE m == [NoLocals EXCEPT !.tok = i, !.now = clock]
             family == {j \in LiveTokens : token[j].family = token[i].family}
             n == [m EXCEPT !.kind = "reuse", !.snap = family]
  <2>1. m \in Locals /\ m.snap = {} /\ m.tok = i
    BY <1>0 DEF Locals, NoLocals
  <2>2. n \in Locals /\ n.snap \subseteq Begun
    BY <1>0, <2>1 DEF Locals, Kinds, Begun
  <2>3. token[i].status = "REVOKED" \/ Live(i) => i \in Begun
    BY DEF Begun, Live
  <2>4. \/ token[i].status = "REVOKED" /\ Goto(r, "revoke", n)
        \/ Live(i) /\ Goto(r, "expire", m)
        \/ Live(i) /\ Goto(r, "rotate", m)
    BY <1>3 DEF RefreshFind, IsActive
  <2>5. {"revoke", "expire", "rotate"} \subseteq Places
    BY DEF Places
  <2> HIDE DEF m, n
  <2>6. ProcsAfter
    BY <1>0, <2>1, <2>2, <2>3, <2>4, <2>5, ProcMoves
  <2> QED
    BY <1>0, <1>3, <2>6 DEF RefreshFind, StepGood, TokenStep
<1>4. ASSUME NEW r \in Reqs, RefreshExpire(r) PROVE StepGood
  <2>1. Ends
    <3>1. {mem[r].tok} \cap LiveTokens \in SUBSET Begun /\ mem[r].now \in Times
      BY <1>0, <1>c
    <3> QED
      BY <1>4, <3>1 DEF RefreshExpire, Ends
  <2>2. ProcsAfter
    BY <1>0, <1>4, ProcEnds DEF RefreshExpire
  <2> QED
    BY <1>0, <1>4, <2>1, <2>2 DEF RefreshExpire, StepGood, TokenStep
<1>5. ASSUME NEW r \in Reqs, RotateLock(r) PROVE StepGood
  <2> DEFINE m == [mem[r] EXCEPT !.row = user]
  <2>1. m \in Locals /\ m.tok = mem[r].tok /\ m.snap = mem[r].snap
    BY <1>0 DEF Locals
  <2>2. pc[r] = "rotate" /\ (Goto(r, "rotated", m) \/ Done(r))
    BY <1>5 DEF RotateLock
  <2> HIDE DEF m
  <2>3. ProcsAfter
    BY <1>0, <1>c, <2>1, <2>2, ProcMoves, ProcEnds DEF Places
  <2> QED
    BY <1>0, <1>5, <2>3 DEF RotateLock, StepGood, TokenStep
<1>6. ASSUME NEW r \in Reqs, RotateCommit(r) PROVE StepGood
  <2> DEFINE old == mem[r].tok
  <2>1. pc[r] = "rotated" /\ Live(old) /\ old \in Begun /\ old \in Tokens
    BY <1>0, <1>6, <1>c DEF RotateCommit, Begun
  <2>2. PICK i \in Tokens :
          /\ Unused(i)
          /\ token' = [EndRows({old}, mem[r].now) EXCEPT
                         ![i] = NewRow(token[old].family, mem[r].now)]
    BY <1>6 DEF RotateCommit
  <2>3. Rotates
    BY <1>0, <1>a, <1>b, <1>c, <2>1, <2>2 DEF Rotates
  <2>4. user' \in UserRows
    BY <1>0, <1>6, <1>c, SaveType DEF RotateCommit
  <2>5. ProcsAfter
    BY <1>0, <1>6, ProcEnds DEF RotateCommit
  <2> QED
    BY <1>0, <1>6, <2>3, <2>4, <2>5 DEF RotateCommit, StepGood, TokenStep
<1>7. ASSUME NEW r \in Reqs, RequestFails(r) PROVE StepGood
  BY <1>0, <1>7, ProcEnds DEF RequestFails, StepGood, TokenStep
<1>8. ASSUME NEW r \in Reqs, Logout(r) PROVE StepGood
  <2>1. Ending("logout", NoLocals, clock) \in Locals
        /\ Ending("logout", NoLocals, clock).snap \subseteq Begun
    BY <1>0 DEF Ending, Locals, NoLocals, Kinds, Begun
  <2>2. ProcsAfter
    BY <1>0, <1>8, <2>1, ProcMoves DEF Logout, Places
  <2> QED
    BY <1>0, <1>8, <2>2 DEF Logout, StepGood, TokenStep
<1>9. CASE AdminFind
  <2>1. [NoLocals EXCEPT !.row = user] \in Locals /\ [NoLocals EXCEPT !.row = user].snap = {}
    BY <1>0 DEF Locals, NoLocals
  <2>2. ProcsAfter
    BY <1>0, <1>9, <2>1, ProcMoves DEF AdminFind, Places
  <2> QED
    BY <1>0, <1>9, <2>2 DEF AdminFind, StepGood, TokenStep
<1>10. CASE AdminForce
  <2>1. Ending("delete", mem[Admin], clock) \in Locals
        /\ Ending("delete", mem[Admin], clock).snap \subseteq Begun
    BY <1>0 DEF Ending, Locals, Kinds, Begun
  <2>2. ProcsAfter
    BY <1>0, <1>10, <2>1, ProcMoves DEF AdminForce, Places
  <2> QED
    BY <1>0, <1>10, <2>2 DEF AdminForce, StepGood, TokenStep
<1>11. CASE WorkerTick
  <2>1. frozen' \in Times
    BY <1>0, <1>11 DEF WorkerTick, WorkerNow
  <2>2. ProcsAfter
    BY <1>0, <1>11, ProcMoves, ProcsStay DEF WorkerTick, Places
  <2> QED
    BY <1>0, <1>11, <2>1, <2>2 DEF WorkerTick, StepGood, TokenStep
<1>12. CASE WorkerForce
  <2>1. Ending("auto", NoLocals, frozen) \in Locals
        /\ Ending("auto", NoLocals, frozen).snap \subseteq Begun
    BY <1>0 DEF Ending, Locals, NoLocals, Kinds, Begun
  <2>2. ProcsAfter
    BY <1>0, <1>12, <2>1, ProcMoves DEF WorkerForce, Places
  <2> QED
    BY <1>0, <1>12, <2>2 DEF WorkerForce, StepGood, TokenStep
<1>13. ASSUME NEW p \in Procs, RevokeRows(p) PROVE StepGood
  <2> DEFINE row == IF mem[p].kind = "delete" THEN mem[p].row ELSE user
             m == [mem[p] EXCEPT !.snap = @ \cap LiveTokens, !.row = row]
  <2>1. m \in Locals /\ m.snap \subseteq Begun
    BY <1>0, <1>c DEF Locals
  <2>2. Goto(p, "save", m)
    BY <1>13 DEF RevokeRows
  <2> HIDE DEF m
  <2>3. ProcsAfter
    BY <1>0, <2>1, <2>2, ProcMoves DEF Places
  <2> QED
    BY <1>0, <1>13, <2>3 DEF RevokeRows, StepGood, TokenStep
<1>14. ASSUME NEW p \in Procs, EndCommit(p) PROVE StepGood
  <2>1. Ends
    BY <1>14, <1>c DEF EndCommit, Ends
  <2>2. user' \in UserRows
    <3>1. [mem[p].row EXCEPT !.deleted = TRUE] \in UserRows
      BY <1>c DEF UserRows
    <3> QED
      BY <1>0, <1>14, <1>c, <3>1, SaveType DEF EndCommit
  <2>3. ProcsAfter
    BY <1>14, ProcEnds DEF EndCommit
  <2> QED
    BY <1>0, <1>14, <2>1, <2>2, <2>3 DEF EndCommit, StepGood, TokenStep
<1>15. CASE Request
  <2>1. user' \in UserRows
    BY <1>0, <1>15 DEF Request, UserRows
  <2> QED
    BY <1>0, <1>15, <2>1, ProcsStay DEF Request, StepGood, TokenStep
<1>16. CASE Cleanup
  <2>1. Deletes
    <3> DEFINE Old(i) == \/ Live(i) /\ token[i].iat + RefreshLife < clock - Grace
                         \/ token[i].status = "REVOKED" /\ token[i].ended < clock - Grace
               S == {i \in Tokens : Old(i)}
    <3>1. token' = [i \in Tokens |->
                      IF Old(i) THEN [token[i] EXCEPT !.status = "gone"] ELSE token[i]]
      BY <1>16 DEF Cleanup
    <3>2. S \subseteq Begun
      BY DEF Live, Begun
    <3>3. \A i \in Tokens : i \in S <=> Old(i)
      OBVIOUS
    <3> HIDE DEF Old
    <3>4. token' = [i \in Tokens |->
                      IF i \in S THEN [token[i] EXCEPT !.status = "gone"] ELSE token[i]]
      BY <3>1, <3>3
    <3> QED
      BY <3>2, <3>4 DEF Deletes
  <2> QED
    BY <1>0, <1>16, <2>1, ProcsStay DEF Cleanup, StepGood, TokenStep
<1>17. CASE Restart
  <2>1. ProcsAfter
    BY <1>0, <1>17 DEF Restart, ProcsAfter, Places
  <2>2. frozen' \in Times /\ crashes' \in 0 .. MaxCrashes
    BY <1>0, <1>17 DEF Restart, Times
  <2> QED
    BY <1>0, <1>17, <2>1, <2>2 DEF Restart, StepGood, TokenStep
<1>18. CASE Tick
  <2>1. clock' \in Times
    BY <1>0, <1>18 DEF Tick, Times
  <2> QED
    BY <1>0, <1>18, <2>1, ProcsStay DEF Tick, StepGood, TokenStep
<1> QED
  BY <1>0, <1>1, <1>2, <1>3, <1>4, <1>5, <1>6, <1>7, <1>8, <1>9, <1>10, <1>11, <1>12, <1>13,
     <1>14, <1>15, <1>16, <1>17, <1>18 DEF Next, ReqStep, WorkerStep

(* A new live token of a family takes the place of the only live one there *)
(* was, and a login's family is new with it.                               *)
LEMMA AccountNext == ASSUME AccountInv, [Next]_vars PROVE AccountInv'
<1>1. CASE UNCHANGED vars
  BY <1>1 DEF vars, AccountInv, TypeOK, WorksOnRows, FamilyHasBegun, OneLivePerFamily, Begun,
     LiveTokens, Live, Times
<1>2. CASE Next
  <2>1. StepGood /\ RowsAfter
    BY <1>2, StepIsGood, TokenEffect DEF StepGood
  <2>2. TypeOK'
    BY <2>1 DEF StepGood, ProcsAfter, RowsAfter, TypeOK, Times, Locals
  <2>3. WorksOnRows'
    BY <2>1 DEF StepGood, ProcsAfter, RowsAfter, WorksOnRows
  <2>4. LiveTokens' \subseteq Begun' /\ LiveTokens \subseteq Begun
    BY DEF LiveTokens, Live, Begun
  <2>5. /\ \A i \in Begun : token[i].family \in Begun
        /\ \A i, j \in LiveTokens : token[i].family = token[j].family => i = j
    BY DEF AccountInv, FamilyHasBegun, OneLivePerFamily
  <2>6. \A i \in Begun' : token'[i].family \in Begun'
    BY <2>1, <2>4, <2>5 DEF RowsAfter
  <2>7. ASSUME NEW i \in LiveTokens', NEW j \in LiveTokens', token'[i].family = token'[j].family
        PROVE  i = j
    <3>1. \A k \in LiveTokens' : k \in Begun => /\ k \in LiveTokens
                                              /\ token'[k].family = token[k].family
      BY <2>1 DEF RowsAfter
    <3>2. CASE i \in Begun /\ j \in Begun
      BY <2>5, <2>7, <3>1, <3>2
    <3>3. ASSUME NEW k \in LiveTokens', NEW n \in LiveTokens', n \notin Begun, k \in Begun,
                 token'[k].family = token'[n].family
          PROVE  FALSE
      <4>1. /\ Begun' = Begun \cup {n}
            /\ \/ token'[n].family = n
               \/ \E old \in LiveTokens :
                    old \notin LiveTokens' /\ token'[n].family = token[old].family
        BY <2>1, <2>4, <3>3 DEF RowsAfter
      <4>2. CASE token'[n].family = n
        BY <2>5, <3>1, <3>3, <4>2
      <4>3. CASE \E old \in LiveTokens :
                   old \notin LiveTokens' /\ token'[n].family = token[old].family
        BY <2>5, <3>1, <3>3, <4>3
      <4> QED
        BY <4>1, <4>2, <4>3
    <3>4. CASE i \notin Begun /\ j \notin Begun
      BY <2>1, <2>4, <2>7, <3>4 DEF RowsAfter
    <3> QED
      BY <2>7, <3>2, <3>3, <3>4
  <2>8. FamilyHasBegun' /\ OneLivePerFamily'
    BY <2>6, <2>7 DEF FamilyHasBegun, OneLivePerFamily
  <2> QED
    BY <2>2, <2>3, <2>8 DEF AccountInv
<1> QED
  BY <1>1, <1>2

-----------------------------------------------------------------------------
(* Theorems *)

(* All of it together is an invariant of every behaviour.                  *)
LEMMA AccountAlways == Spec => []AccountInv
<1>1. Init => AccountInv
  BY AccountInit
<1>2. AccountInv /\ [Next]_vars => AccountInv'
  BY AccountNext
<1> QED
  BY <1>1, <1>2, PTL DEF Spec

(* No variable leaves its type.                                            *)
THEOREM TypeCorrect == Spec => []TypeOK
<1>1. AccountInv => TypeOK
  BY DEF AccountInv
<1> QED
  BY <1>1, AccountAlways, PTL

(* However many refreshes with the same token, logins, logouts, clean-ups  *)
(* and restarts overlap, a family has one live token at most.              *)
THEOREM OneLive == Spec => []OneLivePerFamily
<1>1. AccountInv => OneLivePerFamily
  BY DEF AccountInv
<1> QED
  BY <1>1, AccountAlways, PTL

(* No step gives a live token to a family that had none left.              *)
LEMMA NoRevival ==
  ASSUME AccountInv, [Next]_vars, NEW f \in Tokens, Started(f), Over(f)
  PROVE  Over(f)'
<1>1. CASE UNCHANGED vars
  BY <1>1 DEF vars, Over, LiveTokens, Live
<1>2. CASE Next
  <2>1. RowsAfter
    BY <1>2, StepIsGood, TokenEffect DEF StepGood
  <2>2. SUFFICES ASSUME NEW i \in LiveTokens', token'[i].family = f
                 PROVE  FALSE
    BY DEF Over
  <2>3. f \in Begun /\ i \in Begun'
    BY DEF Started, Begun, LiveTokens, Live
  <2>4. CASE i \in Begun
    BY <2>1, <2>2, <2>4 DEF RowsAfter, Over
  <2>5. CASE i \notin Begun
    <3>1. \/ token'[i].family = i
          \/ \E old \in LiveTokens : token'[i].family = token[old].family
      BY <2>1, <2>3, <2>5 DEF RowsAfter
    <3> QED
      BY <2>2, <2>3, <2>5, <3>1 DEF Over
  <2> QED
    BY <2>4, <2>5
<1> QED
  BY <1>1, <1>2

(* A session that is over stays over: no rotation, login or save that was  *)
(* under way when it ended brings a token of its family back to life.      *)
THEOREM EndedStaysEnded == Spec => FamilyEndsForGood
<1>1. AccountInv /\ [Next]_vars => [\A f \in Tokens : Started(f) /\ Over(f) => Over(f)']_vars
  BY NoRevival
<1> QED
  BY <1>1, AccountAlways, PTL DEF Spec, FamilyEndsForGood

=============================================================================
