------------------------------ MODULE Accounts ------------------------------
(***************************************************************************)
(* The sessions of one user: the rows of refresh_tokens, what the row of   *)
(* users says of deletion and activity, and everybody who writes them:     *)
(* requests of the browser (login, refresh, logout, any other API call),   *)
(* the auto-logout worker, the clean-up and an administrator who deletes   *)
(* the user.                                                               *)
(*                                                                         *)
(* A transaction is cut where it reads, locks and commits (READ COMMITTED: *)
(* a statement sees what is committed when it starts, an UPDATE waits for  *)
(* the locks on its rows and evaluates its WHERE again).  Users.Update is  *)
(* GORM's Save: it writes back every column of the row that was read.      *)
(***************************************************************************)
EXTENDS Integers, FiniteSets

CONSTANTS
  Reqs,              \* requests of the browser that can be under way at once
  Worker, Admin,
  Tokens,            \* identities of refresh tokens, a set of numbers
  RefreshLife,       \* REFRESH_TOKEN_EXPIRY_DAYS
  Grace,             \* REFRESH_TOKEN_CLEANUP_GRACE_DAYS
  SessionTimeout,    \* SESSION_TIMEOUT_MINUTES
  MaxBusy, MaxClock, MaxCrashes    \* bounds of the model

Procs == Reqs \cup {Worker, Admin}

ASSUME TokensAssumption == Tokens \subseteq Nat \ {0}
ASSUME LivesAssumption ==
  RefreshLife \in Nat /\ Grace \in Nat /\ SessionTimeout \in Nat
ASSUME AccountBoundsAssumption ==
  MaxBusy \in Nat /\ MaxClock \in Nat \ {0} /\ MaxCrashes \in Nat
ASSUME ActorsAssumption == Worker \notin Reqs /\ Admin \notin Reqs \cup {Worker}

VARIABLES
  clock,
  user,      \* the row of users: deleted, active (last_activity_at)
  token,     \* the rows of refresh_tokens
  frozen,    \* AutoLogoutUseCase.Now: 0 while nil, then what it always answers
  crashes,
  pc, mem    \* where each process is, and its locals

vars == <<clock, user, token, frozen, crashes, pc, mem>>

NoRow == [status |-> "none", family |-> 0, iat |-> 0, ended |-> 0]
NoLocals == [tok |-> 0, now |-> 0, kind |-> "none", snap |-> {},
             row |-> [deleted |-> FALSE, active |-> 0]]

Init ==
  /\ clock = 1
  /\ user = [deleted |-> FALSE, active |-> 1]
  /\ token = [i \in Tokens |-> NoRow]
  /\ frozen = 0 /\ crashes = 0
  /\ pc = [p \in Procs |-> "idle"]
  /\ mem = [p \in Procs |-> NoLocals]

-----------------------------------------------------------------------------
(* Rows *)

Live(i) == token[i].status = "ACTIVE"
LiveTokens == {i \in Tokens : Live(i)}
Expired(i, now) == token[i].iat + RefreshLife <= now

(* RefreshToken.IsActive *)
IsActive(i, now) == Live(i) /\ ~Expired(i, now)

(* The rows p's open transaction has locked. *)
Holds(p) ==
  CASE pc[p] = "rotated" -> {mem[p].tok}
    [] pc[p] = "save" -> mem[p].snap
    [] OTHER -> {}

Free(p, S) == \A q \in Procs \ {p} : Holds(q) \cap S = {}

Unused(i) ==
  token[i].status = "none" /\ \A j \in Tokens : token[j].status = "none" => i <= j

(* Mutant: the two times NewRefreshToken takes are swapped. *)
NewRowSwapped(family, now) ==
  [status |-> "ACTIVE", family |-> family, iat |-> now + RefreshLife, ended |-> 0]

NewRow(family, now) == [status |-> "ACTIVE", family |-> family, iat |-> now, ended |-> 0]

EndRows(S, now) ==
  [i \in Tokens |->
     IF i \in S THEN [token[i] EXCEPT !.status = "REVOKED", !.ended = now] ELSE token[i]]

(* touchUserActivity: the row that was read goes back with a new activity. *)
SaveActive(row, now) == user' = [row EXCEPT !.active = now]

Goto(p, l, m) == pc' = [pc EXCEPT ![p] = l] /\ mem' = [mem EXCEPT ![p] = m]
(* Bound: at most MaxBusy operations are under way at once. *)
Starts(p) ==
  pc[p] = "idle" /\ Cardinality({q \in Procs : pc[q] # "idle"}) < MaxBusy

Done(p) == Goto(p, "idle", NoLocals)

(* Auth lets a request in: some access token was issued.  (How long it     *)
(* works depends on its own expiry, not on these rows.)                    *)
LoggedInOnce == \E i \in Tokens : token[i].status # "none"

-----------------------------------------------------------------------------
(* Login *)

LoginFind(r) ==
  /\ Starts(r) /\ ~user.deleted
  /\ Goto(r, "login", [NoLocals EXCEPT !.row = user])
  /\ UNCHANGED <<clock, user, token, frozen, crashes>>

(* Mutant: all sessions of the user are one family. *)
LoginCommitOneFamily(r) ==
  /\ pc[r] = "login"
  /\ \E i \in Tokens :
       /\ Unused(i)
       /\ token' = [token EXCEPT ![i] = NewRow(1, clock)]
  /\ SaveActive(mem[r].row, clock)
  /\ Done(r)
  /\ UNCHANGED <<clock, frozen, crashes>>

(* The transaction: login log, user row, a token of a new family. *)
LoginCommit(r) ==
  /\ pc[r] = "login"
  /\ \E i \in Tokens :
       /\ Unused(i)
       /\ token' = [token EXCEPT ![i] = NewRow(i, clock)]
  /\ SaveActive(mem[r].row, clock)
  /\ Done(r)
  /\ UNCHANGED <<clock, frozen, crashes>>

-----------------------------------------------------------------------------
(* Refresh.  Any token handed out so far can come: two tabs share the      *)
(* cookie, and an answer that is lost leaves the browser with the old one. *)

RefreshFind(r, i) ==
  /\ Starts(r)
  /\ LET m == [NoLocals EXCEPT !.tok = i, !.now = clock]
     IN \/ /\ token[i].status = "REVOKED"
           /\ Goto(r, "revoke", [m EXCEPT !.kind = "reuse",
                     !.snap = {j \in LiveTokens : token[j].family = token[i].family}])
        \/ /\ Live(i) /\ Expired(i, clock)
           /\ Goto(r, "expire", m)
        \/ /\ IsActive(i, clock)
           /\ Goto(r, "rotate", m)
  /\ UNCHANGED <<clock, user, token, frozen, crashes>>

RefreshExpire(r) ==
  /\ pc[r] = "expire" /\ Free(r, {mem[r].tok})
  /\ token' = EndRows({mem[r].tok} \cap LiveTokens, mem[r].now)
  /\ Done(r)
  /\ UNCHANGED <<clock, user, frozen, crashes>>

(* FindByTokenHashForUpdate, then the user.  A deleted user's token is     *)
(* revoked in a transaction that ErrUnauthorized rolls back.               *)
RotateLock(r) ==
  /\ pc[r] = "rotate" /\ Free(r, {mem[r].tok})
  /\ IF IsActive(mem[r].tok, mem[r].now) /\ ~user.deleted
     THEN Goto(r, "rotated", [mem[r] EXCEPT !.row = user])
     ELSE Done(r)
  /\ UNCHANGED <<clock, user, token, frozen, crashes>>

(* Mutant: the old token is not marked. *)
RotateCommitUnmarked(r) ==
  /\ pc[r] = "rotated"
  /\ \E i \in Tokens :
       /\ Unused(i)
       /\ token' = [token EXCEPT ![i] = NewRow(token[mem[r].tok].family, mem[r].now)]
  /\ SaveActive(mem[r].row, mem[r].now)
  /\ Done(r)
  /\ UNCHANGED <<clock, frozen, crashes>>

(* The new token of the same family, MarkUsed (which fails unless the old  *)
(* one is live), the user row.                                             *)
RotateCommit(r) ==
  /\ pc[r] = "rotated" /\ Live(mem[r].tok)
  /\ \E i \in Tokens :
       /\ Unused(i)
       /\ token' = [EndRows({mem[r].tok}, mem[r].now) EXCEPT
                      ![i] = NewRow(token[mem[r].tok].family, mem[r].now)]
  /\ SaveActive(mem[r].row, mem[r].now)
  /\ Done(r)
  /\ UNCHANGED <<clock, frozen, crashes>>

(* A read, a write or the commit fails: the transaction is rolled back. *)
RequestFails(r) ==
  /\ pc[r] \in {"login", "rotated"}
  /\ Done(r)
  /\ UNCHANGED <<clock, user, token, frozen, crashes>>

(* CleanupExpiredRefreshTokens *)
Cleanup ==
  LET Old(i) == \/ Live(i) /\ token[i].iat + RefreshLife < clock - Grace
                \/ token[i].status = "REVOKED" /\ token[i].ended < clock - Grace
  IN /\ \E i \in Tokens : Old(i)
     /\ Free(Worker, {i \in Tokens : Old(i)})
     /\ token' = [i \in Tokens |->
                    IF Old(i) THEN [token[i] EXCEPT !.status = "gone"] ELSE token[i]]
     /\ UNCHANGED <<clock, user, frozen, crashes, pc, mem>>

-----------------------------------------------------------------------------
(* What ends all sessions of the user, or one family: an UPDATE of the     *)
(* rows that were live when it started, then the rest of the transaction.  *)

RevokeRows(p) ==
  /\ pc[p] = "revoke" /\ Free(p, mem[p].snap)
  /\ Goto(p, "save",
          [mem[p] EXCEPT !.snap = @ \cap LiveTokens,
                         !.row = IF mem[p].kind = "delete" THEN mem[p].row ELSE user])
  /\ UNCHANGED <<clock, user, token, frozen, crashes>>

EndCommit(p) ==
  /\ pc[p] = "save"
  /\ token' = EndRows(mem[p].snap, mem[p].now)
  /\ CASE mem[p].kind = "logout" -> SaveActive(mem[p].row, mem[p].now)
       [] mem[p].kind = "delete" -> user' = [mem[p].row EXCEPT !.deleted = TRUE]
       [] mem[p].kind = "auto" /\ ~mem[p].row.deleted -> SaveActive(mem[p].row, mem[p].now)
       [] OTHER -> UNCHANGED user
  /\ Done(p)
  /\ UNCHANGED <<clock, frozen, crashes>>

Ending(kind, m, now) == [m EXCEPT !.kind = kind, !.now = now, !.snap = LiveTokens]

(* The jti and the sockets are seen to before the transaction starts.      *)
Logout(r) ==
  /\ Starts(r) /\ LoggedInOnce
  /\ Goto(r, "revoke", Ending("logout", NoLocals, clock))
  /\ UNCHANGED <<clock, user, token, frozen, crashes>>

AdminFind ==
  /\ Starts(Admin) /\ ~user.deleted
  /\ Goto(Admin, "force", [NoLocals EXCEPT !.row = user])
  /\ UNCHANGED <<clock, user, token, frozen, crashes>>

AdminForce ==
  /\ pc[Admin] = "force"
  /\ Goto(Admin, "revoke", Ending("delete", mem[Admin], clock))
  /\ UNCHANGED <<clock, user, token, frozen, crashes>>

(* The first tick of the worker sets Now for all later ones. *)
WorkerNow == IF frozen = 0 THEN clock ELSE frozen

WorkerTick ==
  /\ Starts(Worker)
  /\ frozen' = WorkerNow
  /\ IF ~user.deleted /\ user.active < WorkerNow - SessionTimeout
     THEN Goto(Worker, "force", NoLocals)
     ELSE UNCHANGED <<pc, mem>>
  /\ UNCHANGED <<clock, user, token, crashes>>

WorkerForce ==
  /\ pc[Worker] = "force"
  /\ Goto(Worker, "revoke", Ending("auto", NoLocals, frozen))
  /\ UNCHANGED <<clock, user, token, frozen, crashes>>

-----------------------------------------------------------------------------
(* What else writes the user row *)

(* Any other request that Auth lets in: ActivityUpdate writes the column,   *)
(* where the user is not deleted.                                          *)
Request ==
  /\ LoggedInOnce /\ ~user.deleted
  /\ user' = [user EXCEPT !.active = clock]
  /\ UNCHANGED <<clock, token, frozen, crashes, pc, mem>>

-----------------------------------------------------------------------------
(* The process stops and starts again: open transactions are rolled back,  *)
(* and the use case of the worker is a new one.                            *)
Restart ==
  /\ crashes < MaxCrashes
  /\ crashes' = crashes + 1
  /\ pc' = [p \in Procs |-> "idle"] /\ mem' = [p \in Procs |-> NoLocals]
  /\ frozen' = 0
  /\ UNCHANGED <<clock, user, token>>

Tick ==
  /\ clock < MaxClock
  /\ clock' = clock + 1
  /\ UNCHANGED <<user, token, frozen, crashes, pc, mem>>

ReqStep(r) ==
  \/ LoginFind(r)
  \/ LoginCommit(r)
  \/ RefreshExpire(r)
  \/ RotateLock(r)
  \/ RotateCommit(r)
  \/ RequestFails(r)
  \/ Logout(r)
  \/ \E i \in Tokens : RefreshFind(r, i)

WorkerStep == WorkerTick \/ WorkerForce \/ RevokeRows(Worker) \/ EndCommit(Worker)

Next ==
  \/ \E r \in Reqs : ReqStep(r)
  \/ \E p \in Reqs \cup {Admin} : RevokeRows(p) \/ EndCommit(p)
  \/ Request
  \/ AdminFind \/ AdminForce
  \/ WorkerStep
  \/ Cleanup
  \/ Restart \/ Tick

Spec == Init /\ [][Next]_vars

(* What is under way goes on, the worker polls and time passes.  Strong    *)
(* fairness for the worker: row locks are granted in the order they were   *)
(* asked for.                                                              *)
Continues(p) ==
  /\ pc[p] # "idle"
  /\ RevokeRows(p) \/ EndCommit(p) \/ (p \in Reqs /\ ReqStep(p))

FairSpec ==
  /\ Spec
  /\ WF_vars(Tick) /\ SF_vars(WorkerStep) /\ WF_vars(AdminForce)
  /\ \A p \in Reqs \cup {Admin} : WF_vars(Continues(p))

-----------------------------------------------------------------------------
(* Properties *)

Times == 0 .. MaxClock
UserRows == [deleted : BOOLEAN, active : Times]
TokenStatus == {"ACTIVE", "REVOKED"}
TokenRows == [status : TokenStatus \cup {"none", "gone"},
              family : Tokens \cup {0}, iat : Times, ended : Times]
Places == {"idle", "login", "expire", "rotate", "rotated", "revoke", "save", "force"}
Kinds == {"none", "logout", "delete", "auto", "reuse"}

(* Every variable stays in its type. *)
TypeOK ==
  /\ clock \in Times /\ frozen \in Times
  /\ user \in UserRows /\ token \in [Tokens -> TokenRows]
  /\ crashes \in 0 .. MaxCrashes
  /\ pc \in [Procs -> Places]
  /\ mem \in [Procs -> [tok : Tokens \cup {0}, now : Times, kind : Kinds,
                        snap : SUBSET Tokens, row : UserRows]]

(* At most one token of a family is live, however many refreshes with the  *)
(* same token run at once (auth_refresh.go:79-115).                        *)
OneLivePerFamily ==
  \A i, j \in LiveTokens : token[i].family = token[j].family => i = j

Started(f) == token[f].status # "none"
Over(f) == \A i \in LiveTokens : token[i].family # f

(* A family whose session has ended, by logout, deletion, auto-logout,     *)
(* expiry or a reused token, never has a live token again: a rotation that *)
(* was on its way finds its token revoked (auth_refresh.go:84).            *)
FamilyEndsForGood ==
  [][\A f \in Tokens : Started(f) /\ Over(f) => Over(f)']_vars

(* auto_logout.go:14, env.go:28: who does nothing for SessionTimeout is    *)
(* logged out.                                                             *)
Idle == ~user.deleted /\ LiveTokens # {} /\ user.active + SessionTimeout < clock

IdleLoggedOut == Idle ~> ~Idle
=============================================================================
