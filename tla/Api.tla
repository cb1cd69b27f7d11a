-------------------------------- MODULE Api --------------------------------
(***************************************************************************)
(* The front door of the HTTP API, for one name and one client: the rate   *)
(* limiters, registration, the access tokens that login and refresh issue, *)
(* the checks of the Auth middleware one by one, the jti that logout       *)
(* revokes, and the cut-off that deletion and auto-logout set in Redis.    *)
(*                                                                         *)
(* Each check reads another store at another moment: the token itself, the *)
(* jti's key, the cut-off, the row of users.  The clock counts ticks; a    *)
(* token's times and the cut-off are whole seconds of Second ticks.  The   *)
(* refresh tokens are the module Accounts.                                 *)
(***************************************************************************)
EXTENDS Integers, FiniteSets

CONSTANTS
  Reqs,              \* requests that can be under way at once
  Tokens,            \* access tokens that can be issued, a set of numbers
  Second,            \* ticks in a second
  TokenLife,         \* JWT_EXPIRY_MINUTES, in ticks
  Window,            \* the minute of the limiters, in ticks
  Limit,             \* how many a window lets through, by key of a limiter
  MaxBusy, MaxClock, MaxSends, MaxRuns    \* bounds of the model

Public == {"register", "login", "refresh"}
Protected == {"call", "logout"}
Paths == Public \cup Protected
Keys == Public \cup {"user"}
Actors == {"admin", "worker"}

ASSUME ApiTokensAssumption == Tokens \subseteq Nat \ {0}
ASSUME SecondsAssumption ==
  Second \in Nat \ {0} /\ TokenLife \in Nat \ {0} /\ Window \in Nat \ {0}
ASSUME LimitAssumption == Limit \in [Keys -> Nat \ {0}]
ASSUME ApiBoundsAssumption ==
  /\ MaxBusy \in Nat /\ MaxSends \in Nat /\ MaxRuns \in Nat
  /\ MaxClock \in Nat /\ Second <= MaxClock

VARIABLES
  clock,
  user,      \* the row of users: "none", "active" or "deleted"
  token,     \* the access tokens issued: [iat, exp], 0 when not issued
  revoked,   \* jwt:revoked:<jti>: when the key lapses, 0 when never set
  cutoff,    \* user:<id>:force_logout_before, 0 when not set
  hits,      \* the lists of the two limiters; a hit has its number and time
  frozen,    \* what the worker takes for now, 0 before its first tick
  pc, mem,   \* the requests and their locals
  admin, worker,    \* where DeleteUser and the worker's logoutUser are
  sends, runs,      \* bounded counters
  log        \* history: what was let through and refused, and deletions

vars == <<clock, user, token, revoked, cutoff, hits, frozen, pc, mem,
          admin, worker, sends, runs, log>>

NoLocals == [path |-> "call", tok |-> 0, now |-> 0, row |-> "none",
             late |-> FALSE, gone |-> 0]

Init ==
  /\ clock = Second
  /\ user \in {"none", "active"}
  /\ token = [i \in Tokens |-> [iat |-> 0, exp |-> 0]]
  /\ revoked = [i \in Tokens |-> 0]
  /\ cutoff = 0 /\ frozen = 0
  /\ hits = [k \in Keys |-> {}]
  /\ pc = [r \in Reqs |-> "idle"] /\ mem = [r \in Reqs |-> NoLocals]
  /\ admin = "idle" /\ worker = "idle"
  /\ sends = 0 /\ runs = [a \in Actors |-> 0]
  /\ log = [let |-> [k \in Keys |-> {}], out |-> [k \in Keys |-> {}],
            gone |-> 0, undone |-> FALSE, setBack |-> FALSE]

Goto(r, l, m) == pc' = [pc EXCEPT ![r] = l] /\ mem' = [mem EXCEPT ![r] = m]
Done(r) == Goto(r, "idle", NoLocals)

(* Bound: at most MaxBusy of them are under way at once. *)
Busy ==
  Cardinality({r \in Reqs : pc[r] # "idle"}) + (IF admin = "idle" THEN 0 ELSE 1)
    + (IF worker = "idle" THEN 0 ELSE 1)

-----------------------------------------------------------------------------
(* The limiters *)

(* What allow keeps of a list: the hits of the last window.  Only their    *)
(* number decides, so that a list is the set of its hits.                  *)
Kept(k) == {h \in hits[k] : clock - h.at < Window}

Hit(k) == [n |-> Cardinality(log.let[k]) + 1, at |-> clock]

(* Mutant: the limit is compared one too far. *)
FitsOneMore(k) == Cardinality(Kept(k)) <= Limit[k]

Fits(k) == Cardinality(Kept(k)) < Limit[k]

Enter(k) ==
  /\ Fits(k)
  /\ hits' = [hits EXCEPT ![k] = Kept(k) \cup {Hit(k)}]
  /\ log' = [log EXCEPT !.let[k] = @ \cup {Hit(k)}]

(* Mutant: a refused request counts as well. *)
RefuseCounting(k) ==
  /\ ~Fits(k)
  /\ hits' = [hits EXCEPT ![k] = Kept(k) \cup {Hit(k)}]
  /\ log' = [log EXCEPT !.out[k] = @ \cup {clock}]

Refuse(k) ==
  /\ ~Fits(k)
  /\ hits' = [hits EXCEPT ![k] = Kept(k)]
  /\ log' = [log EXCEPT !.out[k] = @ \cup {clock}]

-----------------------------------------------------------------------------
(* Register, login, refresh: RateLimitPublic, then the use case *)

Starts(r) == pc[r] = "idle" /\ Busy < MaxBusy /\ sends < MaxSends /\ sends' = sends + 1

ArrivePublic(r, path) ==
  /\ Starts(r)
  /\ \/ Enter(path) /\ Goto(r, "open", [NoLocals EXCEPT !.path = path])
     \/ Refuse(path) /\ UNCHANGED <<pc, mem>>
  /\ UNCHANGED <<clock, user, token, revoked, cutoff, frozen, admin, worker, runs>>

(* emailOrUsernameExists looks at deleted rows too. *)
RegisterFind(r) ==
  /\ pc[r] = "open" /\ mem[r].path = "register"
  /\ IF user = "none" THEN Goto(r, "create", mem[r]) ELSE Done(r)
  /\ UNCHANGED <<clock, user, token, revoked, cutoff, hits, frozen, admin, worker,
                 sends, runs, log>>

(* The INSERT: the unique index refuses a name that is there by now. *)
RegisterCreate(r) ==
  /\ pc[r] = "create"
  /\ user' = IF user = "none" THEN "active" ELSE user
  /\ Done(r)
  /\ UNCHANGED <<clock, token, revoked, cutoff, hits, frozen, admin, worker, sends,
                 runs, log>>

(* Login's and refresh's look at the user.  A refresh has some token.      *)
FindActive(r) ==
  /\ pc[r] = "open" /\ mem[r].path \in {"login", "refresh"}
  /\ mem[r].path = "refresh" => \E i \in Tokens : token[i].exp > 0
  /\ IF user = "active"
     THEN Goto(r, "issue", [mem[r] EXCEPT !.row = user, !.now = clock])
     ELSE Done(r)
  /\ UNCHANGED <<clock, user, token, revoked, cutoff, hits, frozen, admin, worker,
                 sends, runs, log>>

Floor(t) == t - (t % Second)

(* NumericDate cuts both times to seconds. *)
Issue(now) == [iat |-> Floor(now), exp |-> Floor(now + TokenLife)]

(* Users.Update writes back every column of the row that was read. *)
Save(row) ==
  /\ user' = row
  /\ log' = [log EXCEPT !.undone = @ \/ (user = "deleted" /\ row # "deleted")]

(* The transaction's commit.  Login takes its time anew, refresh does not. *)
IssueCommit(r) ==
  /\ pc[r] = "issue"
  /\ \E i \in Tokens, now \in mem[r].now .. clock :
       /\ token[i].exp = 0 /\ \A j \in Tokens : token[j].exp = 0 => i <= j
       /\ mem[r].path = "refresh" => now = mem[r].now
       /\ token' = [token EXCEPT ![i] = Issue(now)]
  /\ Save(mem[r].row)
  /\ Done(r)
  /\ UNCHANGED <<clock, revoked, cutoff, hits, frozen, admin, worker, sends, runs>>

(* A store does not answer, or a transaction is rolled back. *)
RequestFails(r) ==
  /\ pc[r] \in {"create", "issue", "parsed", "unrevoked", "timely", "revoke", "save"}
  /\ Done(r)
  /\ UNCHANGED <<clock, user, token, revoked, cutoff, hits, frozen, admin, worker,
                 sends, runs, log>>

-----------------------------------------------------------------------------
(* A protected request: Auth, UserRateLimit, then the handler *)

RevokedNow(i) == revoked[i] > clock

(* JWTService.Parse *)
Parse(i) == clock < token[i].exp

ArriveProtected(r, path, i) ==
  /\ Starts(r) /\ Parse(i)
  /\ Goto(r, "parsed", [NoLocals EXCEPT !.path = path, !.tok = i,
                                        !.late = revoked[i] > 0, !.gone = log.gone])
  /\ UNCHANGED <<clock, user, token, revoked, cutoff, hits, frozen, admin, worker,
                 runs, log>>

IsRevoked(r) ==
  /\ pc[r] = "parsed"
  /\ IF RevokedNow(mem[r].tok) THEN Done(r) ELSE Goto(r, "unrevoked", mem[r])
  /\ UNCHANGED <<clock, user, token, revoked, cutoff, hits, frozen, admin, worker,
                 sends, runs, log>>

(* Mutant: the comparison is the wrong way round. *)
IssuedInTimeSwapped(i) == cutoff = 0 \/ token[i].iat <= cutoff

(* GetForceLogoutBefore and IssuedAt.Before *)
IssuedInTime(i) == cutoff = 0 \/ token[i].iat >= cutoff

CutOff(r) ==
  /\ pc[r] = "unrevoked"
  /\ IF IssuedInTime(mem[r].tok) THEN Goto(r, "timely", mem[r]) ELSE Done(r)
  /\ UNCHANGED <<clock, user, token, revoked, cutoff, hits, frozen, admin, worker,
                 sends, runs, log>>

(* FindByID and SetAuth *)
FindUser(r) ==
  /\ pc[r] = "timely"
  /\ IF user = "active" THEN Goto(r, "known", mem[r]) ELSE Done(r)
  /\ UNCHANGED <<clock, user, token, revoked, cutoff, hits, frozen, admin, worker,
                 sends, runs, log>>

UserLimit(r) ==
  /\ pc[r] = "known"
  /\ \/ Enter("user") /\ Goto(r, "in", mem[r])
     \/ Refuse("user") /\ Done(r)
  /\ UNCHANGED <<clock, user, token, revoked, cutoff, frozen, admin, worker, sends, runs>>

(* A handler that is not modelled here; ActivityUpdate touches a column. *)
Call(r) ==
  /\ pc[r] = "in" /\ mem[r].path = "call"
  /\ Done(r)
  /\ UNCHANGED <<clock, user, token, revoked, cutoff, hits, frozen, admin, worker,
                 sends, runs, log>>

(* Logout: refused when the token has lapsed on the way. *)
LogoutStart(r) ==
  /\ pc[r] = "in" /\ mem[r].path = "logout"
  /\ IF clock < token[mem[r].tok].exp
     THEN Goto(r, "revoke", [mem[r] EXCEPT !.now = clock])
     ELSE Done(r)
  /\ UNCHANGED <<clock, user, token, revoked, cutoff, hits, frozen, admin, worker,
                 sends, runs, log>>

(* Mutant: the key's life is given in whole seconds. *)
TTLSeconds(r) == Floor(token[mem[r].tok].exp - mem[r].now)

(* in.Exp.Sub(now) *)
TTL(r) == token[mem[r].tok].exp - mem[r].now

(* The key, which lives from when Redis sets it. *)
Revoke(r) ==
  /\ pc[r] = "revoke"
  /\ revoked' = [revoked EXCEPT ![mem[r].tok] = clock + TTL(r)]
  /\ Goto(r, "touch", [mem[r] EXCEPT !.now = 0])
  /\ UNCHANGED <<clock, user, token, cutoff, hits, frozen, admin, worker, sends, runs, log>>

(* The transaction reads the user and writes the row back. *)
LogoutRead(r) ==
  /\ pc[r] = "touch"
  /\ Goto(r, "save", [mem[r] EXCEPT !.row = user])
  /\ UNCHANGED <<clock, user, token, revoked, cutoff, hits, frozen, admin, worker,
                 sends, runs, log>>

LogoutSave(r) ==
  /\ pc[r] = "save"
  /\ Save(mem[r].row)
  /\ Done(r)
  /\ UNCHANGED <<clock, token, revoked, cutoff, hits, frozen, admin, worker, sends, runs>>

-----------------------------------------------------------------------------
(* Who else ends sessions *)

Runs(a) == Busy < MaxBusy /\ runs[a] < MaxRuns /\ runs' = [runs EXCEPT ![a] = @ + 1]

(* DeleteUser: its checks, then its time and the cut-off. *)
AdminForce ==
  /\ admin = "found"
  /\ cutoff' = Floor(clock)
  /\ admin' = "forced"
  /\ UNCHANGED <<clock, user, token, revoked, hits, frozen, pc, mem, worker, sends, runs, log>>

AdminFind ==
  /\ admin = "idle" /\ user = "active" /\ Runs("admin")
  /\ admin' = "found"
  /\ UNCHANGED <<clock, user, token, revoked, cutoff, hits, frozen, pc, mem, worker,
                 sends, log>>

(* The transaction, or its failure once the cut-off is set. *)
AdminCommit ==
  /\ admin = "forced" /\ admin' = "idle"
  /\ \/ user' = "deleted" /\ log' = [log EXCEPT !.gone = cutoff]
     \/ UNCHANGED <<user, log>>
  /\ UNCHANGED <<clock, token, revoked, cutoff, hits, frozen, pc, mem, worker, sends, runs>>

(* The worker finds the user inactive; its now is that of its first tick. *)
WorkerTick ==
  /\ worker = "idle" /\ user = "active" /\ Runs("worker")
  /\ frozen' = IF frozen = 0 THEN clock ELSE frozen
  /\ worker' = "found"
  /\ UNCHANGED <<clock, user, token, revoked, cutoff, hits, pc, mem, admin, sends, log>>

WorkerForce ==
  /\ worker = "found"
  /\ cutoff' = Floor(frozen)
  /\ log' = [log EXCEPT !.setBack = @ \/ Floor(frozen) < cutoff]
  /\ worker' = "forced"
  /\ UNCHANGED <<clock, user, token, revoked, hits, frozen, pc, mem, admin, sends, runs>>

(* Its transaction reads the row and, unless deleted, writes it back. *)
WorkerRead ==
  /\ worker = "forced"
  /\ worker' = IF user = "active" THEN "save" ELSE "idle"
  /\ UNCHANGED <<clock, user, token, revoked, cutoff, hits, frozen, pc, mem, admin,
                 sends, runs, log>>

WorkerSave ==
  /\ worker = "save" /\ worker' = "idle"
  /\ Save("active")
  /\ UNCHANGED <<clock, token, revoked, cutoff, hits, frozen, pc, mem, admin, sends, runs>>

Tick ==
  /\ clock < MaxClock
  /\ clock' = clock + 1
  /\ UNCHANGED <<user, token, revoked, cutoff, hits, frozen, pc, mem, admin, worker,
                 sends, runs, log>>

ReqStep(r) ==
  \/ \E path \in Public : ArrivePublic(r, path)
  \/ \E path \in Protected, i \in Tokens : ArriveProtected(r, path, i)
  \/ RegisterFind(r) \/ RegisterCreate(r)
  \/ FindActive(r) \/ IssueCommit(r)
  \/ IsRevoked(r) \/ CutOff(r) \/ FindUser(r) \/ UserLimit(r)
  \/ Call(r)
  \/ LogoutStart(r) \/ Revoke(r) \/ LogoutRead(r) \/ LogoutSave(r)
  \/ RequestFails(r)

Next ==
  \/ \E r \in Reqs : ReqStep(r)
  \/ AdminFind \/ AdminForce \/ AdminCommit
  \/ WorkerTick \/ WorkerForce \/ WorkerRead \/ WorkerSave
  \/ Tick

Spec == Init /\ [][Next]_vars

-----------------------------------------------------------------------------
(* Properties *)

Times == 0 .. MaxClock + TokenLife
Rows == {"none", "active", "deleted"}
Ids == Tokens \cup {0}
Places == {"idle", "open", "create", "issue", "parsed", "unrevoked", "timely", "known",
           "in", "revoke", "touch", "save"}

Hits == [n : Nat \ {0}, at : Times]

(* Every variable stays in its type, and no limiter holds more than its    *)
(* limit (rate_limit.go:36).                                               *)
TypeOK ==
  /\ clock \in 0 .. MaxClock /\ cutoff \in Times /\ frozen \in Times
  /\ user \in Rows
  /\ token \in [Tokens -> [iat : Times, exp : Times]]
  /\ revoked \in [Tokens -> Times]
  /\ hits \in [Keys -> SUBSET Hits]
  /\ \A k \in Keys : Cardinality(hits[k]) <= Limit[k]
  /\ pc \in [Reqs -> Places]
  /\ mem \in [Reqs -> [path : Paths, tok : Ids, now : Times, row : Rows,
                       late : BOOLEAN, gone : Times]]
  /\ admin \in {"idle", "found", "forced"}
  /\ worker \in {"idle", "found", "forced", "save"}
  /\ sends \in 0 .. MaxSends /\ runs \in [Actors -> 0 .. MaxRuns]
  /\ log \in [let : [Keys -> SUBSET Hits], out : [Keys -> SUBSET Times], gone : Times,
              undone : BOOLEAN, setBack : BOOLEAN]

Within(k, t) == {h \in log.let[k] : t - Window < h.at /\ h.at <= t}

(* However requests, refusals and the passing of time mix, no window of a  *)
(* minute lets more than the limit through, and who is refused is refused  *)
(* because a full minute's worth was let through (rate_limit.go:23-42).    *)
RateKept ==
  \A k \in Keys :
    /\ \A h \in log.let[k] : Cardinality(Within(k, h.at)) <= Limit[k]
    /\ \A t \in log.out[k] : Cardinality(Within(k, t)) >= Limit[k]

(* A request that comes with a jti that logout revoked is let in only if   *)
(* its token lapsed while Auth looked at it: the key never lapses first    *)
(* (auth_logout.go:25, store.go:50-55).                                    *)
RevokedStaysOut ==
  \A r \in Reqs :
    pc[r] = "in" /\ mem[r].late => clock >= token[mem[r].tok].exp

(* A request that comes after DeleteUser is done is let in only if another *)
(* writer's stale row undid the deletion, and then only with a token of    *)
(* the deletion's second or later, unless the worker set the cut-off back  *)
(* (auth.go:40-57, admin.go:104-126, auth_session.go:39).                  *)
DeletedStaysOut ==
  \A r \in Reqs :
    pc[r] = "in" /\ mem[r].gone > 0 =>
      log.undone /\ (token[mem[r].tok].iat >= mem[r].gone \/ log.setBack)
=============================================================================
