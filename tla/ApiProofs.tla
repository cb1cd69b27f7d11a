----------------------------- MODULE ApiProofs -----------------------------
(***************************************************************************)
(* Proofs about Api: for any number of requests and tokens, any limits,    *)
(* any lifetimes and any length of a second, no window lets too many       *)
(* through, and what Auth lets in is neither revoked nor a deleted user's  *)
(* old token.                                                              *)
(*                                                                         *)
(* A step moves at most one request (Moves), touches at most one limiter's *)
(* list (LimitStep), and changes what is shared in one of few ways (Quiet  *)
(* or one of the writers); each invariant is about those parts.            *)
(***************************************************************************)
EXTENDS Api, FiniteSetTheorems, TLAPS

USE ApiTokensAssumption, SecondsAssumption, LimitAssumption, ApiBoundsAssumption

Locals == [path : Paths, tok : Ids, now : Times, row : Rows, late : BOOLEAN, gone : Times]

(* Where a request works on the token it came with.                        *)
Checked == {"parsed", "unrevoked", "timely", "known", "in", "revoke"}

(* The times of the shared state are times that have passed.               *)
Passed ==
  /\ Second <= clock /\ frozen <= clock /\ cutoff <= Floor(clock)
  /\ frozen = 0 \/ Second <= frozen
  /\ \A i \in Tokens : token[i].exp <= clock + TokenLife
  /\ worker = "found" => frozen > 0
  /\ admin = "forced" => cutoff > 0

(* A request that Auth looks at came with a token that was issued, and its *)
(* locals hold the times they were taken at.                               *)
Carries(r) ==
  /\ pc[r] \in Checked => mem[r].tok \in Tokens /\ token[mem[r].tok].exp > 0
  /\ pc[r] = "issue" => Second <= mem[r].now /\ mem[r].now <= clock
  /\ pc[r] = "revoke" =>
       /\ mem[r].now <= clock /\ mem[r].now < token[mem[r].tok].exp
       /\ token[mem[r].tok].exp <= mem[r].now + TokenLife

(* A list holds hits that were let through, which are finitely many.       *)
Counted == \A k \in Keys : IsFiniteSet(log.let[k]) /\ hits[k] \subseteq log.let[k]

TypeInv == TypeOK /\ Passed /\ Counted /\ \A r \in Reqs : Carries(r)

-----------------------------------------------------------------------------
(* The clock and whole seconds *)

(* Cutting a time to whole seconds: never later, never before a second     *)
(* that has passed, and in the order of the times.                         *)
LEMMA FloorFacts ==
  ASSUME NEW t \in Nat
  PROVE  /\ Floor(t) \in Nat /\ Floor(t) <= t
         /\ Second <= t => Second <= Floor(t)
  BY DEF Floor

(* Earlier times are cut to earlier seconds.                               *)
LEMMA FloorMonotone ==
  ASSUME NEW t \in Nat, NEW u \in Nat, t <= u
  PROVE  Floor(t) <= Floor(u)
  BY DEF Floor

(* The clock is a time, and so is the second it is in.                     *)
LEMMA ClockFacts ==
  ASSUME TypeOK
  PROVE  clock \in Nat /\ clock \in Times /\ Floor(clock) \in Times /\ Times \subseteq Nat
<1>1. clock \in Nat /\ clock <= MaxClock /\ MaxClock \in Nat
  BY DEF TypeOK
<1>2. Floor(clock) \in Nat /\ Floor(clock) <= clock
  BY <1>1, FloorFacts
<1> QED
  BY <1>1, <1>2 DEF Times

(* A new token lapses after it is issued, and in time.                     *)
LEMMA IssueFacts ==
  ASSUME TypeOK, NEW now \in Nat, Second <= now, now <= clock
  PROVE  /\ Issue(now) \in [iat : Times, exp : Times]
         /\ Issue(now).exp > 0 /\ Issue(now).exp <= clock + TokenLife
<1>1. now + TokenLife \in Nat /\ Second <= now + TokenLife /\ clock <= MaxClock /\ clock \in Nat
  BY DEF TypeOK
<1>2. /\ Floor(now) \in Nat /\ Floor(now) <= now
      /\ Floor(now + TokenLife) \in Nat /\ Floor(now + TokenLife) <= now + TokenLife
      /\ Second <= Floor(now + TokenLife)
  BY <1>1, FloorFacts
<1>3. Floor(now) \in Times /\ Floor(now + TokenLife) \in Times
  BY <1>1, <1>2 DEF Times
<1> QED
  BY <1>1, <1>2, <1>3 DEF Issue

-----------------------------------------------------------------------------
(* The limiters *)

LimitStep ==
  \/ hits' = hits /\ log'.let = log.let /\ log'.out = log.out
  \/ UNCHANGED clock /\ \E k \in Keys : Enter(k) \/ Refuse(k)

(* What is let through is finite, and so is a list.                        *)
LEMMA KeptFacts ==
  ASSUME TypeOK, Counted, NEW k \in Keys
  PROVE  /\ Kept(k) \subseteq hits[k] /\ IsFiniteSet(Kept(k)) /\ Cardinality(Kept(k)) \in Nat
         /\ IsFiniteSet(hits[k]) /\ Cardinality(Kept(k)) <= Cardinality(hits[k])
         /\ Cardinality(hits[k]) \in Nat /\ Cardinality(log.let[k]) \in Nat
         /\ Hit(k) \in Hits
<1>1. Kept(k) \subseteq hits[k]
  BY DEF Kept
<1>2. IsFiniteSet(log.let[k]) /\ hits[k] \subseteq log.let[k]
  BY DEF Counted
<1>3. IsFiniteSet(hits[k])
  BY <1>2, FS_Subset
<1>4. IsFiniteSet(Kept(k)) /\ Cardinality(Kept(k)) <= Cardinality(hits[k])
  BY <1>1, <1>3, FS_Subset
<1>5. Cardinality(Kept(k)) \in Nat /\ Cardinality(hits[k]) \in Nat /\ Cardinality(log.let[k]) \in Nat
  BY <1>2, <1>3, <1>4, FS_CardinalityType
<1>6. Hit(k) \in Hits
  BY <1>5, ClockFacts DEF Hit, Hits
<1> QED
  BY <1>1, <1>2, <1>3, <1>4, <1>5, <1>6

(* A hit that is let through is added to the list, within the limit.       *)
LEMMA EnterFacts ==
  ASSUME TypeOK, Counted, NEW k \in Keys, Enter(k)
  PROVE  /\ hits' = [hits EXCEPT ![k] = Kept(k) \cup {Hit(k)}]
         /\ log'.let = [log.let EXCEPT ![k] = log.let[k] \cup {Hit(k)}]
         /\ log'.out = log.out /\ log'.gone = log.gone
         /\ log'.undone = log.undone /\ log'.setBack = log.setBack
         /\ IsFiniteSet(Kept(k) \cup {Hit(k)})
         /\ Cardinality(Kept(k) \cup {Hit(k)}) <= Limit[k]
<1>1. IsFiniteSet(Kept(k)) /\ Cardinality(Kept(k)) \in Nat
  BY KeptFacts
<1>2. /\ IsFiniteSet(Kept(k) \cup {Hit(k)})
      /\ Cardinality(Kept(k) \cup {Hit(k)}) <= Cardinality(Kept(k)) + 1
  <2>1. IsFiniteSet(Kept(k) \cup {Hit(k)})
    BY <1>1, FS_AddElement
  <2>2. CASE Hit(k) \in Kept(k)
    BY <2>1, <2>2, <1>1, FS_AddElement
  <2>3. CASE Hit(k) \notin Kept(k)
    BY <2>1, <2>3, <1>1, FS_AddElement
  <2> QED
    BY <2>1, <2>2, <2>3
<1>3. Cardinality(Kept(k)) < Limit[k] /\ Limit[k] \in Nat
  BY DEF Enter, Fits
<1>4. Cardinality(Kept(k) \cup {Hit(k)}) \in Nat
  BY <1>2, FS_CardinalityType
<1>5. Cardinality(Kept(k) \cup {Hit(k)}) <= Limit[k]
  BY <1>1, <1>2, <1>3, <1>4
<1> QED
  BY <1>2, <1>5 DEF Enter, TypeOK

(* A refusal drops the old hits and is remembered by its time.             *)
LEMMA RefuseFacts ==
  ASSUME TypeOK, Counted, NEW k \in Keys, Refuse(k)
  PROVE  /\ hits' = [hits EXCEPT ![k] = Kept(k)]
         /\ log'.out = [log.out EXCEPT ![k] = log.out[k] \cup {clock}]
         /\ log'.let = log.let /\ log'.gone = log.gone
         /\ log'.undone = log.undone /\ log'.setBack = log.setBack
         /\ Limit[k] <= Cardinality(Kept(k))
  BY KeptFacts DEF Refuse, TypeOK, Fits

(* Whatever a step does to the limiters, their lists stay lists of hits    *)
(* that were let through, within their limits.                             *)
LEMMA LimitType ==
  ASSUME TypeOK, Counted, LimitStep
  PROVE  /\ hits' \in [Keys -> SUBSET Hits]
         /\ \A k \in Keys : Cardinality(hits'[k]) <= Limit[k]
         /\ log'.let \in [Keys -> SUBSET Hits] /\ log'.out \in [Keys -> SUBSET Times]
         /\ Counted'
<1>1. CASE hits' = hits /\ log'.let = log.let /\ log'.out = log.out
  BY <1>1 DEF TypeOK, Counted
<1>t. /\ hits \in [Keys -> SUBSET Hits] /\ log.let \in [Keys -> SUBSET Hits]
      /\ log.out \in [Keys -> SUBSET Times]
      /\ \A k \in Keys : Cardinality(hits[k]) <= Limit[k]
  BY DEF TypeOK
<1>2. ASSUME NEW k \in Keys, Enter(k)
      PROVE  /\ hits' \in [Keys -> SUBSET Hits]
             /\ \A q \in Keys : Cardinality(hits'[q]) <= Limit[q]
             /\ log'.let \in [Keys -> SUBSET Hits] /\ log'.out \in [Keys -> SUBSET Times]
             /\ Counted'
  <2>1. /\ Kept(k) \cup {Hit(k)} \in SUBSET Hits
        /\ log.let[k] \cup {Hit(k)} \in SUBSET Hits
        /\ Kept(k) \cup {Hit(k)} \subseteq log.let[k] \cup {Hit(k)}
    BY <1>t, KeptFacts DEF Counted
  <2>2. IsFiniteSet(log.let[k] \cup {Hit(k)})
    BY FS_AddElement DEF Counted
  <2>3. /\ hits' = [hits EXCEPT ![k] = Kept(k) \cup {Hit(k)}]
        /\ log'.let = [log.let EXCEPT ![k] = log.let[k] \cup {Hit(k)}]
        /\ log'.out = log.out /\ Cardinality(Kept(k) \cup {Hit(k)}) <= Limit[k]
    BY <1>2, EnterFacts
  <2>4. hits' \in [Keys -> SUBSET Hits] /\ log'.let \in [Keys -> SUBSET Hits]
    BY <1>t, <2>1, <2>3
  <2>5. \A q \in Keys : Cardinality(hits'[q]) <= Limit[q]
    BY <1>t, <2>3
  <2>6. Counted'
    BY <1>t, <2>1, <2>2, <2>3 DEF Counted
  <2> QED
    BY <1>t, <2>3, <2>4, <2>5, <2>6
<1>3. ASSUME NEW k \in Keys, Refuse(k)
      PROVE  /\ hits' \in [Keys -> SUBSET Hits]
             /\ \A q \in Keys : Cardinality(hits'[q]) <= Limit[q]
             /\ log'.let \in [Keys -> SUBSET Hits] /\ log'.out \in [Keys -> SUBSET Times]
             /\ Counted'
  <2>1. /\ Kept(k) \subseteq hits[k] /\ Cardinality(Kept(k)) \in Nat
        /\ Cardinality(hits[k]) \in Nat /\ Cardinality(Kept(k)) <= Cardinality(hits[k])
    BY KeptFacts
  <2>2. log.out[k] \cup {clock} \in SUBSET Times
    BY <1>t, ClockFacts
  <2>3. /\ hits' = [hits EXCEPT ![k] = Kept(k)] /\ log'.let = log.let
        /\ log'.out = [log.out EXCEPT ![k] = log.out[k] \cup {clock}]
    BY <1>3, RefuseFacts
  <2>4. hits' \in [Keys -> SUBSET Hits] /\ log'.out \in [Keys -> SUBSET Times]
    BY <1>t, <2>1, <2>2, <2>3
  <2>5. Cardinality(Kept(k)) <= Limit[k]
    BY <1>t, <2>1
  <2>6. \A q \in Keys : Cardinality(hits'[q]) <= Limit[q]
    BY <1>t, <2>3, <2>5
  <2>7. Counted'
    BY <1>t, <2>1, <2>3 DEF Counted
  <2> QED
    BY <1>t, <2>3, <2>4, <2>6, <2>7
<1> QED
  BY <1>1, <1>2, <1>3 DEF LimitStep

(* Every hit is numbered in its turn, and what a list dropped is older     *)
(* than a window.                                                          *)
Numbered(k) == \A h \in log.let[k] : h.at <= clock /\ h.n <= Cardinality(log.let[k])
Dropped(k) == \A h \in log.let[k] \ hits[k] : clock - h.at >= Window

RateInv == RateKept /\ \A k \in Keys : Numbered(k) /\ Dropped(k)

(* The window that ends now holds what the list keeps.                     *)
LEMMA WithinNow ==
  ASSUME TypeOK, Counted, NEW k \in Keys, Numbered(k), Dropped(k)
  PROVE  Within(k, clock) = Kept(k)
<1>1. hits[k] \subseteq log.let[k] /\ clock \in Nat
  BY ClockFacts DEF Counted
<1>2. \A h \in log.let[k] : h.at \in Nat
  BY ClockFacts DEF TypeOK, Hits
<1> QED
  BY <1>1, <1>2 DEF Within, Kept, Numbered, Dropped

(* A window holds finitely many hits.                                      *)
LEMMA WithinFinite ==
  ASSUME Counted, NEW k \in Keys, NEW t
  PROVE  IsFiniteSet(Within(k, t)) /\ Cardinality(Within(k, t)) \in Nat
<1>1. Within(k, t) \subseteq log.let[k] /\ IsFiniteSet(log.let[k])
  BY DEF Within, Counted
<1>2. IsFiniteSet(Within(k, t))
  BY <1>1, FS_Subset
<1> QED
  BY <1>2, FS_CardinalityType

(* No time but the clock's moves on, and no list gains a hit.              *)
LEMMA RateWaits ==
  ASSUME TypeOK, Counted, RateInv, clock' \in Nat, clock <= clock',
         hits' = hits, log'.let = log.let, log'.out = log.out
  PROVE  RateInv'
<1>1. \A k \in Keys : \A h \in log.let[k] : h.at \in Nat
  BY ClockFacts DEF TypeOK, Hits
<1>2. \A k \in Keys : Numbered(k)' /\ Dropped(k)'
  BY <1>1, ClockFacts DEF RateInv, Numbered, Dropped
<1>3. \A k, t : Within(k, t)' = Within(k, t)
  BY DEF Within
<1>4. RateKept'
  BY <1>3 DEF RateInv, RateKept
<1> QED
  BY <1>2, <1>4 DEF RateInv

(* A hit that is let through: the windows that ended before are what they  *)
(* were, and the one that ends now holds the list with the new hit.        *)
LEMMA RateEnters ==
  ASSUME TypeOK, Counted, RateInv, UNCHANGED clock, NEW k \in Keys, Enter(k), Counted'
  PROVE  RateInv'
<1>1. /\ hits' = [hits EXCEPT ![k] = Kept(k) \cup {Hit(k)}]
      /\ log'.let = [log.let EXCEPT ![k] = log.let[k] \cup {Hit(k)}] /\ log'.out = log.out
      /\ Cardinality(Kept(k) \cup {Hit(k)}) <= Limit[k]
  BY EnterFacts
<1>2. /\ hits \in [Keys -> SUBSET Hits] /\ log.let \in [Keys -> SUBSET Hits]
      /\ log.out \in [Keys -> SUBSET Times]
      /\ \A q \in Keys : \A h \in log.let[q] : h.at \in Nat /\ h.n \in Nat
      /\ \A q \in Keys : \A t \in log.out[q] : t \in Nat
  BY ClockFacts DEF TypeOK, Hits
<1>3. clock \in Nat /\ \A q \in Keys : IsFiniteSet(log.let[q]) /\ Cardinality(log.let[q]) \in Nat
  BY ClockFacts, KeptFacts DEF Counted
<1>4. Hit(k).at = clock /\ Hit(k).n = Cardinality(log.let[k]) + 1
  BY DEF Hit
<1>5. Hit(k) \notin log.let[k]
  BY <1>2, <1>3, <1>4 DEF RateInv, Numbered
<1>6. Cardinality(log.let[k] \cup {Hit(k)}) = Cardinality(log.let[k]) + 1
  BY <1>3, <1>5, FS_AddElement
<1>7. ASSUME NEW q \in Keys
      PROVE  Numbered(q)' /\ Dropped(q)'
  <2>1. CASE q = k
    <3>1. log'.let[k] = log.let[k] \cup {Hit(k)} /\ hits'[k] = Kept(k) \cup {Hit(k)}
      BY <1>1, <1>2
    <3>2. Numbered(k) /\ Dropped(k)
      BY DEF RateInv
    <3>3. Numbered(k)'
      BY <1>2, <1>3, <1>4, <1>6, <3>1, <3>2 DEF Numbered
    <3>4. \A h \in log.let[k] \ Kept(k) : clock - h.at >= Window
      BY <1>2, <1>3, <3>2 DEF Dropped, Kept
    <3>5. Dropped(k)'
      BY <1>3, <3>1, <3>4 DEF Dropped
    <3> QED
      BY <2>1, <3>3, <3>5
  <2>2. CASE q # k
    BY <1>1, <1>2, <2>2, <1>7 DEF RateInv, Numbered, Dropped
  <2> QED
    BY <2>1, <2>2
<1>8. \A q, t : Within(q, t) \subseteq Within(q, t)'
  BY <1>1, <1>2 DEF Within
<1>9. ASSUME NEW q \in Keys, NEW h \in log'.let[q]
      PROVE  Cardinality(Within(q, h.at)') <= Limit[q]
  <2>1. CASE q # k
    <3>1. Within(q, h.at)' = Within(q, h.at) /\ h \in log.let[q]
      BY <1>1, <1>2, <2>1, <1>9 DEF Within
    <3> QED
      BY <3>1, <1>9 DEF RateInv, RateKept
  <2>2. CASE q = k /\ h.at = clock
    <3>1. Within(k, clock) = Kept(k)
      BY WithinNow DEF RateInv
    <3>2. clock - Window < clock
      BY <1>3
    <3>3. Within(k, clock)' = Kept(k) \cup {Hit(k)}
      BY <1>1, <1>2, <1>3, <1>4, <3>1, <3>2 DEF Within
    <3> QED
      BY <2>2, <3>3, <1>1
  <2>3. CASE q = k /\ h.at # clock
    <3>1. h \in log.let[k]
      BY <1>1, <1>2, <1>4, <2>3, <1>9
    <3>2. h.at < clock
      BY <1>2, <1>3, <2>3, <3>1 DEF RateInv, Numbered
    <3>3. Within(k, h.at)' = Within(k, h.at)
      BY <1>1, <1>2, <1>3, <1>4, <3>1, <3>2 DEF Within
    <3> QED
      BY <2>3, <3>1, <3>3 DEF RateInv, RateKept
  <2> QED
    BY <2>1, <2>2, <2>3
<1>10. ASSUME NEW q \in Keys, NEW t \in log'.out[q]
       PROVE  Cardinality(Within(q, t)') >= Limit[q]
  <2>1. t \in log.out[q]
    BY <1>1, <1>10
  <2>2. Cardinality(Within(q, t)) >= Limit[q]
    BY <1>10, <2>1 DEF RateInv, RateKept
  <2>3. IsFiniteSet(Within(q, t)') /\ Cardinality(Within(q, t)') \in Nat
    <3>1. Within(q, t)' \subseteq log'.let[q] /\ IsFiniteSet(log'.let[q])
      BY <1>10 DEF Within, Counted
    <3>2. IsFiniteSet(Within(q, t)')
      BY <3>1, FS_Subset
    <3> QED
      BY <3>2, FS_CardinalityType
  <2>4. Cardinality(Within(q, t)) <= Cardinality(Within(q, t)')
    BY <1>8, <1>10, <2>3, FS_Subset
  <2>5. Cardinality(Within(q, t)) \in Nat /\ Limit[q] \in Nat
    BY <1>10, WithinFinite
  <2> QED
    BY <2>2, <2>3, <2>4, <2>5
<1>11. RateKept'
  BY <1>9, <1>10 DEF RateKept
<1> QED
  BY <1>7, <1>11 DEF RateInv

(* A refusal: the window that ends now is full.                            *)
LEMMA RateRefuses ==
  ASSUME TypeOK, Counted, RateInv, UNCHANGED clock, NEW k \in Keys, Refuse(k)
  PROVE  RateInv'
<1>1. /\ hits' = [hits EXCEPT ![k] = Kept(k)] /\ log'.let = log.let
      /\ log'.out = [log.out EXCEPT ![k] = log.out[k] \cup {clock}]
      /\ Limit[k] <= Cardinality(Kept(k))
  BY RefuseFacts
<1>2. /\ hits \in [Keys -> SUBSET Hits] /\ log.let \in [Keys -> SUBSET Hits]
      /\ log.out \in [Keys -> SUBSET Times] /\ clock \in Nat
      /\ \A q \in Keys : \A h \in log.let[q] : h.at \in Nat
  BY ClockFacts DEF TypeOK, Hits
<1>3. ASSUME NEW q \in Keys
      PROVE  Numbered(q)' /\ Dropped(q)'
  <2>1. Numbered(q) /\ Dropped(q)
    BY <1>3 DEF RateInv
  <2>2. Numbered(q)'
    BY <1>1, <2>1 DEF Numbered
  <2>3. CASE q = k
    <3>1. hits'[k] = Kept(k)
      BY <1>1, <1>2
    <3> QED
      BY <1>1, <1>2, <2>1, <2>2, <2>3, <3>1 DEF Dropped, Kept
  <2>4. CASE q # k
    BY <1>1, <1>2, <2>1, <2>2, <2>4 DEF Dropped
  <2> QED
    BY <2>3, <2>4
<1>4. \A q, t : Within(q, t)' = Within(q, t)
  BY <1>1 DEF Within
<1>5. Within(k, clock) = Kept(k)
  BY WithinNow DEF RateInv
<1>6. ASSUME NEW q \in Keys, NEW t \in log'.out[q]
      PROVE  Cardinality(Within(q, t)) >= Limit[q]
  <2>1. CASE t \in log.out[q]
    BY <1>6, <2>1 DEF RateInv, RateKept
  <2>2. CASE t \notin log.out[q]
    <3>1. q = k /\ t = clock
      BY <1>1, <1>2, <1>6, <2>2
    <3>2. Cardinality(Kept(k)) \in Nat /\ Limit[k] \in Nat
      BY KeptFacts
    <3> QED
      BY <1>1, <1>5, <3>1, <3>2
  <2> QED
    BY <2>1, <2>2
<1>7. RateKept'
  BY <1>1, <1>4, <1>6 DEF RateInv, RateKept
<1> QED
  BY <1>3, <1>7 DEF RateInv

(* However the limiters are used, no window lets too many through.         *)
LEMMA RateStep ==
  ASSUME TypeOK, Counted, RateInv, LimitStep, clock' \in Nat, clock <= clock'
  PROVE  RateInv'
  BY RateWaits, RateEnters, RateRefuses, LimitType DEF LimitStep

-----------------------------------------------------------------------------
(* How a request moves *)

(* The steps of Auth, one check each; elsewhere a request takes nothing    *)
(* from a check, and forgets or keeps what it came after.                  *)
Allowed(r, l, m) ==
  \/ l \notin Checked \cup {"issue"} /\ (m.gone = 0 \/ m.gone = mem[r].gone)
  \/ l = "issue" /\ m.gone = mem[r].gone /\ m.now = clock
  \/ /\ l = "parsed" /\ m.tok \in Tokens /\ clock < token[m.tok].exp
     /\ m.late = (revoked[m.tok] > 0) /\ m.gone = log.gone
  \/ l = "unrevoked" /\ pc[r] = "parsed" /\ m = mem[r] /\ ~RevokedNow(m.tok)
  \/ l = "timely" /\ pc[r] = "unrevoked" /\ m = mem[r] /\ IssuedInTime(m.tok)
  \/ l = "known" /\ pc[r] = "timely" /\ m = mem[r] /\ user = "active"
  \/ l = "in" /\ pc[r] = "known" /\ m = mem[r]
  \/ /\ l = "revoke" /\ pc[r] = "in" /\ m = [mem[r] EXCEPT !.now = clock]
     /\ clock < token[m.tok].exp

Moves ==
  \/ UNCHANGED <<pc, mem>>
  \/ \E r \in Reqs, l \in Places, m \in Locals : Goto(r, l, m) /\ Allowed(r, l, m)

(* Locals stay locals when one of them is set.                             *)
LEMMA LocalsFacts ==
  /\ NoLocals \in Locals /\ NoLocals.gone = 0
  /\ \A m \in Locals, t \in Times, x \in Rows :
       /\ [m EXCEPT !.now = t] \in Locals /\ [m EXCEPT !.row = x] \in Locals
       /\ [m EXCEPT !.row = x, !.now = t] \in Locals
  /\ \A p \in Public : /\ [NoLocals EXCEPT !.path = p] \in Locals
                       /\ [NoLocals EXCEPT !.path = p].gone = 0
  /\ \A p \in Protected, i \in Tokens, b \in BOOLEAN, t \in Times :
       [NoLocals EXCEPT !.path = p, !.tok = i, !.late = b, !.gone = t] \in Locals
<1>1. 0 \in Times /\ 0 \in Ids /\ "none" \in Rows
  BY DEF Times, Ids, Rows
<1>2. NoLocals \in Locals /\ NoLocals.gone = 0
  BY <1>1 DEF NoLocals, Locals, Paths, Protected
<1>3. ASSUME NEW m \in Locals, NEW t \in Times, NEW x \in Rows
      PROVE  /\ [m EXCEPT !.now = t] \in Locals /\ [m EXCEPT !.row = x] \in Locals
             /\ [m EXCEPT !.row = x, !.now = t] \in Locals
  BY <1>3 DEF Locals
<1>4. ASSUME NEW p \in Public
      PROVE  [NoLocals EXCEPT !.path = p] \in Locals /\ [NoLocals EXCEPT !.path = p].gone = 0
  BY <1>1, <1>4 DEF NoLocals, Locals, Paths, Protected
<1>5. ASSUME NEW p \in Protected, NEW i \in Tokens, NEW b \in BOOLEAN, NEW t \in Times
      PROVE  [NoLocals EXCEPT !.path = p, !.tok = i, !.late = b, !.gone = t] \in Locals
  BY <1>1, <1>5 DEF NoLocals, Locals, Paths, Ids
<1> QED
  BY <1>2, <1>3, <1>4, <1>5

(* A request that is done has moved.                                       *)
LEMMA DoneMoves ==
  ASSUME NEW r \in Reqs, Done(r)
  PROVE  Moves
<1>1. "idle" \in Places /\ "idle" \notin Checked \cup {"issue"}
  BY DEF Places, Checked
<1>2. NoLocals \in Locals /\ Allowed(r, "idle", NoLocals)
  BY <1>1, LocalsFacts DEF Allowed
<1> QED
  BY <1>1, <1>2 DEF Moves, Done

(* A step of a request moves it in one of these ways.                      *)
LEMMA RequestMoves ==
  ASSUME TypeOK, NEW r \in Reqs, ReqStep(r)
  PROVE  Moves
<1>0. /\ mem[r] \in Locals /\ clock \in Times /\ log.gone \in Times /\ user \in Rows
      /\ mem[r].tok \in Ids /\ mem[r].gone \in Times
  BY ClockFacts DEF TypeOK, Locals
<1>m. ASSUME NEW l \in Places, NEW m \in Locals, Goto(r, l, m), Allowed(r, l, m)
      PROVE  Moves
  BY <1>m DEF Moves
<1>d. Done(r) => Moves
  BY DoneMoves
<1>1. ASSUME NEW path \in Public, ArrivePublic(r, path)
      PROVE  Moves
  <2>1. Allowed(r, "open", [NoLocals EXCEPT !.path = path])
    BY LocalsFacts DEF Allowed, Checked
  <2> QED
    BY <1>1, <1>m, <2>1, LocalsFacts DEF ArrivePublic, Moves, Places
<1>2. ASSUME NEW path \in Protected, NEW i \in Tokens, ArriveProtected(r, path, i)
      PROVE  Moves
  <2> DEFINE m == [NoLocals EXCEPT !.path = path, !.tok = i, !.late = revoked[i] > 0,
                                   !.gone = log.gone]
  <2>1. m \in Locals
    <3>1. (revoked[i] > 0) \in BOOLEAN
      OBVIOUS
    <3> QED
      BY <1>0, <3>1, LocalsFacts, Zenon
  <2>2. m.tok = i /\ m.late = (revoked[i] > 0) /\ m.gone = log.gone
    BY DEF NoLocals
  <2>3. Goto(r, "parsed", m) /\ clock < token[i].exp
    BY <1>2 DEF ArriveProtected, Parse
  <2>4. "parsed" \in Places
    BY DEF Places
  <2> HIDE DEF m
  <2>5. Allowed(r, "parsed", m)
    BY <2>2, <2>3 DEF Allowed
  <2> QED
    BY <1>m, <2>1, <2>3, <2>4, <2>5
<1>3. CASE RegisterFind(r)
  <2>1. Allowed(r, "create", mem[r])
    BY DEF Allowed, Checked
  <2> QED
    BY <1>0, <1>3, <1>m, <1>d, <2>1 DEF RegisterFind, Places
<1>4. CASE RegisterCreate(r) \/ Call(r) \/ RequestFails(r) \/ IssueCommit(r) \/ LogoutSave(r)
  BY <1>4, <1>d DEF RegisterCreate, Call, RequestFails, IssueCommit, LogoutSave
<1>5. CASE FindActive(r)
  <2> DEFINE m == [mem[r] EXCEPT !.row = user, !.now = clock]
  <2>1. m \in Locals
    BY <1>0, LocalsFacts
  <2>2. m.gone = mem[r].gone /\ m.now = clock
    BY <1>0 DEF Locals
  <2>3. Goto(r, "issue", m) \/ Done(r)
    BY <1>5 DEF FindActive
  <2>4. "issue" \in Places
    BY DEF Places
  <2> HIDE DEF m
  <2>5. Allowed(r, "issue", m)
    BY <2>2 DEF Allowed
  <2> QED
    BY <1>m, <1>d, <2>1, <2>3, <2>4, <2>5
<1>6. CASE IsRevoked(r)
  BY <1>0, <1>6, <1>m, <1>d DEF IsRevoked, Allowed, Places
<1>7. CASE CutOff(r)
  BY <1>0, <1>7, <1>m, <1>d DEF CutOff, Allowed, Places
<1>8. CASE FindUser(r)
  BY <1>0, <1>8, <1>m, <1>d DEF FindUser, Allowed, Places
<1>9. CASE UserLimit(r)
  BY <1>0, <1>9, <1>m, <1>d DEF UserLimit, Allowed, Places
<1>10. CASE LogoutStart(r)
  <2> DEFINE m == [mem[r] EXCEPT !.now = clock]
  <2>1. m \in Locals
    BY <1>0, LocalsFacts
  <2>2. m.tok = mem[r].tok
    BY <1>0 DEF Locals
  <2>3. Done(r) \/ (Goto(r, "revoke", m) /\ pc[r] = "in" /\ clock < token[mem[r].tok].exp)
    BY <1>10 DEF LogoutStart
  <2>4. "revoke" \in Places
    BY DEF Places
  <2>5. CASE Done(r)
    BY <2>5, <1>d
  <2>6. CASE Goto(r, "revoke", m) /\ pc[r] = "in" /\ clock < token[mem[r].tok].exp
    <3>1. Allowed(r, "revoke", m)
      BY <2>2, <2>6 DEF Allowed
    <3> HIDE DEF m
    <3> QED
      BY <1>m, <2>1, <2>4, <2>6, <3>1
  <2> QED
    BY <2>3, <2>5, <2>6
<1>11. CASE Revoke(r)
  <2> DEFINE m == [mem[r] EXCEPT !.now = 0]
  <2>1. m \in Locals /\ m.gone = mem[r].gone
    <3>1. 0 \in Times
      BY DEF Times
    <3> QED
      BY <1>0, <3>1, LocalsFacts DEF Locals
  <2>2. Goto(r, "touch", m) /\ "touch" \in Places /\ "touch" \notin Checked \cup {"issue"}
    BY <1>11 DEF Revoke, Places, Checked
  <2> HIDE DEF m
  <2> QED
    BY <1>m, <2>1, <2>2 DEF Allowed
<1>12. CASE LogoutRead(r)
  <2> DEFINE m == [mem[r] EXCEPT !.row = user]
  <2>1. m \in Locals /\ m.gone = mem[r].gone
    BY <1>0, LocalsFacts DEF Locals
  <2>2. Goto(r, "save", m) /\ "save" \in Places /\ "save" \notin Checked \cup {"issue"}
    BY <1>12 DEF LogoutRead, Places, Checked
  <2> HIDE DEF m
  <2> QED
    BY <1>m, <2>1, <2>2 DEF Allowed
<1> QED
  BY <1>1, <1>2, <1>3, <1>4, <1>5, <1>6, <1>7, <1>8, <1>9, <1>10, <1>11, <1>12 DEF ReqStep

-----------------------------------------------------------------------------
(* What a step does to the shared state *)

(* It uses a limiter at most, ... *)
Quiet ==
  /\ UNCHANGED <<clock, user, token, revoked, cutoff, frozen, admin, worker, runs>>
  /\ sends' = sends \/ (sends < MaxSends /\ sends' = sends + 1)
  /\ UNCHANGED <<hits, log>> \/ \E k \in Keys : Enter(k) \/ Refuse(k)

(* ... or is the write of one of these. *)
Writes ==
  \/ \E r \in Reqs : RegisterCreate(r) \/ IssueCommit(r) \/ Revoke(r) \/ LogoutSave(r)
  \/ AdminFind \/ AdminForce \/ AdminCommit
  \/ WorkerTick \/ WorkerForce \/ WorkerRead \/ WorkerSave
  \/ Tick

(* A step of a request is one or the other.                                *)
LEMMA RequestWrites ==
  ASSUME TypeOK, NEW r \in Reqs, ReqStep(r)
  PROVE  Quiet \/ Writes
<1>0. Public \subseteq Keys /\ "user" \in Keys
  BY DEF Keys
<1>1. ASSUME NEW path \in Public, ArrivePublic(r, path)
      PROVE  Quiet
  BY <1>0, <1>1 DEF ArrivePublic, Starts, Quiet
<1>2. ASSUME NEW path \in Protected, NEW i \in Tokens, ArriveProtected(r, path, i)
      PROVE  Quiet
  BY <1>2 DEF ArriveProtected, Starts, Quiet
<1>3. CASE RegisterFind(r) \/ FindActive(r) \/ IsRevoked(r) \/ CutOff(r)
  BY <1>3 DEF RegisterFind, FindActive, IsRevoked, CutOff, Quiet
<1>4. CASE FindUser(r) \/ Call(r) \/ LogoutStart(r) \/ LogoutRead(r) \/ RequestFails(r)
  BY <1>4 DEF FindUser, Call, LogoutStart, LogoutRead, RequestFails, Quiet
<1>5. CASE UserLimit(r)
  BY <1>0, <1>5 DEF UserLimit, Quiet
<1>6. CASE RegisterCreate(r) \/ IssueCommit(r) \/ Revoke(r) \/ LogoutSave(r)
  BY <1>6 DEF Writes
<1> QED
  BY <1>1, <1>2, <1>3, <1>4, <1>5, <1>6 DEF ReqStep

(* So every step is a move of a request and one or the other.              *)
LEMMA StepParts ==
  ASSUME TypeOK, [Next]_vars
  PROVE  Moves /\ (Quiet \/ Writes)
<1>1. ASSUME NEW r \in Reqs, ReqStep(r)
      PROVE  Moves /\ (Quiet \/ Writes)
  BY <1>1, RequestMoves, RequestWrites
<1>2. CASE AdminFind \/ AdminForce \/ AdminCommit
  BY <1>2 DEF AdminFind, AdminForce, AdminCommit, Moves, Writes
<1>3. CASE WorkerTick \/ WorkerForce \/ WorkerRead \/ WorkerSave \/ Tick
  BY <1>3 DEF WorkerTick, WorkerForce, WorkerRead, WorkerSave, Tick, Moves, Writes
<1>4. CASE UNCHANGED vars
  BY <1>4 DEF vars, Moves, Quiet
<1> QED
  BY <1>1, <1>2, <1>3, <1>4 DEF Next

LogType == [let : [Keys -> SUBSET Hits], out : [Keys -> SUBSET Times], gone : Times,
            undone : BOOLEAN, setBack : BOOLEAN]

(* What both have in common: the clock never goes back, an issued token    *)
(* stays what it is, a revoked jti stays known, and the history is kept.   *)
Grows ==
  /\ clock' \in Nat /\ clock <= clock'
  /\ LimitStep
  /\ \A i \in Tokens : token[i].exp > 0 => token'[i] = token[i]
  /\ \A i \in Tokens : revoked[i] > 0 => revoked'[i] > 0
  /\ log.undone => log'.undone
  /\ log.setBack => log'.setBack
  /\ log' \in LogType

(* A limiter's own step only adds to the history.                          *)
LEMMA QuietGrows ==
  ASSUME TypeInv, Quiet
  PROVE  Grows /\ log'.gone = log.gone /\ log'.undone = log.undone /\ log'.setBack = log.setBack
<1>0. TypeOK /\ Counted /\ clock \in Nat /\ log \in LogType
  BY ClockFacts DEF TypeInv, TypeOK, LogType
<1>1. CASE UNCHANGED <<hits, log>>
  BY <1>0, <1>1 DEF Quiet, Grows, LimitStep
<1>2. ASSUME NEW k \in Keys, Enter(k) \/ Refuse(k)
      PROVE  Grows /\ log'.gone = log.gone /\ log'.undone = log.undone /\ log'.setBack = log.setBack
  <2>1. UNCHANGED <<clock, token, revoked>>
    BY DEF Quiet
  <2>2. log'.gone = log.gone /\ log'.undone = log.undone /\ log'.setBack = log.setBack
    BY <1>0, <1>2, EnterFacts, RefuseFacts
  <2>3. LimitStep
    BY <1>2, <2>1 DEF LimitStep
  <2>4. log'.let \in [Keys -> SUBSET Hits] /\ log'.out \in [Keys -> SUBSET Times]
    BY <1>0, <2>3, LimitType
  <2>5. \/ log' = [log EXCEPT !.let = log'.let]
        \/ log' = [log EXCEPT !.out = log'.out]
    BY <1>0, <1>2 DEF Enter, Refuse, LogType
  <2>6. log' \in LogType
    BY <1>0, <2>4, <2>5 DEF LogType
  <2> QED
    BY <1>0, <2>1, <2>2, <2>3, <2>6 DEF Grows
<1> QED
  BY <1>1, <1>2 DEF Quiet

(* What a save remembers.                                                  *)
LEMMA SaveFacts ==
  ASSUME TypeOK, NEW row \in Rows, Save(row)
  PROVE  /\ user' = row /\ log' \in LogType
         /\ log'.let = log.let /\ log'.out = log.out /\ log'.gone = log.gone
         /\ log'.setBack = log.setBack
         /\ log'.undone = (log.undone \/ (user = "deleted" /\ row # "deleted"))
<1>1. log \in LogType /\ (log.undone \/ (user = "deleted" /\ row # "deleted")) \in BOOLEAN
  BY DEF TypeOK, LogType
<1>2. log' = [log EXCEPT !.undone = log.undone \/ (user = "deleted" /\ row # "deleted")]
  BY DEF Save
<1> QED
  BY <1>1, <1>2 DEF Save, LogType

(* The token that is committed is the first that was not issued yet.       *)
LEMMA CommitFacts ==
  ASSUME TypeInv, NEW r \in Reqs, IssueCommit(r)
  PROVE  \E i \in Tokens, t \in [iat : Times, exp : Times] :
           /\ token[i].exp = 0 /\ token' = [token EXCEPT ![i] = t]
           /\ t.exp > 0 /\ t.exp <= clock + TokenLife
<1>1. PICK i \in Tokens, now \in mem[r].now .. clock :
        token[i].exp = 0 /\ token' = [token EXCEPT ![i] = Issue(now)]
  BY DEF IssueCommit
<1>2. TypeOK /\ Second <= mem[r].now /\ mem[r].now \in Nat /\ clock \in Nat
  BY ClockFacts DEF TypeInv, Carries, IssueCommit, TypeOK
<1>3. now \in Nat /\ Second <= now /\ now <= clock
  BY <1>2
<1>4. /\ Issue(now) \in [iat : Times, exp : Times]
      /\ Issue(now).exp > 0 /\ Issue(now).exp <= clock + TokenLife
  BY <1>2, <1>3, IssueFacts
<1> QED
  BY <1>1, <1>4

(* A key that is set lapses no earlier than its token, which was there.    *)
LEMMA RevokeFacts ==
  ASSUME TypeInv, NEW r \in Reqs, Revoke(r)
  PROVE  \E i \in Tokens, t \in Times :
           /\ revoked' = [revoked EXCEPT ![i] = t]
           /\ token[i].exp > 0 /\ token[i].exp <= t
<1>1. /\ mem[r].tok \in Tokens /\ mem[r].now \in Nat /\ mem[r].now <= clock
      /\ mem[r].now < token[mem[r].tok].exp
      /\ token[mem[r].tok].exp <= mem[r].now + TokenLife /\ token[mem[r].tok].exp \in Nat
      /\ clock \in Nat /\ clock <= MaxClock
  <2>1. TypeOK /\ pc[r] = "revoke" /\ Carries(r)
    BY DEF TypeInv, Revoke
  <2>2. mem[r].tok \in Tokens
    BY <2>1 DEF Carries, Checked
  <2>3. mem[r].now \in Nat /\ token[mem[r].tok].exp \in Nat
    BY <2>1, <2>2, ClockFacts DEF TypeOK
  <2> QED
    BY <2>1, <2>2, <2>3, ClockFacts DEF Carries, TypeOK
<1>2. clock + TTL(r) \in Times /\ token[mem[r].tok].exp <= clock + TTL(r) /\ token[mem[r].tok].exp > 0
  BY <1>1 DEF TTL, Times
<1> QED
  BY <1>1, <1>2 DEF Revoke

(* The writers keep what they do not write, and never take history back.   *)
LEMMA WritesGrow ==
  ASSUME TypeInv, Writes
  PROVE  Grows
<1>0. /\ TypeOK /\ Counted /\ clock \in Nat /\ log \in LogType /\ user \in Rows
      /\ \A r \in Reqs : mem[r].row \in Rows
      /\ token \in [Tokens -> [iat : Times, exp : Times]] /\ revoked \in [Tokens -> Times]
      /\ "active" \in Rows /\ cutoff \in Times
  BY ClockFacts DEF TypeInv, TypeOK, LogType, Rows
<1>1. ASSUME NEW r \in Reqs, RegisterCreate(r)
      PROVE  Grows
  BY <1>0, <1>1 DEF RegisterCreate, Grows, LimitStep
<1>2. ASSUME NEW r \in Reqs, IssueCommit(r)
      PROVE  Grows
  <2>1. Save(mem[r].row) /\ UNCHANGED <<clock, revoked, hits>>
    BY <1>2 DEF IssueCommit
  <2>2. \A i \in Tokens : token[i].exp > 0 => token'[i] = token[i]
    BY <1>0, <1>2, CommitFacts
  <2>3. /\ log' \in LogType /\ log'.let = log.let /\ log'.out = log.out
        /\ log'.setBack = log.setBack /\ (log.undone => log'.undone)
    BY <1>0, <2>1, SaveFacts
  <2> QED
    BY <1>0, <2>1, <2>2, <2>3 DEF Grows, LimitStep
<1>3. ASSUME NEW r \in Reqs, Revoke(r)
      PROVE  Grows
  <2>1. UNCHANGED <<clock, token, hits, log>>
    BY <1>3 DEF Revoke
  <2>2. PICK i \in Tokens, t \in Times :
          revoked' = [revoked EXCEPT ![i] = t] /\ token[i].exp > 0 /\ token[i].exp <= t
    BY <1>3, RevokeFacts
  <2>3. t \in Nat /\ token[i].exp \in Nat
    BY <1>0, ClockFacts
  <2>4. \A j \in Tokens : revoked[j] > 0 => revoked'[j] > 0
    BY <1>0, <2>2, <2>3
  <2> QED
    BY <1>0, <2>1, <2>4 DEF Grows, LimitStep
<1>4. ASSUME NEW r \in Reqs, LogoutSave(r)
      PROVE  Grows
  <2>1. Save(mem[r].row) /\ UNCHANGED <<clock, token, revoked, hits>>
    BY <1>4 DEF LogoutSave
  <2>2. /\ log' \in LogType /\ log'.let = log.let /\ log'.out = log.out
        /\ log'.setBack = log.setBack /\ (log.undone => log'.undone)
    BY <1>0, <2>1, SaveFacts
  <2> QED
    BY <1>0, <2>1, <2>2 DEF Grows, LimitStep
<1>5. CASE AdminFind \/ AdminForce \/ WorkerTick \/ WorkerRead
  BY <1>0, <1>5 DEF AdminFind, AdminForce, WorkerTick, WorkerRead, Grows, LimitStep
<1>6. CASE AdminCommit
  BY <1>0, <1>6 DEF AdminCommit, Grows, LimitStep, LogType
<1>7. CASE WorkerForce
  <2> DEFINE back == log.setBack \/ Floor(frozen) < cutoff
  <2>1. /\ log' = [log EXCEPT !.setBack = back]
        /\ back \in BOOLEAN /\ (log.setBack => back)
    BY <1>7 DEF WorkerForce
  <2>2. UNCHANGED <<clock, token, revoked, hits>>
    BY <1>7 DEF WorkerForce
  <2> HIDE DEF back
  <2>3. /\ log' \in LogType /\ log'.let = log.let /\ log'.out = log.out
        /\ log'.undone = log.undone /\ (log.setBack => log'.setBack)
    BY <1>0, <2>1 DEF LogType
  <2> QED
    BY <1>0, <2>2, <2>3 DEF Grows, LimitStep
<1>8. CASE WorkerSave
  <2>1. /\ log' \in LogType /\ log'.let = log.let /\ log'.out = log.out
        /\ log'.setBack = log.setBack /\ (log.undone => log'.undone)
    BY <1>0, <1>8, SaveFacts DEF WorkerSave
  <2> QED
    BY <1>0, <1>8, <2>1 DEF WorkerSave, Grows, LimitStep
<1>9. CASE Tick
  BY <1>0, <1>9 DEF Tick, Grows, LimitStep
<1> QED
  BY <1>1, <1>2, <1>3, <1>4, <1>5, <1>6, <1>7, <1>8, <1>9 DEF Writes

-----------------------------------------------------------------------------
(* The types *)

SharedType ==
  /\ clock \in 0 .. MaxClock /\ cutoff \in Times /\ frozen \in Times
  /\ user \in Rows
  /\ token \in [Tokens -> [iat : Times, exp : Times]]
  /\ revoked \in [Tokens -> Times]
  /\ admin \in {"idle", "found", "forced"}
  /\ worker \in {"idle", "found", "forced", "save"}
  /\ sends \in 0 .. MaxSends /\ runs \in [Actors -> 0 .. MaxRuns]

(* What is shared stays in its types, and its times are times that passed. *)
LEMMA SharedStep ==
  ASSUME TypeInv, Quiet \/ Writes
  PROVE  SharedType' /\ Passed'
<1>0. /\ SharedType /\ Passed /\ TypeOK /\ clock \in Nat /\ clock \in Times
      /\ clock <= MaxClock /\ Times \subseteq Nat
      /\ Floor(clock) \in Times /\ Second <= Floor(clock)
      /\ cutoff \in Nat /\ frozen \in Nat
      /\ \A i \in Tokens : token[i].exp \in Nat
      /\ \A r \in Reqs : mem[r].row \in Rows
  <2>1. SharedType /\ Passed /\ TypeOK
    BY DEF TypeInv, TypeOK, SharedType
  <2>2. clock \in Nat /\ clock \in Times /\ Floor(clock) \in Times /\ Times \subseteq Nat
    BY <2>1, ClockFacts
  <2>3. Second <= Floor(clock)
    BY <2>1, <2>2, FloorFacts DEF Passed
  <2>4. \A r \in Reqs : mem[r].row \in Rows
    BY <2>1 DEF TypeOK
  <2>5. clock <= MaxClock
    BY <2>1, <2>2 DEF SharedType
  <2>7. ASSUME NEW i \in Tokens
        PROVE  token[i].exp \in Nat
    <3>1. token[i] \in [iat : Times, exp : Times]
      BY <2>1, <2>7 DEF SharedType
    <3> QED
      BY <3>1, <2>2
  <2>6. cutoff \in Nat /\ frozen \in Nat
    BY <2>1, <2>2 DEF SharedType
  <2> QED
    BY <2>1, <2>2, <2>3, <2>4, <2>5, <2>6, <2>7
<1>1. CASE Quiet
  BY <1>0, <1>1 DEF Quiet, SharedType, Passed, Floor
<1>2. ASSUME NEW r \in Reqs, RegisterCreate(r)
      PROVE  SharedType' /\ Passed'
  BY <1>0, <1>2 DEF RegisterCreate, SharedType, Passed, Floor, Rows
<1>3. ASSUME NEW r \in Reqs, IssueCommit(r)
      PROVE  SharedType' /\ Passed'
  <2>1. /\ user' = mem[r].row
        /\ UNCHANGED <<clock, revoked, cutoff, frozen, admin, worker, sends, runs>>
    BY <1>3 DEF IssueCommit, Save
  <2>2. PICK i \in Tokens, t \in [iat : Times, exp : Times] :
          token' = [token EXCEPT ![i] = t] /\ t.exp <= clock + TokenLife
    BY <1>3, CommitFacts
  <2>3. SharedType'
    BY <1>0, <2>1, <2>2 DEF SharedType
  <2>4. \A j \in Tokens : token'[j].exp <= clock' + TokenLife
    BY <1>0, <2>1, <2>2 DEF SharedType, Passed
  <2> QED
    BY <1>0, <2>1, <2>3, <2>4 DEF Passed, Floor
<1>4. ASSUME NEW r \in Reqs, Revoke(r)
      PROVE  SharedType' /\ Passed'
  <2>1. UNCHANGED <<clock, user, token, cutoff, frozen, admin, worker, sends, runs>>
    BY <1>4 DEF Revoke
  <2>2. revoked' \in [Tokens -> Times]
    BY <1>0, <1>4, RevokeFacts DEF SharedType
  <2> QED
    BY <1>0, <2>1, <2>2 DEF SharedType, Passed, Floor
<1>5. ASSUME NEW r \in Reqs, LogoutSave(r)
      PROVE  SharedType' /\ Passed'
  BY <1>0, <1>5 DEF LogoutSave, Save, SharedType, Passed, Floor
<1>6. CASE AdminFind
  BY <1>0, <1>6 DEF AdminFind, Runs, Actors, SharedType, Passed, Floor
<1>7. CASE AdminForce
  BY <1>0, <1>7 DEF AdminForce, SharedType, Passed, Floor
<1>8. CASE AdminCommit
  BY <1>0, <1>8 DEF AdminCommit, SharedType, Passed, Floor, Rows
<1>9. CASE WorkerTick
  BY <1>0, <1>9 DEF WorkerTick, Runs, Actors, SharedType, Passed, Floor
<1>10. CASE WorkerForce
  <2>1. frozen <= clock /\ Second <= frozen
    BY <1>0, <1>10 DEF WorkerForce, Passed
  <2>2. Floor(frozen) <= Floor(clock) /\ Floor(frozen) \in Nat /\ Second <= Floor(frozen)
    BY <1>0, <2>1, FloorFacts, FloorMonotone
  <2>3. Floor(frozen) \in Times
    BY <1>0, <2>2 DEF Times
  <2>4. /\ cutoff' = Floor(frozen) /\ worker' = "forced"
        /\ UNCHANGED <<clock, user, token, revoked, frozen, admin, sends, runs>>
    BY <1>10 DEF WorkerForce
  <2>5. Floor(clock)' = Floor(clock)
    BY <2>4 DEF Floor
  <2> QED
    BY <1>0, <2>2, <2>3, <2>4, <2>5 DEF SharedType, Passed
<1>11. CASE WorkerRead
  BY <1>0, <1>11 DEF WorkerRead, SharedType, Passed, Floor
<1>12. CASE WorkerSave
  BY <1>0, <1>12 DEF WorkerSave, Save, SharedType, Passed, Floor, Rows
<1>13. CASE Tick
  <2>1. /\ clock' = clock + 1 /\ clock < MaxClock
        /\ UNCHANGED <<user, token, revoked, cutoff, frozen, admin, worker, sends, runs>>
    BY <1>13 DEF Tick
  <2>2. Floor(clock)' = Floor(clock + 1)
    BY <2>1 DEF Floor
  <2>3. Floor(clock) <= Floor(clock + 1) /\ Floor(clock + 1) \in Nat /\ Floor(clock) \in Nat
    BY <1>0, FloorFacts, FloorMonotone
  <2> QED
    BY <1>0, <2>1, <2>2, <2>3 DEF SharedType, Passed
<1> QED
  BY <1>1, <1>2, <1>3, <1>4, <1>5, <1>6, <1>7, <1>8, <1>9, <1>10, <1>11, <1>12, <1>13 DEF Writes

(* Where a step leaves a request: as it was, or moved in an allowed way.   *)
LEMMA WhereAfter ==
  ASSUME TypeOK, Moves
  PROVE  /\ pc' \in [Reqs -> Places] /\ mem' \in [Reqs -> Locals]
         /\ \A q \in Reqs :
              \/ pc'[q] = pc[q] /\ mem'[q] = mem[q]
              \/ pc'[q] \in Places /\ mem'[q] \in Locals /\ Allowed(q, pc'[q], mem'[q])
<1>0. pc \in [Reqs -> Places] /\ mem \in [Reqs -> Locals]
  BY DEF TypeOK, Locals
<1>1. CASE UNCHANGED <<pc, mem>>
  BY <1>0, <1>1
<1>2. ASSUME NEW r \in Reqs, NEW l \in Places, NEW m \in Locals, Goto(r, l, m), Allowed(r, l, m)
      PROVE  /\ pc' \in [Reqs -> Places] /\ mem' \in [Reqs -> Locals]
             /\ \A q \in Reqs :
                  \/ pc'[q] = pc[q] /\ mem'[q] = mem[q]
                  \/ pc'[q] \in Places /\ mem'[q] \in Locals /\ Allowed(q, pc'[q], mem'[q])
  <2>1. pc' = [pc EXCEPT ![r] = l] /\ mem' = [mem EXCEPT ![r] = m]
    BY <1>2 DEF Goto
  <2>2. pc'[r] = l /\ mem'[r] = m
    BY <1>0, <2>1
  <2>3. \A q \in Reqs \ {r} : pc'[q] = pc[q] /\ mem'[q] = mem[q]
    BY <1>0, <2>1
  <2>4. pc' \in [Reqs -> Places] /\ mem' \in [Reqs -> Locals]
    BY <1>0, <2>1
  <2> QED
    BY <1>2, <2>2, <2>3, <2>4
<1> QED
  BY <1>1, <1>2 DEF Moves

(* The token a request works on stays the one it came with.                *)
LEMMA CarriesStep ==
  ASSUME TypeInv, Moves, Grows, NEW q \in Reqs
  PROVE  Carries(q)'
<1>0. /\ TypeOK /\ Passed /\ Carries(q) /\ clock \in Nat /\ clock' \in Nat /\ clock <= clock'
      /\ \A i \in Tokens : token[i].exp \in Nat
      /\ \A i \in Tokens : token[i].exp > 0 => token'[i] = token[i]
      /\ mem[q] \in Locals /\ mem[q].now \in Nat /\ Second <= clock
      /\ \A i \in Tokens : token[i].exp <= clock + TokenLife
  <2>1. TypeOK /\ Passed /\ Carries(q) /\ clock \in Nat /\ Times \subseteq Nat
    BY ClockFacts DEF TypeInv
  <2>2. ASSUME NEW i \in Tokens
        PROVE  token[i].exp \in Nat
    <3>1. token[i] \in [iat : Times, exp : Times]
      BY <2>1, <2>2 DEF TypeOK
    <3> QED
      BY <3>1, <2>1
  <2>3. mem[q] \in Locals
    BY <2>1 DEF TypeOK, Locals
  <2>4. mem[q].now \in Nat
    BY <2>1, <2>3 DEF Locals
  <2> QED
    BY <2>1, <2>2, <2>3, <2>4 DEF Grows, Passed
<1>1. CASE pc'[q] = pc[q] /\ mem'[q] = mem[q]
  <2>1. pc[q] \in Checked =>
          mem[q].tok \in Tokens /\ token[mem[q].tok].exp > 0 /\ token'[mem[q].tok] = token[mem[q].tok]
    BY <1>0 DEF Carries
  <2>2. pc[q] = "issue" => Second <= mem[q].now /\ mem[q].now <= clock'
    BY <1>0 DEF Carries
  <2>3. pc[q] = "revoke" => /\ mem[q].now <= clock' /\ mem[q].now < token[mem[q].tok].exp
                            /\ token[mem[q].tok].exp <= mem[q].now + TokenLife
                            /\ pc[q] \in Checked
    BY <1>0 DEF Carries, Checked
  <2> QED
    BY <1>1, <2>1, <2>2, <2>3 DEF Carries
<1>2. CASE pc'[q] \in Places /\ mem'[q] \in Locals /\ Allowed(q, pc'[q], mem'[q])
  <2>1. CASE pc'[q] \notin Checked \cup {"issue"}
    BY <2>1 DEF Carries, Checked
  <2>2. CASE pc'[q] = "issue" /\ mem'[q].now = clock
    BY <1>0, <2>2 DEF Carries, Checked
  <2>3. CASE pc'[q] = "parsed" /\ mem'[q].tok \in Tokens /\ clock < token[mem'[q].tok].exp
    <3>1. token[mem'[q].tok].exp \in Nat
      BY <1>0, <2>3
    <3>2. token[mem'[q].tok].exp > 0
      BY <1>0, <2>3, <3>1
    <3>3. token'[mem'[q].tok].exp > 0
      BY <1>0, <2>3, <3>2
    <3> QED
      BY <2>3, <3>3 DEF Carries
  <2>4. CASE /\ pc'[q] \in {"unrevoked", "timely", "known", "in"} /\ mem'[q] = mem[q]
             /\ pc[q] \in {"parsed", "unrevoked", "timely", "known"}
    BY <1>0, <2>4 DEF Carries, Checked
  <2>5. CASE /\ pc'[q] = "revoke" /\ pc[q] = "in" /\ mem'[q] = [mem[q] EXCEPT !.now = clock]
             /\ clock < token[mem'[q].tok].exp
    <3>1. mem'[q].tok = mem[q].tok /\ mem'[q].now = clock
      BY <1>0, <2>5 DEF Locals
    <3>2. mem[q].tok \in Tokens /\ token[mem[q].tok].exp > 0
      BY <1>0, <2>5 DEF Carries, Checked
    <3> QED
      BY <1>0, <2>5, <3>1, <3>2 DEF Carries
  <2> QED
    BY <1>2, <2>1, <2>2, <2>3, <2>4, <2>5 DEF Allowed
<1> QED
  BY <1>1, <1>2, WhereAfter, <1>0

(* What holds at the start.                                                *)
LEMMA TypeInit == Init => TypeInv
<1> SUFFICES ASSUME Init PROVE TypeInv
  OBVIOUS
<1>1. /\ 0 \in Times /\ Second \in Times /\ Second \in 0 .. MaxClock
      /\ Second \in Nat /\ "none" \in Rows /\ "active" \in Rows
  BY DEF Times, Rows
<1>2. Floor(Second) \in Nat
  BY <1>1, FloorFacts
<1>3. Cardinality({}) = 0 /\ IsFiniteSet({})
  BY FS_EmptySet
<1>4. pc \in [Reqs -> Places] /\ mem \in [Reqs -> Locals] /\ \A r \in Reqs : pc[r] = "idle"
  BY LocalsFacts DEF Init, Places
<1>5. log \in LogType /\ hits \in [Keys -> SUBSET Hits]
      /\ \A k \in Keys : hits[k] = {} /\ log.let[k] = {}
  BY <1>1 DEF Init, LogType
<1>6. SharedType
  BY <1>1 DEF Init, SharedType, Actors
<1>7. TypeOK
  <2>1. \A k \in Keys : Cardinality(hits[k]) <= Limit[k]
    BY <1>3, <1>5
  <2> QED
    BY <1>4, <1>5, <1>6, <2>1 DEF TypeOK, SharedType, LogType, Locals
<1>8. Counted
  BY <1>3, <1>5 DEF Counted
<1>9. Passed
  BY <1>1, <1>2 DEF Init, Passed
<1> QED
  BY <1>4, <1>7, <1>8, <1>9 DEF TypeInv, Carries, Checked

(* A step keeps the types, and moves the system in known ways.             *)
LEMMA TypeStep ==
  ASSUME TypeInv, [Next]_vars
  PROVE  TypeInv' /\ Moves /\ Grows /\ (Quiet \/ Writes)
<1>1. TypeOK /\ Counted /\ Moves /\ (Quiet \/ Writes)
  BY StepParts DEF TypeInv
<1>2. Grows
  BY <1>1, QuietGrows, WritesGrow
<1>3. SharedType' /\ Passed'
  BY <1>1, SharedStep
<1>4. pc' \in [Reqs -> Places] /\ mem' \in [Reqs -> Locals]
  BY <1>1, WhereAfter
<1>5. /\ hits' \in [Keys -> SUBSET Hits]
      /\ \A k \in Keys : Cardinality(hits'[k]) <= Limit[k]
      /\ Counted'
  BY <1>1, <1>2, LimitType DEF Grows
<1>6. log' \in LogType
  BY <1>2 DEF Grows
<1>7. TypeOK'
  BY <1>3, <1>4, <1>5, <1>6 DEF TypeOK, SharedType, LogType, Locals
<1>8. \A q \in Reqs : Carries(q)'
  BY <1>1, <1>2, CarriesStep
<1> QED
  BY <1>1, <1>2, <1>3, <1>5, <1>7, <1>8 DEF TypeInv

(* Every variable stays in its type, and no limiter holds more than its    *)
(* limit (rate_limit.go:36).                                               *)
THEOREM TypeCorrect == Spec => []TypeOK
<1>1. TypeInv /\ [Next]_vars => TypeInv'
  BY TypeStep
<1>2. TypeInv => TypeOK
  BY DEF TypeInv
<1> QED
  BY <1>1, <1>2, TypeInit, PTL DEF Spec

(* No window of a minute lets more than the limit through, and who is      *)
(* refused is refused because a full minute's worth was (rate_limit.go:    *)
(* 23-42).                                                                 *)
THEOREM RateIsKept == Spec => []RateKept
<1>1. Init => RateInv
  BY FS_EmptySet DEF Init, RateInv, RateKept, Numbered, Dropped
<1>2. TypeInv /\ RateInv /\ [Next]_vars => TypeInv' /\ RateInv'
  BY TypeStep, RateStep DEF TypeInv, Grows
<1>3. RateInv => RateKept
  BY DEF RateInv
<1> QED
  BY <1>1, <1>2, <1>3, TypeInit, PTL DEF Spec

-----------------------------------------------------------------------------
(* Revocation *)

(* A revoked jti's key outlives its token, which had been issued, ...      *)
KeysOutlive ==
  \A i \in Tokens : revoked[i] > 0 => token[i].exp > 0 /\ token[i].exp <= revoked[i]

(* ... so that a request with it gets past the look at the key only when   *)
(* the token has lapsed.                                                   *)
LateIsRevoked(r) ==
  pc[r] \in Checked /\ mem[r].late =>
    /\ revoked[mem[r].tok] > 0
    /\ pc[r] # "parsed" => clock >= token[mem[r].tok].exp

RevokedInv == KeysOutlive /\ \A r \in Reqs : LateIsRevoked(r)

(* Only Revoke sets a key.                                                 *)
LEMMA KeysStep ==
  ASSUME TypeInv, KeysOutlive, Grows, Quiet \/ Writes
  PROVE  KeysOutlive'
<1>0. \A i \in Tokens : token[i].exp > 0 => token'[i] = token[i]
  BY DEF Grows
<1>1. CASE UNCHANGED revoked
  BY <1>0, <1>1 DEF KeysOutlive
<1>2. ASSUME NEW r \in Reqs, Revoke(r)
      PROVE  KeysOutlive'
  <2>1. PICK i \in Tokens, t \in Times :
          revoked' = [revoked EXCEPT ![i] = t] /\ token[i].exp > 0 /\ token[i].exp <= t
    BY <1>2, RevokeFacts
  <2>2. revoked \in [Tokens -> Times] /\ UNCHANGED token
    BY <1>2 DEF TypeInv, TypeOK, Revoke
  <2> QED
    BY <2>1, <2>2 DEF KeysOutlive
<1>3. UNCHANGED revoked \/ \E r \in Reqs : Revoke(r)
  BY DEF Quiet, Writes, RegisterCreate, IssueCommit, LogoutSave, AdminFind, AdminForce,
         AdminCommit, WorkerTick, WorkerForce, WorkerRead, WorkerSave, Tick
<1> QED
  BY <1>1, <1>2, <1>3

(* The token of a request, its key and the clock, before a step.           *)
LEMMA TokenFacts ==
  ASSUME TypeInv, Grows, NEW i \in Tokens
  PROVE  /\ token[i].exp \in Nat /\ token[i].iat \in Nat /\ revoked[i] \in Nat
         /\ clock \in Nat /\ clock' \in Nat /\ clock <= clock'
         /\ token[i].exp > 0 => token'[i] = token[i]
         /\ revoked[i] > 0 => revoked'[i] > 0
<1>1. TypeOK /\ Times \subseteq Nat /\ clock \in Nat
  BY ClockFacts DEF TypeInv
<1>2. token[i] \in [iat : Times, exp : Times] /\ revoked[i] \in Times
  BY <1>1 DEF TypeOK
<1> QED
  BY <1>1, <1>2 DEF Grows

(* A request with a revoked token stays behind the look at the key.        *)
LEMMA LateStep ==
  ASSUME TypeInv, RevokedInv, Moves, Grows, NEW q \in Reqs
  PROVE  LateIsRevoked(q)'
<1>0. /\ LateIsRevoked(q) /\ Carries(q) /\ mem[q] \in Locals
      /\ \A i \in Tokens : revoked[i] > 0 => token[i].exp <= revoked[i]
  BY DEF TypeInv, RevokedInv, KeysOutlive, TypeOK, Locals
<1>1. ASSUME pc[q] \in Checked, mem'[q].tok = mem[q].tok, mem'[q].late = mem[q].late,
             pc'[q] # "parsed" =>
               \/ pc[q] # "parsed"
               \/ mem[q].late => clock >= token[mem[q].tok].exp
      PROVE  LateIsRevoked(q)'
  <2>1. mem[q].tok \in Tokens /\ token[mem[q].tok].exp > 0
    BY <1>0, <1>1 DEF Carries
  <2>2. SUFFICES ASSUME pc'[q] \in Checked, mem[q].late
                 PROVE  /\ revoked'[mem[q].tok] > 0
                        /\ pc'[q] # "parsed" => clock' >= token'[mem[q].tok].exp
    BY <1>1 DEF LateIsRevoked
  <2>3. revoked[mem[q].tok] > 0 /\ (pc[q] # "parsed" => clock >= token[mem[q].tok].exp)
    BY <1>0, <1>1, <2>2 DEF LateIsRevoked
  <2>4. pc'[q] # "parsed" => clock >= token[mem[q].tok].exp
    BY <1>1, <2>2, <2>3
  <2> QED
    BY <2>1, <2>3, <2>4, TokenFacts
<1>2. CASE pc'[q] = pc[q] /\ mem'[q] = mem[q]
  <2>1. CASE pc[q] \in Checked
    BY <1>1, <1>2, <2>1
  <2>2. CASE pc[q] \notin Checked
    BY <1>2, <2>2 DEF LateIsRevoked
  <2> QED
    BY <2>1, <2>2
<1>3. CASE pc'[q] \in Places /\ mem'[q] \in Locals /\ Allowed(q, pc'[q], mem'[q])
  <2>1. CASE pc'[q] \notin Checked
    BY <2>1 DEF LateIsRevoked
  <2>2. CASE /\ pc'[q] = "parsed" /\ mem'[q].tok \in Tokens
             /\ mem'[q].late = (revoked[mem'[q].tok] > 0)
    BY <2>2, TokenFacts DEF LateIsRevoked
  <2>3. CASE pc'[q] = "unrevoked" /\ pc[q] = "parsed" /\ mem'[q] = mem[q] /\ ~RevokedNow(mem[q].tok)
    <3>1. mem[q].tok \in Tokens
      BY <1>0, <2>3 DEF Carries, Checked
    <3>2. mem[q].late => revoked[mem[q].tok] > 0
      BY <1>0, <2>3 DEF LateIsRevoked, Checked
    <3>3. ASSUME mem[q].late
          PROVE  clock >= token[mem[q].tok].exp
      <4>1. revoked[mem[q].tok] > 0 /\ ~(revoked[mem[q].tok] > clock)
        BY <2>3, <3>2, <3>3 DEF RevokedNow
      <4>2. token[mem[q].tok].exp <= revoked[mem[q].tok]
        BY <1>0, <3>1, <4>1
      <4>3. token[mem[q].tok].exp \in Nat /\ revoked[mem[q].tok] \in Nat /\ clock \in Nat
        BY <3>1, TokenFacts
      <4> QED
        BY <4>1, <4>2, <4>3
    <3>4. pc[q] \in Checked
      BY <2>3 DEF Checked
    <3> QED
      BY <1>1, <2>3, <3>3, <3>4
  <2>4. CASE pc[q] \in {"unrevoked", "timely", "known"} /\ mem'[q] = mem[q]
    BY <1>1, <2>4 DEF Checked
  <2>5. CASE pc[q] = "in" /\ mem'[q] = [mem[q] EXCEPT !.now = clock]
    <3>1. mem'[q].tok = mem[q].tok /\ mem'[q].late = mem[q].late
      BY <1>0, <2>5 DEF Locals
    <3> QED
      BY <1>1, <2>5, <3>1 DEF Checked
  <2> QED
    BY <1>3, <2>1, <2>2, <2>3, <2>4, <2>5 DEF Allowed, Checked
<1>4. TypeOK
  BY DEF TypeInv
<1> QED
  BY <1>2, <1>3, <1>4, WhereAfter

(* A request that comes with a jti that logout revoked is let in only if   *)
(* its token lapsed while Auth looked at it (auth_logout.go:25,            *)
(* store.go:50-55).                                                        *)
THEOREM RevokedStaysOutside == Spec => []RevokedStaysOut
<1>1. Init => RevokedInv
  BY DEF Init, RevokedInv, KeysOutlive, LateIsRevoked, Checked
<1>2. TypeInv /\ RevokedInv /\ [Next]_vars => TypeInv' /\ RevokedInv'
  <2> SUFFICES ASSUME TypeInv, RevokedInv, [Next]_vars PROVE TypeInv' /\ RevokedInv'
    OBVIOUS
  <2>1. TypeInv' /\ Moves /\ Grows /\ (Quiet \/ Writes)
    BY TypeStep
  <2>2. KeysOutlive'
    BY <2>1, KeysStep DEF RevokedInv
  <2>3. \A q \in Reqs : LateIsRevoked(q)'
    BY <2>1, LateStep
  <2> QED
    BY <2>1, <2>2, <2>3 DEF RevokedInv
<1>3. RevokedInv => RevokedStaysOut
  BY DEF RevokedInv, LateIsRevoked, RevokedStaysOut, Checked
<1> QED
  BY <1>1, <1>2, <1>3, TypeInit, PTL DEF Spec

-----------------------------------------------------------------------------
(* Deletion *)

(* The row is marked deleted unless someone undid it, and the cut-off is   *)
(* no earlier than the deletion's unless the worker set it back.           *)
DeletionHolds ==
  /\ log.gone > 0 /\ ~log.undone => user = "deleted"
  /\ ~log.setBack => log.gone <= cutoff

(* What a request that came after a deletion has been through.             *)
AfterDeletion(r) ==
  /\ mem[r].gone > 0 => log.gone > 0
  /\ ~log.setBack => mem[r].gone <= log.gone
  /\ mem[r].gone > 0 /\ pc[r] \in {"timely", "known", "in", "revoke"} =>
       /\ token[mem[r].tok].iat >= mem[r].gone \/ log.setBack
       /\ pc[r] # "timely" => log.undone

DeletedInv == DeletionHolds /\ \A r \in Reqs : AfterDeletion(r)

(* What a step does to the last deletion.                                  *)
DeletionKept ==
  /\ log.gone > 0 => log'.gone > 0
  /\ ~log'.setBack => log.gone <= log'.gone

(* The writers of the row and of the cut-off, one by one.                  *)
LEMMA DeletionStep ==
  ASSUME TypeInv, DeletionHolds, Grows, Quiet \/ Writes
  PROVE  DeletionHolds' /\ DeletionKept
<1>0. /\ TypeOK /\ Passed /\ log \in LogType /\ log.gone \in Nat /\ cutoff \in Nat
      /\ clock \in Nat /\ frozen \in Nat /\ Floor(clock) \in Nat
      /\ \A r \in Reqs : mem[r].row \in Rows
      /\ "active" \in Rows /\ Times \subseteq Nat
  <2>1. TypeOK /\ Passed /\ Times \subseteq Nat /\ clock \in Nat /\ Floor(clock) \in Times
    BY ClockFacts DEF TypeInv
  <2>2. log \in LogType /\ cutoff \in Nat /\ frozen \in Nat /\ \A r \in Reqs : mem[r].row \in Rows
    BY <2>1 DEF TypeOK, LogType
  <2>3. log.gone \in Nat
    BY <2>1, <2>2 DEF LogType
  <2> QED
    BY <2>1, <2>2, <2>3 DEF Rows
<1>1. CASE Quiet
  <2>1. UNCHANGED <<user, cutoff>>
    BY <1>1 DEF Quiet
  <2>2. log'.gone = log.gone /\ log'.undone = log.undone /\ log'.setBack = log.setBack
    BY <1>1, QuietGrows
  <2> QED
    BY <1>0, <2>1, <2>2 DEF DeletionHolds, DeletionKept
<1>2. ASSUME NEW row \in Rows, Save(row), UNCHANGED cutoff
      PROVE  DeletionHolds' /\ DeletionKept
  <2>1. /\ user' = row /\ log'.gone = log.gone /\ log'.setBack = log.setBack
        /\ log'.undone = (log.undone \/ (user = "deleted" /\ row # "deleted"))
    BY <1>0, <1>2, SaveFacts
  <2>2. ~log'.undone => ~log.undone /\ (user = "deleted" => row = "deleted")
    BY <2>1
  <2>3. log'.gone > 0 /\ ~log'.undone => user' = "deleted"
    BY <2>1, <2>2 DEF DeletionHolds
  <2> QED
    BY <1>0, <1>2, <2>1, <2>3 DEF DeletionHolds, DeletionKept
<1>3. ASSUME NEW r \in Reqs, RegisterCreate(r)
      PROVE  DeletionHolds' /\ DeletionKept
  BY <1>0, <1>3 DEF RegisterCreate, DeletionHolds, DeletionKept
<1>4. ASSUME NEW r \in Reqs, IssueCommit(r) \/ LogoutSave(r)
      PROVE  DeletionHolds' /\ DeletionKept
  BY <1>0, <1>2, <1>4 DEF IssueCommit, LogoutSave
<1>5. ASSUME NEW r \in Reqs, Revoke(r)
      PROVE  DeletionHolds' /\ DeletionKept
  BY <1>0, <1>5 DEF Revoke, DeletionHolds, DeletionKept
<1>6. CASE AdminFind \/ WorkerTick \/ WorkerRead \/ Tick
  BY <1>0, <1>6 DEF AdminFind, WorkerTick, WorkerRead, Tick, DeletionHolds, DeletionKept
<1>7. CASE AdminForce
  BY <1>0, <1>7 DEF AdminForce, Passed, DeletionHolds, DeletionKept
<1>8. CASE AdminCommit
  <2>1. UNCHANGED cutoff /\ cutoff > 0
    BY <1>0, <1>8 DEF AdminCommit, Passed
  <2>2. CASE UNCHANGED <<user, log>>
    BY <1>0, <2>1, <2>2 DEF DeletionHolds, DeletionKept
  <2>3. CASE user' = "deleted" /\ log' = [log EXCEPT !.gone = cutoff]
    <3>1. log'.gone = cutoff /\ log'.undone = log.undone /\ log'.setBack = log.setBack
      BY <1>0, <2>3 DEF LogType
    <3> QED
      BY <1>0, <2>1, <2>3, <3>1 DEF DeletionHolds, DeletionKept
  <2> QED
    BY <1>8, <2>2, <2>3 DEF AdminCommit
<1>9. CASE WorkerForce
  <2> DEFINE back == log.setBack \/ Floor(frozen) < cutoff
  <2>1. UNCHANGED user /\ cutoff' = Floor(frozen) /\ log' = [log EXCEPT !.setBack = back]
    BY <1>9 DEF WorkerForce
  <2>2. Floor(frozen) \in Nat /\ (~back => ~log.setBack /\ cutoff <= Floor(frozen))
    BY <1>0, FloorFacts
  <2> HIDE DEF back
  <2>3. log'.gone = log.gone /\ log'.undone = log.undone /\ log'.setBack = back
    BY <1>0, <2>1 DEF LogType
  <2> QED
    BY <1>0, <2>1, <2>2, <2>3 DEF DeletionHolds, DeletionKept
<1>10. CASE WorkerSave
  BY <1>0, <1>2, <1>10 DEF WorkerSave
<1> QED
  BY <1>1, <1>3, <1>4, <1>5, <1>6, <1>7, <1>8, <1>9, <1>10 DEF Writes

(* A request that came after the deletion passes the cut-off only with a   *)
(* late enough token, and is found active only if the deletion was undone. *)
LEMMA AfterStep ==
  ASSUME TypeInv, DeletedInv, Moves, Grows, DeletionKept, NEW q \in Reqs
  PROVE  AfterDeletion(q)'
<1>0. /\ TypeOK /\ AfterDeletion(q) /\ Carries(q) /\ DeletionHolds /\ mem[q] \in Locals
      /\ mem[q].gone \in Nat /\ log.gone \in Nat /\ log'.gone \in Nat /\ cutoff \in Nat
      /\ (log.undone => log'.undone) /\ (log.setBack => log'.setBack)
  <2>1. /\ TypeOK /\ AfterDeletion(q) /\ Carries(q) /\ DeletionHolds /\ mem[q] \in Locals
        /\ log \in LogType /\ log' \in LogType /\ Times \subseteq Nat
        /\ (log.undone => log'.undone) /\ (log.setBack => log'.setBack) /\ cutoff \in Times
    BY ClockFacts DEF TypeInv, TypeOK, Locals, LogType, DeletedInv, Grows
  <2>2. mem[q].gone \in Times /\ log.gone \in Times /\ log'.gone \in Times
    BY <2>1 DEF Locals, LogType
  <2> QED
    BY <2>1, <2>2
<1>1. ASSUME mem'[q].gone = mem[q].gone
      PROVE  /\ mem'[q].gone > 0 => log'.gone > 0
             /\ ~log'.setBack => mem'[q].gone <= log'.gone
  BY <1>0, <1>1 DEF AfterDeletion, DeletionKept
<1>2. ASSUME pc[q] \in {"timely", "known", "in", "revoke"}, pc[q] # "timely" \/ user = "active",
             mem'[q].tok = mem[q].tok, mem'[q].gone = mem[q].gone
      PROVE  AfterDeletion(q)'
  <2>1. /\ mem[q].tok \in Tokens /\ token'[mem[q].tok] = token[mem[q].tok]
        /\ token[mem[q].tok].iat \in Nat
    BY <1>0, <1>2, TokenFacts DEF Carries, Checked
  <2>2. mem[q].gone > 0 => token[mem[q].tok].iat >= mem[q].gone \/ log.setBack
    BY <1>0, <1>2 DEF AfterDeletion
  <2>3. mem[q].gone > 0 => log.undone
    BY <1>0, <1>2 DEF AfterDeletion, DeletionHolds
  <2> QED
    BY <1>0, <1>1, <1>2, <2>1, <2>2, <2>3 DEF AfterDeletion
<1>3. CASE pc'[q] = pc[q] /\ mem'[q] = mem[q]
  <2>1. CASE pc[q] \in {"known", "in", "revoke"}
    BY <1>2, <1>3, <2>1
  <2>2. CASE pc[q] = "timely"
    <3>1. /\ mem[q].tok \in Tokens /\ token'[mem[q].tok] = token[mem[q].tok]
          /\ token[mem[q].tok].iat \in Nat
      BY <1>0, <2>2, TokenFacts DEF Carries, Checked
    <3> QED
      BY <1>0, <1>1, <1>3, <2>2, <3>1 DEF AfterDeletion
  <2>3. CASE pc[q] \notin {"timely", "known", "in", "revoke"}
    BY <1>1, <1>3, <2>3 DEF AfterDeletion
  <2> QED
    BY <2>1, <2>2, <2>3
<1>4. CASE pc'[q] \in Places /\ mem'[q] \in Locals /\ Allowed(q, pc'[q], mem'[q])
  <2>1. CASE pc'[q] \notin Checked /\ (mem'[q].gone = 0 \/ mem'[q].gone = mem[q].gone)
    BY <1>0, <1>1, <2>1 DEF AfterDeletion, Checked
  <2>2. CASE pc'[q] = "parsed" /\ mem'[q].gone = log.gone
    BY <1>0, <2>2 DEF AfterDeletion, DeletionKept
  <2>3. CASE pc'[q] = "unrevoked" /\ mem'[q] = mem[q]
    BY <1>1, <2>3 DEF AfterDeletion
  <2>4. CASE /\ pc'[q] = "timely" /\ pc[q] = "unrevoked" /\ mem'[q] = mem[q]
             /\ IssuedInTime(mem[q].tok)
    <3>1. /\ mem[q].tok \in Tokens /\ token'[mem[q].tok] = token[mem[q].tok]
          /\ token[mem[q].tok].iat \in Nat
      BY <1>0, <2>4, TokenFacts DEF Carries, Checked
    <3>2. ASSUME mem[q].gone > 0, ~log.setBack
          PROVE  token[mem[q].tok].iat >= mem[q].gone
      <4>1. mem[q].gone <= cutoff
        BY <1>0, <3>2 DEF AfterDeletion, DeletionHolds
      <4> QED
        BY <1>0, <2>4, <3>1, <3>2, <4>1 DEF IssuedInTime
    <3> QED
      BY <1>0, <1>1, <2>4, <3>1, <3>2 DEF AfterDeletion
  <2>5. CASE pc'[q] = "known" /\ pc[q] = "timely" /\ mem'[q] = mem[q] /\ user = "active"
    BY <1>2, <2>5
  <2>6. CASE pc'[q] = "in" /\ pc[q] = "known" /\ mem'[q] = mem[q]
    BY <1>2, <2>6
  <2>7. CASE pc'[q] = "revoke" /\ pc[q] = "in" /\ mem'[q] = [mem[q] EXCEPT !.now = clock]
    <3>1. mem'[q].tok = mem[q].tok /\ mem'[q].gone = mem[q].gone
      BY <1>0, <2>7 DEF Locals
    <3> QED
      BY <1>2, <2>7, <3>1
  <2> QED
    BY <1>4, <2>1, <2>2, <2>3, <2>4, <2>5, <2>6, <2>7 DEF Allowed, Checked
<1> QED
  BY <1>0, <1>3, <1>4, WhereAfter

(* A request that comes after DeleteUser is done is let in only if another *)
(* writer's stale row undid the deletion, and then only with a token of    *)
(* the deletion's second or later, unless the worker set the cut-off back  *)
(* (auth.go:40-57, admin.go:104-126, auth_session.go:39).                  *)
THEOREM DeletedStaysOutside == Spec => []DeletedStaysOut
<1>1. Init => DeletedInv
  <2> SUFFICES ASSUME Init PROVE DeletedInv
    OBVIOUS
  <2>1. log.gone = 0 /\ cutoff = 0 /\ \A r \in Reqs : mem[r].gone = 0 /\ pc[r] = "idle"
    BY DEF Init, NoLocals
  <2> QED
    BY <2>1 DEF DeletedInv, DeletionHolds, AfterDeletion
<1>2. TypeInv /\ DeletedInv /\ [Next]_vars => TypeInv' /\ DeletedInv'
  <2> SUFFICES ASSUME TypeInv, DeletedInv, [Next]_vars PROVE TypeInv' /\ DeletedInv'
    OBVIOUS
  <2>1. TypeInv' /\ Moves /\ Grows /\ (Quiet \/ Writes)
    BY TypeStep
  <2>2. DeletionHolds' /\ DeletionKept
    BY <2>1, DeletionStep DEF DeletedInv
  <2>3. \A q \in Reqs : AfterDeletion(q)'
    BY <2>1, <2>2, AfterStep
  <2> QED
    BY <2>1, <2>2, <2>3 DEF DeletedInv
<1>3. DeletedInv => DeletedStaysOut
  BY DEF DeletedInv, AfterDeletion, DeletedStaysOut
<1> QED
  BY <1>1, <1>2, <1>3, TypeInit, PTL DEF Spec
=============================================================================
