----------------------------- MODULE RestProofs -----------------------------
(***************************************************************************)
(* Proofs about RestClient for any number of goroutines, any rate, timeout *)
(* and token life the assumption admits.                                   *)
(*                                                                         *)
(* The limiter needs that every slot given lies an interval before the     *)
(* next (LimiterInv).  The token needs a chain of bounds on time: when its *)
(* exchange began, when the server issued it, when the timers fire         *)
(* (TimerInv), hence how far cachedUntil can be from the true end of the   *)
(* token (CacheInv), hence that the timer of a request fires before the    *)
(* token it carries expires (CarryInv).  The rate follows from the slots   *)
(* by counting: two used slots cannot lie in the same interval.            *)
(***************************************************************************)
EXTENDS RestClient, FiniteSetTheorems, TLAPS

LimiterInv ==
    /\ \A s \in used : s + Interval <= next
    /\ \A c \in Callers : pc[c] = "sleep" => req[c].slot + Interval <= next

TimerInv ==
    \A c \in Callers :
       /\ req[c].deadline <= now + Timeout
       /\ pc[c] \in {"flight", "issued"} => now <= Deadline(c)
       /\ pc[c] \in {"idle", "token", "check"} => /\ req[c].leg # "token"
                                                 /\ req[c].token = Nil
       /\ req[c].leg = "token" => /\ req[c].deadline <= req[c].inner
                                  /\ req[c].inner <= now + Timeout
       /\ pc[c] = "issued" => /\ req[c].leg = "token"
                              /\ req[c].token \in Int
                              /\ req[c].life >= Timeout
                              /\ req[c].inner <= req[c].token - req[c].life + Timeout
                              /\ req[c].token - req[c].life <= now

CacheInv ==
    cached # Nil => /\ cachedUntil <= cached - Margin + Timeout
                    /\ cached - Margin <= cachedUntil

CarryInv ==
    \A c \in Callers :
       req[c].token # Nil /\ req[c].leg = "read" => req[c].deadline <= req[c].token

MutexInv ==
    \A c \in Callers : pc[c] = "check" \/ req[c].leg = "token" <=> holder = c

CountInv ==
    /\ IsFiniteSet(used) /\ sent = Cardinality(used)
    /\ \A s \in used : s <= now

Inv == TypeOK /\ LimiterInv /\ SlotsApart /\ TimerInv /\ CacheInv /\ CarryInv
       /\ MutexInv /\ CountInv

-----------------------------------------------------------------------------
(* Each part of the invariant survives every step.                         *)

\* Types survive every step.
LEMMA TypeStep ==
    ASSUME TypeOK, [Next]_vars
    PROVE  TypeOK'
<1> USE RestAssumption DEF TypeOK, Times, Goes, cacheVars
<1>1. ASSUME NEW c \in Callers, NEW l \in {"read", "plain"}, Begin(c, l) PROVE TypeOK'
  <2> DEFINE r == [req[c] EXCEPT !.leg = l, !.deadline = now + Timeout]
  <2>1. now + Timeout \in Nat /\ req[c] \in Requests
    OBVIOUS
  <2>2. r \in Requests
    BY <2>1 DEF Requests
  <2>3. req' = [req EXCEPT ![c] = r]
    BY <1>1, <2>1 DEF Begin, Requests
  <2> QED
    BY <1>1, <2>2, <2>3 DEF Begin, FirstStep, NeedsToken
<1>2. ASSUME NEW c \in Callers, Provide(c) PROVE TypeOK'
  BY <1>2 DEF Provide, Returns, NoReq, Requests
<1>3. ASSUME NEW c \in Callers, Lock(c) PROVE TypeOK'
  BY <1>3 DEF Lock
<1>4. ASSUME NEW c \in Callers, Hit(c) PROVE TypeOK'
  BY <1>4 DEF Hit, Usable, Requests
<1>5. ASSUME NEW c \in Callers, Miss(c) PROVE TypeOK'
  <2> DEFINE r == [req[c] EXCEPT !.leg = "token", !.inner = now + Timeout]
  <2>1. now + Timeout \in Nat /\ req[c] \in Requests
    OBVIOUS
  <2>2. r \in Requests
    BY <2>1 DEF Requests
  <2>3. req' = [req EXCEPT ![c] = r]
    BY <1>5, <2>1 DEF Miss, Requests
  <2> QED
    BY <1>5, <2>2, <2>3 DEF Miss, FirstStep, NeedsToken
<1>6. ASSUME NEW c \in Callers, Reserve(c) PROVE TypeOK'
  BY <1>6 DEF Reserve, Slot, NextSlot, Requests
<1>7. ASSUME NEW c \in Callers, Fails(c) PROVE TypeOK'
  BY <1>7 DEF Fails, Returns, NoReq, Requests
<1>8. ASSUME NEW c \in Callers, Transmit(c) PROVE TypeOK'
  <2>1. req[c].slot \in Nat
    BY DEF Requests
  <2>2. used' = used \cup {req[c].slot} /\ used \in SUBSET Nat
    BY <1>8 DEF Transmit
  <2>3. sent' = sent + 1 /\ sent \in Nat
    BY <1>8 DEF Transmit
  <2>4. pc' = [pc EXCEPT ![c] = "flight"]
    BY <1>8 DEF Transmit
  <2>5. UNCHANGED <<now, next, provided, holder, cached, cachedUntil, req>>
    BY <1>8 DEF Transmit
  <2>6. used' \in SUBSET Nat
    BY <2>1, <2>2
  <2>7. sent' \in Nat
    BY <2>3
  <2> QED
    BY <2>4, <2>5, <2>6, <2>7
<1>9. ASSUME NEW c \in Callers, Issue(c) PROVE TypeOK'
  <2>1. PICK k \in Lives :
               req' = [req EXCEPT ![c].life = k, ![c].token = now + k]
    BY <1>9 DEF Issue
  <2> DEFINE r == [req[c] EXCEPT !.life = k, !.token = now + k]
  <2>2. k \in Nat /\ now + k \in Times /\ req[c] \in Requests
    OBVIOUS
  <2>3. r \in Requests
    BY <2>2 DEF Requests
  <2>4. req' = [req EXCEPT ![c] = r]
    BY <2>1, <2>2 DEF Requests
  <2> QED
    BY <1>9, <2>3, <2>4 DEF Issue
<1>10. ASSUME NEW c \in Callers, Store(c) PROVE TypeOK'
  <2>1. req[c].life \in Nat /\ req[c].token \in Times
    BY DEF Requests
  <2> DEFINE r == [req[c] EXCEPT !.leg = "read", !.inner = 0, !.life = 0]
  <2>2. r \in Requests
    BY DEF Requests
  <2>3. req' = [req EXCEPT ![c] = r]
    BY <1>10 DEF Store, Requests
  <2> QED
    BY <1>10, <2>1, <2>2, <2>3 DEF Store, Until
<1>11. ASSUME NEW c \in Callers, Answer(c) PROVE TypeOK'
  BY <1>11 DEF Answer, Returns, NoReq, Requests
<1>12. CASE Tick
  BY <1>12 DEF Tick
<1>13. CASE UNCHANGED vars
  BY <1>13 DEF vars, cacheVars
<1> QED
  BY <1>1, <1>2, <1>3, <1>4, <1>5, <1>6, <1>7, <1>8, <1>9, <1>10, <1>11, <1>12, <1>13
     DEF Next, Caller, Abandon, TimesOut, Lose

\* A slot given is an interval away from every other, used or held.
LEMMA LimiterStep ==
    ASSUME TypeOK, LimiterInv, SlotsApart, [Next]_vars
    PROVE  LimiterInv' /\ SlotsApart'
<1> USE RestAssumption DEF TypeOK, LimiterInv, SlotsApart, Apart, Goes
<1>1. ASSUME NEW c \in Callers, NEW l \in {"read", "plain"}, Begin(c, l) PROVE LimiterInv' /\ SlotsApart'
  BY <1>1 DEF Begin, FirstStep, NeedsToken
<1>2. ASSUME NEW c \in Callers, Provide(c) PROVE LimiterInv' /\ SlotsApart'
  BY <1>2 DEF Provide, Returns, NoReq, Requests
<1>3. ASSUME NEW c \in Callers, Lock(c) PROVE LimiterInv' /\ SlotsApart'
  BY <1>3 DEF Lock
<1>4. ASSUME NEW c \in Callers, Hit(c) PROVE LimiterInv' /\ SlotsApart'
  BY <1>4 DEF Hit, Usable, Requests
<1>5. ASSUME NEW c \in Callers, Miss(c) PROVE LimiterInv' /\ SlotsApart'
  BY <1>5 DEF Miss, FirstStep, NeedsToken
<1>6. ASSUME NEW c \in Callers, Reserve(c) PROVE LimiterInv' /\ SlotsApart'
  BY <1>6 DEF Reserve, Slot, NextSlot, Requests
<1>7. ASSUME NEW c \in Callers, Fails(c) PROVE LimiterInv' /\ SlotsApart'
  BY <1>7 DEF Fails, Returns, NoReq, Requests
<1>8. ASSUME NEW c \in Callers, Transmit(c) PROVE LimiterInv' /\ SlotsApart'
  <2>1. req[c].slot \in Nat /\ UNCHANGED <<next, req>>
    BY <1>8 DEF Transmit, Requests
  <2>2. used' = used \cup {req[c].slot} /\ pc' = [pc EXCEPT ![c] = "flight"]
    BY <1>8 DEF Transmit
  <2>3. \A s \in used : Apart(req[c].slot, s)
    BY <1>8 DEF Transmit
  <2>4. \A d \in Callers : pc'[d] = "sleep" => pc[d] = "sleep" /\ d # c
    BY <2>2
  <2>5. LimiterInv'
    BY <1>8, <2>1, <2>2, <2>4 DEF Transmit
  <2>6. \A s, u \in used' : s # u => Apart(s, u)
    BY <2>1, <2>2, <2>3
  <2>7. \A d \in Callers : pc'[d] = "sleep" => \A s \in used' : Apart(req[d].slot, s)
    BY <1>8, <2>1, <2>2, <2>4 DEF Transmit
  <2> QED
    BY <2>1, <2>4, <2>5, <2>6, <2>7
<1>9. ASSUME NEW c \in Callers, Issue(c) PROVE LimiterInv' /\ SlotsApart'
  BY <1>9 DEF Issue
<1>10. ASSUME NEW c \in Callers, Store(c) PROVE LimiterInv' /\ SlotsApart'
  BY <1>10 DEF Store, Until
<1>11. ASSUME NEW c \in Callers, Answer(c) PROVE LimiterInv' /\ SlotsApart'
  BY <1>11 DEF Answer, Returns, NoReq, Requests
<1>12. CASE Tick
  BY <1>12 DEF Tick
<1>13. CASE UNCHANGED vars
  BY <1>13 DEF vars, cacheVars
<1> QED
  BY <1>1, <1>2, <1>3, <1>4, <1>5, <1>6, <1>7, <1>8, <1>9, <1>10, <1>11, <1>12, <1>13
     DEF Next, Caller, Abandon, TimesOut, Lose

\* Timers start with their request, and no exchange outlives its own.
LEMMA TimerStep ==
    ASSUME TypeOK, TimerInv, [Next]_vars
    PROVE  TimerInv'
<1> USE RestAssumption DEF TypeOK, TimerInv, Deadline, Goes, Times, Requests
<1>1. ASSUME NEW c \in Callers, NEW l \in {"read", "plain"}, Begin(c, l) PROVE TimerInv'
  BY <1>1 DEF Begin, FirstStep, NeedsToken
<1>2. ASSUME NEW c \in Callers, Provide(c) PROVE TimerInv'
  BY <1>2 DEF Provide, Returns, NoReq, Requests
<1>3. ASSUME NEW c \in Callers, Lock(c) PROVE TimerInv'
  BY <1>3 DEF Lock
<1>4. ASSUME NEW c \in Callers, Hit(c) PROVE TimerInv'
  BY <1>4 DEF Hit, Usable, Requests
<1>5. ASSUME NEW c \in Callers, Miss(c) PROVE TimerInv'
  BY <1>5 DEF Miss, FirstStep, NeedsToken
<1>6. ASSUME NEW c \in Callers, Reserve(c) PROVE TimerInv'
  BY <1>6 DEF Reserve, Slot, NextSlot, Requests
<1>7. ASSUME NEW c \in Callers, Fails(c) PROVE TimerInv'
  BY <1>7 DEF Fails, Returns, NoReq, Requests
<1>8. ASSUME NEW c \in Callers, Transmit(c) PROVE TimerInv'
  BY <1>8 DEF Transmit, InTime
<1>9. ASSUME NEW c \in Callers, Issue(c) PROVE TimerInv'
  BY <1>9 DEF Issue
<1>10. ASSUME NEW c \in Callers, Store(c) PROVE TimerInv'
  BY <1>10 DEF Store, Until
<1>11. ASSUME NEW c \in Callers, Answer(c) PROVE TimerInv'
  BY <1>11 DEF Answer, Returns, NoReq, Requests
<1>12. CASE Tick
  BY <1>12 DEF Tick
<1>13. CASE UNCHANGED vars
  BY <1>13 DEF vars, cacheVars
<1> QED
  BY <1>1, <1>2, <1>3, <1>4, <1>5, <1>6, <1>7, <1>8, <1>9, <1>10, <1>11, <1>12, <1>13
     DEF Next, Caller, Abandon, TimesOut, Lose

\* What is cached expires a margin before the token, give or take the time its
\* exchange took.
LEMMA CacheStep ==
    ASSUME TypeOK, TimerInv, CacheInv, [Next]_vars
    PROVE  CacheInv'
<1> USE RestAssumption DEF TypeOK, TimerInv, CacheInv, Deadline, Goes, cacheVars, Times, Requests
<1>1. ASSUME NEW c \in Callers, NEW l \in {"read", "plain"}, Begin(c, l) PROVE CacheInv'
  BY <1>1 DEF Begin, FirstStep, NeedsToken
<1>2. ASSUME NEW c \in Callers, Provide(c) PROVE CacheInv'
  BY <1>2 DEF Provide, Returns, NoReq, Requests
<1>3. ASSUME NEW c \in Callers, Lock(c) PROVE CacheInv'
  BY <1>3 DEF Lock
<1>4. ASSUME NEW c \in Callers, Hit(c) PROVE CacheInv'
  BY <1>4 DEF Hit, Usable, Requests
<1>5. ASSUME NEW c \in Callers, Miss(c) PROVE CacheInv'
  BY <1>5 DEF Miss, FirstStep, NeedsToken
<1>6. ASSUME NEW c \in Callers, Reserve(c) PROVE CacheInv'
  BY <1>6 DEF Reserve, Slot, NextSlot, Requests
<1>7. ASSUME NEW c \in Callers, Fails(c) PROVE CacheInv'
  BY <1>7 DEF Fails, Returns, NoReq, Requests
<1>8. ASSUME NEW c \in Callers, Transmit(c) PROVE CacheInv'
  BY <1>8 DEF Transmit, InTime
<1>9. ASSUME NEW c \in Callers, Issue(c) PROVE CacheInv'
  BY <1>9 DEF Issue
<1>10. ASSUME NEW c \in Callers, Store(c) PROVE CacheInv'
  BY <1>10 DEF Store, Until
<1>11. ASSUME NEW c \in Callers, Answer(c) PROVE CacheInv'
  BY <1>11 DEF Answer, Returns, NoReq, Requests
<1>12. CASE Tick
  BY <1>12 DEF Tick
<1>13. CASE UNCHANGED vars
  BY <1>13 DEF vars, cacheVars
<1> QED
  BY <1>1, <1>2, <1>3, <1>4, <1>5, <1>6, <1>7, <1>8, <1>9, <1>10, <1>11, <1>12, <1>13
     DEF Next, Caller, Abandon, TimesOut, Lose

\* The timer of a read fires before the token it carries expires.
LEMMA CarryStep ==
    ASSUME TypeOK, TimerInv, CacheInv, CarryInv, [Next]_vars
    PROVE  CarryInv'
<1> USE RestAssumption DEF TypeOK, TimerInv, CacheInv, CarryInv, Deadline, Goes, cacheVars, Times, Requests
<1>1. ASSUME NEW c \in Callers, NEW l \in {"read", "plain"}, Begin(c, l) PROVE CarryInv'
  BY <1>1 DEF Begin, FirstStep, NeedsToken
<1>2. ASSUME NEW c \in Callers, Provide(c) PROVE CarryInv'
  BY <1>2 DEF Provide, Returns, NoReq, Requests
<1>3. ASSUME NEW c \in Callers, Lock(c) PROVE CarryInv'
  BY <1>3 DEF Lock
<1>4. ASSUME NEW c \in Callers, Hit(c) PROVE CarryInv'
  BY <1>4 DEF Hit, Usable, Requests
<1>5. ASSUME NEW c \in Callers, Miss(c) PROVE CarryInv'
  BY <1>5 DEF Miss, FirstStep, NeedsToken
<1>6. ASSUME NEW c \in Callers, Reserve(c) PROVE CarryInv'
  BY <1>6 DEF Reserve, Slot, NextSlot, Requests
<1>7. ASSUME NEW c \in Callers, Fails(c) PROVE CarryInv'
  BY <1>7 DEF Fails, Returns, NoReq, Requests
<1>8. ASSUME NEW c \in Callers, Transmit(c) PROVE CarryInv'
  BY <1>8 DEF Transmit, InTime
<1>9. ASSUME NEW c \in Callers, Issue(c) PROVE CarryInv'
  BY <1>9 DEF Issue
<1>10. ASSUME NEW c \in Callers, Store(c) PROVE CarryInv'
  BY <1>10 DEF Store, Until
<1>11. ASSUME NEW c \in Callers, Answer(c) PROVE CarryInv'
  BY <1>11 DEF Answer, Returns, NoReq, Requests
<1>12. CASE Tick
  BY <1>12 DEF Tick
<1>13. CASE UNCHANGED vars
  BY <1>13 DEF vars, cacheVars
<1> QED
  BY <1>1, <1>2, <1>3, <1>4, <1>5, <1>6, <1>7, <1>8, <1>9, <1>10, <1>11, <1>12, <1>13
     DEF Next, Caller, Abandon, TimesOut, Lose

\* tokenMu is held from the lookup to the end of the exchange, by one.
LEMMA MutexStep ==
    ASSUME TypeOK, TimerInv, MutexInv, [Next]_vars
    PROVE  MutexInv'
<1> USE RestAssumption DEF TypeOK, TimerInv, MutexInv, Deadline, Goes, cacheVars, Times, Requests
<1>1. ASSUME NEW c \in Callers, NEW l \in {"read", "plain"}, Begin(c, l) PROVE MutexInv'
  BY <1>1 DEF Begin, FirstStep, NeedsToken
<1>2. ASSUME NEW c \in Callers, Provide(c) PROVE MutexInv'
  BY <1>2 DEF Provide, Returns, NoReq, Requests
<1>3. ASSUME NEW c \in Callers, Lock(c) PROVE MutexInv'
  BY <1>3 DEF Lock
<1>4. ASSUME NEW c \in Callers, Hit(c) PROVE MutexInv'
  BY <1>4 DEF Hit, Usable, Requests
<1>5. ASSUME NEW c \in Callers, Miss(c) PROVE MutexInv'
  BY <1>5 DEF Miss, FirstStep, NeedsToken
<1>6. ASSUME NEW c \in Callers, Reserve(c) PROVE MutexInv'
  BY <1>6 DEF Reserve, Slot, NextSlot, Requests
<1>7. ASSUME NEW c \in Callers, Fails(c) PROVE MutexInv'
  BY <1>7 DEF Fails, Returns, NoReq, Requests
<1>8. ASSUME NEW c \in Callers, Transmit(c) PROVE MutexInv'
  BY <1>8 DEF Transmit, InTime
<1>9. ASSUME NEW c \in Callers, Issue(c) PROVE MutexInv'
  BY <1>9 DEF Issue
<1>10. ASSUME NEW c \in Callers, Store(c) PROVE MutexInv'
  BY <1>10 DEF Store, Until
<1>11. ASSUME NEW c \in Callers, Answer(c) PROVE MutexInv'
  BY <1>11 DEF Answer, Returns, NoReq, Requests
<1>12. CASE Tick
  BY <1>12 DEF Tick
<1>13. CASE UNCHANGED vars
  BY <1>13 DEF vars, cacheVars
<1> QED
  BY <1>1, <1>2, <1>3, <1>4, <1>5, <1>6, <1>7, <1>8, <1>9, <1>10, <1>11, <1>12, <1>13
     DEF Next, Caller, Abandon, TimesOut, Lose

\* Each transmission uses a slot that was not used.
LEMMA CountStep ==
    ASSUME TypeOK, SlotsApart, CountInv, [Next]_vars
    PROVE  CountInv'
<1>1. ASSUME NEW c \in Callers, Transmit(c) PROVE CountInv'
  <2> DEFINE slot == req[c].slot
  <2>1. /\ used' = used \cup {slot} /\ sent' = sent + 1 /\ now' = now
        /\ slot <= now /\ pc[c] = "sleep"
    BY <1>1 DEF Transmit, SlotCame
  <2>2. slot \notin used
    <3>1. slot \in Nat /\ \A s \in used : Apart(slot, s)
      BY <2>1 DEF SlotsApart, TypeOK, Requests
    <3>2. ~Apart(slot, slot)
      BY <3>1, RestAssumption DEF Apart
    <3> QED
      BY <3>1, <3>2
  <2> HIDE DEF slot
  <2>3. IsFiniteSet(used') /\ Cardinality(used') = Cardinality(used) + 1
    BY <2>1, <2>2, FS_AddElement DEF CountInv
  <2> QED
    BY <2>1, <2>3 DEF CountInv
<1>2. CASE Tick
  BY <1>2 DEF Tick, CountInv, TypeOK
<1>3. CASE UNCHANGED <<used, sent, now>>
  BY <1>3 DEF CountInv
<1> QED
  BY <1>1, <1>2, <1>3
     DEF Next, Caller, vars, Begin, Provide, Lock, Hit, Miss, Reserve,
         Abandon, TimesOut, Issue, Store, Answer, Lose, Fails

-----------------------------------------------------------------------------
(* The theorems.                                                           *)

\* NewClient returns a client that satisfies the invariant.
LEMMA InitInv == Init => Inv
<1>1. Init => CountInv
  BY FS_EmptySet DEF Init, CountInv
<1>2. Init => TypeOK /\ LimiterInv /\ SlotsApart /\ TimerInv /\ CacheInv
              /\ CarryInv /\ MutexInv
  BY RestAssumption
     DEF Init, NoReq, TypeOK, Times, Requests, LimiterInv, SlotsApart,
         TimerInv, CacheInv, CarryInv, MutexInv
<1> QED
  BY <1>1, <1>2 DEF Inv

\* The invariant is inductive.
LEMMA StepInv == Inv /\ [Next]_vars => Inv'
BY TypeStep, LimiterStep, TimerStep, CacheStep, CarryStep, MutexStep,
   CountStep DEF Inv

\* The inductive invariant holds in every behaviour of the client.
THEOREM Invariance == Spec => []Inv
BY InitInv, StepInv, PTL DEF Spec

\* Every variable of the client keeps its type; no slot or timer is negative.
THEOREM TypeCorrect == Spec => []TypeOK
<1>1. Inv => TypeOK
  BY DEF Inv
<1> QED
  BY <1>1, Invariance, PTL

\* However many goroutines use the client and whichever of them give up, no
\* two requests are sent in slots less than an interval apart.
THEOREM SlotsStayApart == Spec => []SlotsApart
<1>1. Inv => SlotsApart
  BY DEF Inv
<1> QED
  BY <1>1, Invariance, PTL

\* Among slots up to t that are an interval apart no two lie in the same
\* interval, which bounds their number.
LEMMA ApartAreFew ==
    ASSUME NEW S \in SUBSET Nat, IsFiniteSet(S), NEW t \in Nat,
           \A s \in S : s <= t,
           \A r, s \in S : r # s => Apart(r, s)
    PROVE  (Cardinality(S) - 1) * Interval <= t
<1> DEFINE k == t \div Interval
           f == [s \in S |-> s \div Interval]
<1>0. Interval \in Nat \ {0}
  BY RestAssumption
<1>1. k \in Nat /\ k * Interval <= t /\ t < k * Interval + Interval
  BY <1>0
<1>2. ASSUME NEW s \in S
      PROVE  /\ f[s] \in 0 .. k
             /\ f[s] * Interval <= s /\ s < f[s] * Interval + Interval
  <2>1. f[s] \in Nat /\ f[s] * Interval <= s
        /\ s < f[s] * Interval + Interval
    BY <1>0
  <2>2. s <= t
    OBVIOUS
  <2> HIDE DEF f, k
  <2>3. ~(f[s] > k)
    <3> SUFFICES ASSUME f[s] >= k + 1 PROVE FALSE
      BY <1>1, <2>1
    <3>1. f[s] * Interval >= (k + 1) * Interval
      BY <1>0, <1>1, <2>1
    <3>2. (k + 1) * Interval = k * Interval + Interval
      BY <1>0, <1>1
    <3> QED
      BY <1>0, <1>1, <2>1, <2>2, <3>1, <3>2
  <2> QED
    BY <1>1, <2>1, <2>3
<1>3. f \in [S -> 0 .. k]
  BY <1>2
<1> HIDE DEF f, k
<1>4. ASSUME NEW r \in S, NEW s \in S, r # s, f[r] = f[s]
      PROVE  FALSE
  BY <1>0, <1>1, <1>2, <1>4 DEF Apart
<1>5. IsFiniteSet(0 .. k) /\ Cardinality(0 .. k) = k + 1
  BY <1>1, FS_Interval
<1>6. Cardinality(S) \in Nat
  BY FS_CardinalityType
<1>7. Cardinality(S) <= k + 1
  <2> SUFFICES ASSUME Cardinality(0 .. k) < Cardinality(S) PROVE FALSE
    BY <1>1, <1>5, <1>6
  <2>1. PICK r, s \in S : r # s /\ f[r] = f[s]
    BY <1>3, <1>5, FS_PigeonHole
  <2> QED
    BY <1>4, <2>1
<1>8. (Cardinality(S) - 1) * Interval <= k * Interval
  BY <1>0, <1>1, <1>6, <1>7
<1> QED
  BY <1>0, <1>1, <1>6, <1>8

\* The client never transmits more than its rate allows, however many
\* goroutines it serves and however late they wake.
THEOREM RateIsBounded == Spec => []RateBound
<1>1. Inv => RateBound
  <2> SUFFICES ASSUME Inv PROVE RateBound
    OBVIOUS
  <2>1. used \in SUBSET Nat /\ now \in Nat
    BY RestAssumption DEF Inv, TypeOK
  <2>2. (Cardinality(used) - 1) * Interval <= now
    BY <2>1, ApartAreFew DEF Inv, CountInv, SlotsApart
  <2> QED
    BY <2>2 DEF RateBound, Inv, CountInv
<1> QED
  BY <1>1, Invariance, PTL

\* Whatever fails, tokenMu is released, and its holder never waits for it.
THEOREM TokenMuIsAlwaysReleased == Spec => []TokenMuIsReleased
<1>1. Inv => TokenMuIsReleased
  BY RestAssumption DEF Inv, TypeOK, TimerInv, MutexInv, TokenMuIsReleased
<1> QED
  BY <1>1, Invariance, PTL

\* Only a request whose timer has not fired is transmitted.
LEMMA CarryingInTime ==
    ASSUME Inv, [Next]_vars, NEW c \in Callers, Carrying(c)
    PROVE  now <= req[c].deadline
<1>1. pc[c] = "sleep" /\ pc'[c] = "flight" /\ req[c].leg = "read"
  BY DEF Carrying
<1>2. pc \in [Callers -> {"idle", "token", "check", "slot", "sleep", "flight",
                          "issued"}]
  BY DEF Inv, TypeOK
<1>3. PICK d \in Callers : Caller(d)
  BY <1>1, <1>2 DEF Next, Tick, vars
<1>4. Transmit(d) /\ d = c
  <2>1. d = c
    BY <1>1, <1>2, <1>3
       DEF Caller, Begin, Provide, Lock, Hit, Miss, Reserve, Abandon, Transmit,
           TimesOut, Issue, Store, Answer, Lose, Fails, Returns, Goes
  <2> QED
    BY <1>1, <1>2, <1>3, <2>1
       DEF Caller, Begin, Provide, Lock, Hit, Miss, Reserve, Abandon, Transmit,
           TimesOut, Issue, Store, Answer, Lose, Fails, Returns, Goes
<1> QED
  BY <1>1, <1>4 DEF Transmit, InTime, Deadline

\* Whatever a token waited for, a read that carries it is sent before the
\* server lets it expire, provided the margin covers two request timeouts.
THEOREM TokensAreFresh == Spec => NoExpiredTokenSent
<1>1. ASSUME Inv, [Next]_vars
      PROVE  \A c \in Callers : Carrying(c) => now <= req[c].token
  <2> SUFFICES ASSUME NEW c \in Callers, Carrying(c)
               PROVE  now <= req[c].token
    OBVIOUS
  <2>1. now <= req[c].deadline
    BY <1>1, CarryingInTime
  <2>2. req[c].deadline <= req[c].token
    BY <1>1 DEF Inv, CarryInv, Carrying
  <2>3. now \in Int /\ req[c].deadline \in Int /\ req[c].token \in Int
    BY <1>1 DEF Inv, TypeOK, Requests, Times, Carrying
  <2> QED
    BY <2>1, <2>2, <2>3
<1> QED
  BY <1>1, Invariance, PTL DEF Spec, NoExpiredTokenSent

\* A token is replaced only within the margin of its end, also by goroutines
\* that waited for tokenMu while another one fetched it.
THEOREM TokensAreShared == Spec => TokensAreKept
<1>1. ASSUME Inv, [Next]_vars, NEW c \in Callers,
             pc[c] = "check", req'[c].leg = "token", cached # Nil
      PROVE  cached - Margin <= now
  <2>1. req[c].leg # "token" /\ pc[c] # "idle" /\ pc[c] # "sleep" /\ pc[c] # "issued"
    BY <1>1 DEF Inv, TimerInv
  <2>2. req \in [Callers -> Requests]
    BY <1>1 DEF Inv, TypeOK
  <2>3. req' # req
    BY <1>1, <2>1
  <2>4. PICK d \in Callers : Caller(d)
    BY <1>1, <2>3 DEF Next, Tick, vars
  <2>5. d = c
    <3>1. req'[c] # req[c]
      BY <1>1, <2>1
    <3>2. \E r : req' = [req EXCEPT ![d] = r]
      BY <2>2, <2>3, <2>4
         DEF Caller, Begin, Provide, Lock, Hit, Miss, Reserve, Abandon, Transmit,
             TimesOut, Issue, Store, Answer, Lose, Fails, Returns
    <3> QED
      BY <2>2, <3>1, <3>2
  <2>6. Miss(c)
    <3>1. ~Hit(c)
      BY <1>1, <2>1, <2>2 DEF Hit, Requests
    <3> QED
      BY <1>1, <2>4, <2>5, <3>1
         DEF Caller, Begin, Provide, Lock, Reserve, Abandon, Transmit, TimesOut,
             Issue, Store, Answer, Lose
  <2>7. ~(now < cachedUntil)
    BY <1>1, <2>6 DEF Miss, Usable
  <2> QED
    BY <1>1, <2>7, RestAssumption DEF Inv, TypeOK, Times, CacheInv
<1>2. ASSUME Inv, [Next]_vars
      PROVE  \A c \in Callers :
                pc[c] = "check" /\ req'[c].leg = "token" /\ cached # Nil
                   => cached - Margin <= now
  BY <1>1, <1>2
<1> QED
  BY <1>2, Invariance, PTL DEF Spec, TokensAreKept
=============================================================================
