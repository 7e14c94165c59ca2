----------------------------- MODULE LoopProofs -----------------------------
(***************************************************************************)
(* RunLoop for every setting of the backoff, any number of keys and any    *)
(* number of attempts.                                                     *)
(***************************************************************************)
EXTENDS RunLoop, TLAPS

-----------------------------------------------------------------------------
(* Backoff.                                                                *)

\* What normalized makes of any configuration can be used.
Usable(b) ==
    /\ b \in Configs
    /\ b.min > 0 /\ b.max >= b.min /\ b.factor >= 1 /\ b.jitter <= Parts

LEMMA NormalizedIsUsable ==
    ASSUME NEW b \in Configs
    PROVE  Usable(Normalized(b))
BY BackoffAssumption DEF Usable, Normalized, Configs

\* The jitter takes off a part of the delay, not more than all of it.
LEMMA ShakenIsLess ==
    ASSUME NEW b, Usable(b), NEW d \in Nat, NEW r \in 0 .. Grain - 1
    PROVE  Shaken(b, d, r) \in Int /\ Shaken(b, d, r) <= d
<1> DEFINE whole == Parts * Grain
           left == whole - b.jitter * r
<1>1. CASE b.jitter > 0
  <2>1. whole \in Nat \ {0} /\ b.jitter * r \in Nat
    BY <1>1, BackoffAssumption DEF Usable, Configs
  <2>2. b.jitter * r <= whole
    <3>1. b.jitter * r <= Parts * r
      BY <1>1, BackoffAssumption DEF Usable, Configs
    <3>2. Parts * r <= Parts * Grain
      BY BackoffAssumption
    <3> QED
      BY <2>1, <3>1, <3>2, BackoffAssumption DEF Usable, Configs
  <2>3. left \in Nat /\ left <= whole
    BY <2>1, <2>2
  <2>4. (d * left) \div whole \in Int /\ (d * left) \div whole <= d
    <3> HIDE DEF left, whole
    <3> QED
      BY <2>1, <2>3
  <2> QED
    BY <1>1, <2>4 DEF Shaken
<1>2. CASE ~(b.jitter > 0)
  BY <1>2 DEF Shaken
<1> QED
  BY <1>1, <1>2

\* Whatever the growth, the delay is between Min and Max (backoff.go:17-31).
LEMMA DelayIsBounded ==
    ASSUME NEW b, Usable(b), NEW k, Grown(b, k) \in Nat,
           NEW d \in Delays(b, k)
    PROVE  d \in b.min .. b.max
<1>1. PICK r \in 0 .. Grain - 1 : d = Delay(b, k, r)
  BY DEF Delays
<1> DEFINE c == Capped(b, Grown(b, k))
           s == Shaken(b, c, r)
<1>2. c \in Nat /\ c <= b.max
  BY DEF Capped, Usable, Configs
<1>3. s \in Int /\ s <= c
  BY <1>2, ShakenIsLess
<1> HIDE DEF s, c
<1>4. Floored(b, s) \in b.min .. b.max
  BY <1>2, <1>3 DEF Floored, Usable, Configs
<1> QED
  BY <1>1, <1>4 DEF Delay, c, s

\* The growth of a normalized configuration is a number.
LEMMA GrownIsANumber ==
    ASSUME NEW b \in Settings, NEW n \in 0 .. MaxAttempts
    PROVE  Grown(Normalized(b), n) \in Nat
<1> DEFINE e == IF n < 1 THEN 0 ELSE n - 1
<1>1. e \in 0 .. MaxAttempts
  BY RunLoopAssumption
<1>2. Normalized(b).factor ^ e \in Nat
  BY <1>1, PowersAssumption
<1>3. Normalized(b).min \in Nat
  BY NormalizedIsUsable, RunLoopAssumption DEF Usable, Configs
<1>4. Grown(Normalized(b), n) = Normalized(b).min * Normalized(b).factor ^ e
  BY DEF Grown
<1> HIDE DEF e
<1> QED
  BY <1>2, <1>3, <1>4

-----------------------------------------------------------------------------
(* The loop.                                                               *)

\* The configuration was normalized when the connection was dialled.
BackoffIsUsable == \E b \in Settings : backoff = Normalized(b)

\* A mark stands for the one reissue it was set for.
MarkedOnce ==
    /\ reissuedFor = Unmarked => reissues = 0
    /\ runPc = "reissue" => reissues = 0 /\ reissuedFor = Rejected
    /\ runPc = "mark" => said = Rejected
    /\ reissues <= 1

\* A spent key was issued, and is neither in the cache, once its reissue is
\* over, nor about to be used.
SpentIsGone ==
    /\ spent \subseteq 1 .. issued
    /\ {key, dialKey, cached} \subseteq {NoKey} \cup 1 .. issued
    /\ runPc # "reissue" => cached \notin spent
    /\ runPc = "dial" => dialKey \notin spent
    /\ runPc = "read" => key \notin spent
    /\ runPc = "dial" => dialKey # NoKey

Inv ==
    /\ TypeOK /\ BackoffIsUsable /\ MarkedOnce /\ SpentIsGone
    /\ OccupiedNeverChurns /\ DelayInBounds

\* A loop that starts has nothing marked and no spent key.
LEMMA InitInv == Init => Inv
<1> SUFFICES ASSUME Init PROVE Inv
  OBVIOUS
<1>1. PICK b \in Settings : backoff = Normalized(b)
  BY DEF Init
<1>2. backoff \in Configs
  BY <1>1, NormalizedIsUsable, RunLoopAssumption DEF Usable
<1>3. /\ runPc = "read" /\ said = "accepted" /\ reissuedFor = Unmarked
      /\ closed = FALSE /\ attempt = 0 /\ delay = 0 /\ reissues = 0
      /\ key = 1 /\ cached = 1 /\ issued = 1 /\ dialKey = NoKey
      /\ spent = {}
  BY DEF Init
<1>4. TypeOK
  <2>1. 1 \in Keys /\ 0 \in 0 .. MaxAttempts
    BY RunLoopAssumption DEF Keys
  <2>2. delay \in Int /\ reissues \in Nat
    BY <1>3
  <2> QED
    BY <1>2, <1>3, <2>1, <2>2 DEF TypeOK, Said
<1>5. BackoffIsUsable /\ MarkedOnce
  BY <1>1, <1>3 DEF BackoffIsUsable, MarkedOnce
<1>6. SpentIsGone
  <2>1. 1 \in 1 .. issued
    BY <1>3
  <2> QED
    BY <1>3, <2>1 DEF SpentIsGone
<1>7. OccupiedNeverChurns /\ DelayInBounds
  BY <1>3 DEF OccupiedNeverChurns, DelayInBounds, Occupied
<1> QED
  BY <1>4, <1>5, <1>6, <1>7 DEF Inv

\* The provider: a key it issues is new, whoever asked for it.
LEMMA IssuesNew ==
    ASSUME Inv, NEW ok \in BOOLEAN, Issues(ok)
    PROVE  /\ issued' \in Keys /\ issued' >= issued
           /\ ok => cached' = issued' /\ issued' \notin 1 .. issued
           /\ 1 .. issued \subseteq 1 .. issued'
<1>1. issued \in Keys /\ MaxKeys \in Nat
  BY RunLoopAssumption DEF Inv, TypeOK
<1>2. CASE ok
  BY <1>1, <1>2 DEF Issues, Keys
<1>3. CASE ~ok
  BY <1>1, <1>3 DEF Issues, Keys
<1> QED
  BY <1>2, <1>3

\* A key just issued is in the cache and was never spent.
LEMMA IssuedOutcome ==
    ASSUME Inv, NEW ok \in BOOLEAN, Issues(ok), ok
    PROVE  cached' = issued' /\ issued' \in 1 .. issued'
           /\ issued' \notin spent
<1>1. issued' \in Keys /\ issued' \notin 1 .. issued /\ cached' = issued'
  BY IssuesNew
<1>2. spent \subseteq 1 .. issued
  BY DEF Inv, SpentIsGone
<1>3. issued' \in 1 .. issued'
  BY <1>1 DEF Keys
<1> QED
  BY <1>1, <1>2, <1>3

\* The delay that Pace chooses is in bounds.
LEMMA PacedInBounds ==
    ASSUME Inv, Pace
    PROVE  Usable(backoff) /\ delay' \in backoff.min .. backoff.max
<1>1. PICK b \in Settings : backoff = Normalized(b)
  BY DEF Inv, BackoffIsUsable
<1>2. Usable(backoff)
  BY <1>1, NormalizedIsUsable, RunLoopAssumption
<1>3. Grown(backoff, attempt) \in Nat
  BY <1>1, GrownIsANumber DEF Inv, TypeOK
<1> QED
  BY <1>2, <1>3, DelayIsBounded DEF Pace

\* One lemma for each conjunct; every action is a step of every proof.
LEMMA TypeStep == ASSUME Inv, Next PROVE TypeOK'
<1>0. TypeOK
  BY DEF Inv
<1> USE DEF TypeOK, Said
<1>1. ASSUME NEW m \in Said, Hear(m) PROVE TypeOK'
  BY <1>0, <1>1 DEF Hear, Cleared
<1>2. CASE Close
  BY <1>0, <1>2 DEF Close, keyVars, history
<1>3. CASE OtherReissue
  BY <1>0, <1>3, IssuesNew DEF OtherReissue, CacheCleared, history
<1>4. CASE Judge
  BY <1>0, <1>4, RunLoopAssumption DEF Judge, keyVars, history
<1>5. CASE Mark
  BY <1>0, <1>5 DEF Mark, Inv, MarkedOnce
<1>6. CASE Reissue
  BY <1>0, <1>6, IssuesNew DEF Reissue, CacheCleared
<1>7. CASE Pace
  <2>1. delay' \in Int
    BY <1>7, PacedInBounds DEF Usable, Configs
  <2> QED
    BY <1>0, <1>7, <2>1 DEF Pace, keyVars, history
<1>8. CASE Wake
  BY <1>0, <1>8 DEF Wake, keyVars, history
<1>9. CASE KeyObtained
  BY <1>0, <1>9, IssuesNew DEF KeyObtained, history
<1>10. CASE KeyUnavailable \/ DialFails
  BY <1>0, <1>10 DEF KeyUnavailable, DialFails, RedialFails
<1>11. CASE Install
  BY <1>0, <1>11, <1>0 DEF Install, Inv, SpentIsGone
<1> QED
  BY <1>1, <1>2, <1>3, <1>4, <1>5, <1>6, <1>7, <1>8, <1>9, <1>10, <1>11
     DEF Next

\* The rejection stays marked until a socket is installed and accepted.
LEMMA MarkStep == ASSUME Inv, Next PROVE MarkedOnce'
<1>0. TypeOK /\ MarkedOnce
  BY DEF Inv
<1> USE DEF MarkedOnce
<1>1. ASSUME NEW m \in Said, Hear(m) PROVE MarkedOnce'
  BY <1>0, <1>1 DEF Hear, Cleared, TypeOK
<1>2. CASE Close \/ OtherReissue
  BY <1>0, <1>2 DEF Close, OtherReissue, keyVars, history
<1>3. CASE Judge
  BY <1>0, <1>3 DEF Judge, keyVars, history, Reissuable
<1>4. CASE Mark
  <2>1. said = Rejected /\ Rejected # Unmarked
    BY <1>0, <1>4 DEF Mark, Rejected, Unmarked
  <2>2. reissuedFor # said => reissuedFor = Unmarked
    BY <1>0, <2>1 DEF TypeOK
  <2> QED
    BY <1>0, <1>4, <2>1, <2>2 DEF Mark
<1>5. CASE Reissue
  <2>1. reissuedFor' # Unmarked /\ reissues' = 1 /\ runPc' = "pace"
    BY <1>0, <1>5 DEF Reissue, Rejected, Unmarked
  <2> QED
    BY <2>1
<1>6. CASE Pace \/ Wake \/ KeyObtained \/ Install
  BY <1>0, <1>6 DEF Pace, Wake, KeyObtained, Install, keyVars, history
<1>7. CASE KeyUnavailable \/ DialFails
  BY <1>0, <1>7 DEF KeyUnavailable, DialFails, RedialFails
<1> QED
  BY <1>1, <1>2, <1>3, <1>4, <1>5, <1>6, <1>7 DEF Next

\* No step brings a discarded key back into use.
LEMMA SpentStep == ASSUME Inv, Next PROVE SpentIsGone'
<1>0. TypeOK /\ SpentIsGone /\ NoKey \notin Nat
  BY RunLoopAssumption DEF Inv
<1> USE DEF SpentIsGone
<1>known. spent \subseteq 1 .. issued /\ NoKey \notin spent
       /\ key # NoKey
  <2>1. Keys \subseteq Nat
    BY RunLoopAssumption DEF Keys
  <2>2. spent \subseteq Keys /\ key \in Keys
    BY <1>0 DEF TypeOK
  <2>3. spent \subseteq 1 .. issued
    BY <1>0
  <2> QED
    BY <1>0, <2>1, <2>2, <2>3
<1>1. ASSUME NEW m \in Said, Hear(m) PROVE SpentIsGone'
  BY <1>0, <1>1 DEF Hear
<1>2. CASE Close
  BY <1>0, <1>2 DEF Close, keyVars, history
<1>3. CASE OtherReissue
  <2>1. PICK ok \in BOOLEAN : Issues(ok) /\ (~ok => cached' = CacheCleared)
    BY <1>3 DEF OtherReissue
  <2>2. UNCHANGED <<key, dialKey, spent, runPc>>
    BY <1>3 DEF OtherReissue, history
  <2>3. cached' \in {NoKey} \cup 1 .. issued' /\ cached' \notin spent
    BY <1>known, <2>1, IssuedOutcome DEF CacheCleared
  <2> QED
    BY <1>0, <1>known, <2>1, <2>2, <2>3, IssuesNew
<1>4. CASE Judge
  BY <1>0, <1>4 DEF Judge, keyVars, history
<1>5. CASE Mark
  <2>1. key \in 1 .. issued
    BY <1>0, <1>known DEF TypeOK, Keys
  <2> QED
    BY <1>0, <1>5, <2>1 DEF Mark
<1>6. CASE Reissue
  <2>1. PICK ok \in BOOLEAN :
           /\ Issues(ok)
           /\ IF ok THEN key' = issued'
                    ELSE cached' = CacheCleared /\ UNCHANGED key
    BY <1>6 DEF Reissue
  <2>2. UNCHANGED <<dialKey, spent>> /\ runPc' = "pace"
    BY <1>6 DEF Reissue
  <2>3. cached' \in {NoKey} \cup 1 .. issued' /\ cached' \notin spent
    BY <1>known, <2>1, IssuedOutcome DEF CacheCleared
  <2>4. key' \in {NoKey} \cup 1 .. issued'
    BY <1>0, <2>1, IssuedOutcome, IssuesNew
  <2> QED
    BY <1>0, <1>known, <2>1, <2>2, <2>3, <2>4, IssuesNew
<1>7. CASE Pace \/ Wake
  BY <1>0, <1>7 DEF Pace, Wake, keyVars, history
<1>8. CASE KeyObtained
  <2>1. UNCHANGED <<key, spent>> /\ dialKey' = cached'
        /\ runPc = "redial" /\ runPc' = "dial"
    BY <1>8 DEF KeyObtained, history
  <2>2. CASE cached # NoKey /\ UNCHANGED <<cached, issued>>
    BY <1>0, <2>1, <2>2
  <2>3. CASE Issues(TRUE)
    <3>1. cached' \in 1 .. issued' /\ cached' \notin spent
      BY <1>known, <2>3, IssuedOutcome
    <3>2. cached' # NoKey
      BY <1>0, <3>1
    <3> QED
      BY <1>0, <2>1, <2>3, <3>1, <3>2, IssuesNew
  <2> QED
    BY <1>8, <2>2, <2>3 DEF KeyObtained
<1>9. CASE KeyUnavailable \/ DialFails
  BY <1>0, <1>9 DEF KeyUnavailable, DialFails, RedialFails
<1>10. CASE Install
  BY <1>0, <1>10 DEF Install
<1> QED
  BY <1>1, <1>2, <1>3, <1>4, <1>5, <1>6, <1>7, <1>8, <1>9, <1>10 DEF Next

\* The conjuncts that neither the mark nor the spent keys touch.
LEMMA OtherConjunctsStep ==
    ASSUME Inv, Next
    PROVE  (BackoffIsUsable /\ OccupiedNeverChurns /\ DelayInBounds)'
<1> USE DEF Inv, BackoffIsUsable, OccupiedNeverChurns, DelayInBounds
<1>1. ASSUME NEW m \in Said, Hear(m)
      PROVE  (BackoffIsUsable /\ OccupiedNeverChurns /\ DelayInBounds)'
  BY <1>1 DEF Hear, Occupied
<1>2. CASE Close \/ OtherReissue
  BY <1>2 DEF Close, OtherReissue, history
<1>3. CASE Judge
  BY <1>3 DEF Judge, keyVars, history, Reissuable, Occupied, Rejected
<1>4. CASE Pace
  <2>1. delay' \in backoff.min .. backoff.max /\ backoff.min > 0
        /\ backoff \in Configs
    BY <1>4, PacedInBounds DEF Usable
  <2> QED
    BY <1>4, <2>1 DEF Pace, Configs
<1>5. CASE KeyUnavailable \/ DialFails
  BY <1>5 DEF KeyUnavailable, DialFails, RedialFails, Occupied
<1>6. CASE Mark \/ Reissue \/ Wake \/ KeyObtained \/ Install
  BY <1>6 DEF Mark, Reissue, Wake, KeyObtained, Install, history, keyVars
<1> QED
  BY <1>1, <1>2, <1>3, <1>4, <1>5, <1>6 DEF Next

\* The strengthened invariant holds in every reachable state.
LEMMA Invariance == Spec => []Inv
<1>1. Inv /\ UNCHANGED vars => Inv'
  BY DEF vars, keyVars, history, Inv, TypeOK, BackoffIsUsable, MarkedOnce,
         SpentIsGone, OccupiedNeverChurns, DelayInBounds
<1>2. Inv /\ Next => Inv'
  BY TypeStep, MarkStep, SpentStep, OtherConjunctsStep DEF Inv
<1> QED
  BY <1>1, <1>2, InitInv, PTL DEF Spec

-----------------------------------------------------------------------------
\* Every variable of RunLoop keeps its type.
THEOREM TypeCorrect == Spec => []TypeOK
<1>1. Inv => TypeOK
  BY DEF Inv
<1> QED
  BY <1>1, Invariance, PTL

\* However long the server keeps rejecting keys, one is asked for between two
\* accepted requests (reader.go:53-57).
THEOREM OneReissue == Spec => []ReissuedOnce
<1>1. Inv => ReissuedOnce
  BY DEF Inv, MarkedOnce, ReissuedOnce
<1> QED
  BY <1>1, Invariance, PTL

\* A rejected key that was given up is on no socket again, whoever else
\* shares the provider (approval.go:55-60).
THEOREM SpentForGood == Spec => []SpentKeysStaySpent
<1>1. Inv => SpentKeysStaySpent
  BY DEF Inv, SpentIsGone, SpentKeysStaySpent
<1> QED
  BY <1>1, Invariance, PTL

\* An occupied session leads to no key and no socket (reader.go:42-49).
THEOREM OccupiedEnds == Spec => []OccupiedNeverChurns
<1>1. Inv => OccupiedNeverChurns
  BY DEF Inv
<1> QED
  BY <1>1, Invariance, PTL

\* For every configuration and attempt the delay is positive and within Min
\* and Max (backoff.go:17-31, 57-72).
THEOREM DelaysAreBounded == Spec => []DelayInBounds
<1>1. Inv => DelayInBounds
  BY DEF Inv
<1> QED
  BY <1>1, Invariance, PTL

=============================================================================
