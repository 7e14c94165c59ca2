------------------------------- MODULE RunLoop -------------------------------
(***************************************************************************)
(* The decisions of Conn.run about approval keys and delays: reader.go,    *)
(* the reissue and redial of reconnect.go and the default provider of      *)
(* approval.go.  Conn has what happens to requests and sockets meanwhile.  *)
(*                                                                         *)
(* Approval keys are numbered in the order the REST endpoint issues them.  *)
(* The provider may be shared: another connection reissues through it.     *)
(* clientProvider.mu is held through a whole call, so a call is one step.  *)
(***************************************************************************)
EXTENDS Backoff

CONSTANTS
    Settings,     \* the BackoffConfigs an application may give
    MaxKeys,      \* bound: the approval keys issued
    MaxAttempts,  \* bound: the reconnect attempts
    NoKey         \* the empty string

\* What an ACK may say that matters to the loop; "io" is the failure of the
\* socket or of a redial.
Occupied == "OPSP8996"
Rejected == "OPSP0011"
Said == {"accepted", "io", Occupied, Rejected}

Unmarked == ""    \* reissuedFor: no code

ASSUME RunLoopAssumption ==
    /\ MaxKeys \in Nat \ {0} /\ MaxAttempts \in Nat /\ NoKey \notin Nat
    /\ Settings \subseteq Configs

\* A fact about powers that the provers do not know and TLC computes.
ASSUME PowersAssumption ==
    \A b \in Settings, n \in 0 .. MaxAttempts :
        Normalized(b).factor ^ n \in Nat

VARIABLES
    backoff,      \* Conn.backoff, as normalized by Dial
    runPc,        \* where the run loop is
    said,         \* what ended or last answered on the socket
    attempt,      \* the counter of run
    delay,        \* the delay it sleeps
    key, reissuedFor, closed,  \* fields of Conn
    dialKey,      \* the key redial obtained
    cached,       \* clientProvider.cached
    issued,       \* how many keys the REST endpoint issued
    \* history: the keys whose rejection called for a reissue; the calls of
    \* Reissue since the last accepted request
    spent, reissues

keyVars == <<key, reissuedFor, dialKey, cached, issued>>
history == <<spent, reissues>>
vars == <<backoff, runPc, said, attempt, delay, closed, keyVars, history>>

Init ==
    /\ backoff \in {Normalized(b) : b \in Settings}
    /\ runPc = "read" /\ said = "accepted" /\ attempt = 0 /\ delay = 0
    /\ key = 1 /\ reissuedFor = Unmarked /\ closed = FALSE /\ dialKey = NoKey
    /\ cached = 1 /\ issued = 1
    /\ spent = {} /\ reissues = 0

-----------------------------------------------------------------------------
(* The provider.                                                           *)

\* The REST endpoint issues a key, or fails; ok tells which.
Issues(ok) ==
    IF ok THEN issued < MaxKeys /\ issued' = issued + 1 /\ cached' = issued + 1
          ELSE UNCHANGED issued

\* Mutant: a failed Reissue leaves the refused key in the cache.
CacheKept == cached

\* What a failed Reissue leaves in the cache.
CacheCleared == NoKey

\* Another connection that shares the provider reissues.
OtherReissue ==
    /\ \E ok \in BOOLEAN : Issues(ok) /\ (~ok => cached' = CacheCleared)
    /\ UNCHANGED <<backoff, runPc, said, attempt, delay, closed, key, reissuedFor,
                   dialKey, history>>

-----------------------------------------------------------------------------
(* The reader.                                                             *)

\* Mutants: OPSP8996 in the reissuable set; clearRejection after every ACK.
ReissuableAll(m) == m \in {Rejected, Occupied}
ClearedAlways(m) == Unmarked

\* reissuableCodes, which classifyAck consults first.
Reissuable(m) == m \in {Rejected}

\* clearRejection, when a request is accepted.
Cleared(m) == IF m = "accepted" THEN Unmarked ELSE reissuedFor

\* An ACK is read, or the socket fails.  An ACK that refuses a stream changes
\* nothing here.
Hear(m) ==
    /\ runPc = "read"
    /\ said' = m
    /\ reissuedFor' = Cleared(m)
    /\ reissues' = IF m = "accepted" THEN 0 ELSE reissues
    /\ runPc' = IF m = "accepted" THEN "read" ELSE "failed"
    /\ UNCHANGED <<backoff, attempt, delay, closed, key, dialKey, cached, issued,
                   spent>>

Close ==
    /\ ~closed /\ closed' = TRUE
    /\ UNCHANGED <<backoff, runPc, said, attempt, delay, keyVars, history>>

-----------------------------------------------------------------------------
(* The loop.                                                               *)

\* readLoop returned: the loop ends, or drops the socket and counts a new
\* attempt.
Judge ==
    /\ runPc = "failed"
    /\ \/ /\ closed \/ (said = Occupied /\ ~Reissuable(said))
          /\ runPc' = "exit" /\ UNCHANGED attempt
       \/ /\ ~closed /\ ~(said = Occupied /\ ~Reissuable(said))
          /\ attempt < MaxAttempts /\ attempt' = attempt + 1
          /\ runPc' = IF Reissuable(said) THEN "mark" ELSE "pace"
    /\ UNCHANGED <<backoff, said, delay, closed, keyVars, history>>

\* markRejection: a repeat of the code the key was reissued for is no news.
Mark ==
    /\ runPc = "mark"
    /\ reissuedFor' = said
    /\ IF reissuedFor = said
       THEN runPc' = "pace" /\ UNCHANGED spent
       ELSE runPc' = "reissue" /\ spent' = spent \cup {key}
    /\ UNCHANGED <<backoff, said, attempt, delay, closed, key, dialKey, cached,
                   issued, reissues>>

\* reissue: a failure leaves c.key as it is.
Reissue ==
    /\ runPc = "reissue"
    /\ \E ok \in BOOLEAN :
          /\ Issues(ok)
          /\ IF ok THEN key' = issued' ELSE cached' = CacheCleared /\ UNCHANGED key
    /\ reissues' = reissues + 1
    /\ runPc' = "pace"
    /\ UNCHANGED <<backoff, said, attempt, delay, closed, reissuedFor, dialKey,
                   spent>>

Pace ==
    /\ runPc = "pace"
    /\ delay' \in Delays(backoff, attempt)
    /\ runPc' = "sleep"
    /\ UNCHANGED <<backoff, said, attempt, closed, keyVars, history>>

Wake ==
    /\ runPc = "sleep"
    /\ runPc' = IF closed THEN "exit" ELSE "redial"
    /\ UNCHANGED <<backoff, said, attempt, delay, closed, keyVars, history>>

\* Any error of redial comes back through readLoop, which has no socket.
RedialFails ==
    /\ runPc' = "failed" /\ said' = "io"
    /\ UNCHANGED <<backoff, attempt, delay, closed, key, reissuedFor, dialKey, spent,
                   reissues>>

\* ApprovalKey answers from the cache or asks for a key.
KeyObtained ==
    /\ runPc = "redial"
    /\ \/ cached # NoKey /\ UNCHANGED <<cached, issued>>
       \/ cached = NoKey /\ Issues(TRUE)
    /\ dialKey' = cached'
    /\ runPc' = "dial"
    /\ UNCHANGED <<backoff, said, attempt, delay, closed, key, reissuedFor, history>>

KeyUnavailable ==
    /\ runPc = "redial" /\ cached = NoKey
    /\ RedialFails /\ UNCHANGED <<cached, issued>>

\* The dial fails, or Close came first.
DialFails == runPc = "dial" /\ RedialFails /\ UNCHANGED <<cached, issued>>

Install ==
    /\ runPc = "dial" /\ ~closed
    /\ key' = dialKey
    /\ runPc' = "read"
    /\ UNCHANGED <<backoff, said, attempt, delay, closed, reissuedFor, dialKey,
                   cached, issued, spent, reissues>>

Next ==
    \/ \E m \in Said : Hear(m)
    \/ Close \/ OtherReissue
    \/ Judge \/ Mark \/ Reissue \/ Pace \/ Wake
    \/ KeyObtained \/ KeyUnavailable \/ DialFails \/ Install

Spec == Init /\ [][Next]_vars
-----------------------------------------------------------------------------
Keys == 1 .. MaxKeys

\* Every variable keeps its type.
TypeOK ==
    /\ backoff \in Configs /\ said \in Said /\ closed \in BOOLEAN
    /\ runPc \in {"read", "failed", "mark", "reissue", "pace", "sleep", "redial",
                  "dial", "exit"}
    /\ attempt \in 0 .. MaxAttempts /\ delay \in Int
    /\ key \in Keys /\ dialKey \in Keys \cup {NoKey}
    /\ cached \in Keys \cup {NoKey} /\ issued \in Keys
    /\ reissuedFor \in {Unmarked, Rejected}
    /\ spent \in SUBSET Keys /\ reissues \in Nat

\* However long the server keeps rejecting, the loop asks for one new key:
\* the next is asked for only after a request was accepted (reader.go:53-57).
ReissuedOnce == reissues <= 1

\* With the default provider a key that was rejected and given up is never
\* used on a socket again, even if the reissue failed: the failure empties
\* the cache, so the redial has to ask for a key (approval.go:55-60).
SpentKeysStaySpent == runPc = "read" => key \notin spent

\* The answer that another session holds the app key ends the loop: no key is
\* asked for and no socket dialled (errors.go:22-28, reader.go:42-49).
OccupiedNeverChurns == said = Occupied => runPc \in {"failed", "exit"}

\* Whatever the configuration, the growth and the jitter, the loop sleeps at
\* least Min and at most Max (backoff.go:17-31).
DelayInBounds ==
    runPc = "sleep" => 0 < delay /\ delay \in backoff.min .. backoff.max
=============================================================================
