----------------------------- MODULE RestClient -----------------------------
(***************************************************************************)
(* The REST client of kis: the rate limiter (limiter.go), the OAuth token  *)
(* it caches (client.go, auth.go) and the requests that use both           *)
(* (request.go).                                                           *)
(*                                                                         *)
(* Any number of goroutines share one Client.  A Read takes its token      *)
(* first, under tokenMu, which on a miss sends a request of its own; then  *)
(* every request reserves a slot of the limiter, sleeps until it comes and *)
(* transmits.  The timer of a request runs from newRequest on, so it also  *)
(* counts the time spent on the token and in the limiter, but it is looked *)
(* at only by the HTTP exchange.                                           *)
(*                                                                         *)
(* Time is discrete.  A goroutine may be late for its slot; an exchange    *)
(* ends when its timer fires.                                              *)
(***************************************************************************)
EXTENDS Integers, FiniteSets

CONSTANTS
    Callers,      \* goroutines that use the client
    Impatient,    \* those whose context may be cancelled
    Interval,     \* limiter.interval
    Timeout,      \* Config.RequestTimeout
    Margin,       \* the minute taken off the life of a token
    Lives,        \* the expires_in values the server may send
    MaxNow,       \* bound: the time the model covers, and the last slot at
                  \* which a request may still begin
    Nil           \* no token, no holder

\* A token lasts for a request, and the margin covers the exchange that
\* brought it and the request that uses it.
ASSUME RestAssumption ==
    /\ Interval \in Nat \ {0} /\ Timeout \in Nat /\ Margin \in Nat
    /\ MaxNow \in Nat
    /\ 2 * Timeout <= Margin
    /\ Lives \subseteq {l \in Nat : l >= Timeout}
    /\ Impatient \subseteq Callers
    /\ Nil \notin Callers \cup Int

VARIABLES
    now,          \* the clock
    next,         \* limiter.next
    provided,     \* TRUE if the application configured a TokenProvider
    holder,       \* who holds tokenMu
    cached,       \* when the server lets cachedToken expire, if there is one
    cachedUntil,
    pc,           \* where each goroutine is
    req,          \* the locals of its request:
                  \*   leg: "read", the "token" exchange of a read, or a
                  \*     "plain" request that carries no token
                  \*   deadline: when the timer of the request fires
                  \*   inner: the same for the token exchange
                  \*   slot: the slot it reserved
                  \*   token: when the token it holds expires
                  \*   life: the expires_in of the token just issued
    used,         \* the slots in which something was transmitted
    sent          \* how many transmissions there were

cacheVars == <<holder, cached, cachedUntil>>
vars == <<now, next, provided, cacheVars, pc, req, used, sent>>

NoReq == [leg |-> "read", deadline |-> 0, inner |-> 0, slot |-> 0,
          token |-> Nil, life |-> 0]

Init ==
    /\ now = 0 /\ next = 0 /\ provided \in BOOLEAN
    /\ holder = Nil /\ cached = Nil /\ cachedUntil = 0
    /\ pc = [c \in Callers |-> "idle"] /\ req = [c \in Callers |-> NoReq]
    /\ used = {} /\ sent = 0

\* The timer the request under way is bound by.
Deadline(c) == IF req[c].leg = "token" THEN req[c].inner ELSE req[c].deadline

Goes(c, to) == pc' = [pc EXCEPT ![c] = to]

\* The function returns and its locals are gone.
Returns(c) == Goes(c, "idle") /\ req' = [req EXCEPT ![c] = NoReq]

-----------------------------------------------------------------------------
\* Mutant: the exchange that brings a token takes one first.
AllButPlain(leg) == leg # "plain"

\* Which requests take a token first; the exchange that brings it must not.
NeedsToken(leg) == leg = "read"

FirstStep(leg) == IF NeedsToken(leg) THEN "token" ELSE "slot"

\* newRequest: the timer starts.  IssueToken and IssueApprovalKey carry no
\* token and go straight to the limiter.
Begin(c, l) ==
    /\ pc[c] = "idle" /\ next <= MaxNow
    /\ Goes(c, FirstStep(l))
    /\ req' = [req EXCEPT ![c].leg = l, ![c].deadline = now + Timeout]
    /\ UNCHANGED <<now, next, provided, cacheVars, used, sent>>

\* The configured TokenProvider answers, or fails.
Provide(c) ==
    /\ pc[c] = "token" /\ provided
    /\ (Goes(c, "slot") /\ UNCHANGED req) \/ Returns(c)
    /\ UNCHANGED <<now, next, provided, cacheVars, used, sent>>

\* tokenMu is taken, however long that takes: no context ends the wait.
Lock(c) ==
    /\ pc[c] = "token" /\ ~provided /\ holder = Nil
    /\ holder' = c
    /\ Goes(c, "check")
    /\ UNCHANGED <<now, next, provided, cached, cachedUntil, req, used, sent>>

\* Mutant: the margin is taken off once more.
UsableEarly == cached # Nil /\ now + Margin < cachedUntil

Usable == cached # Nil /\ now < cachedUntil

Hit(c) ==
    /\ pc[c] = "check" /\ Usable
    /\ req' = [req EXCEPT ![c].token = cached]
    /\ holder' = Nil
    /\ Goes(c, "slot")
    /\ UNCHANGED <<now, next, provided, cached, cachedUntil, used, sent>>

\* issueToken sends a request of its own, with its own timer.
Miss(c) ==
    /\ pc[c] = "check" /\ ~Usable
    /\ req' = [req EXCEPT ![c].leg = "token", ![c].inner = now + Timeout]
    /\ Goes(c, FirstStep("token"))
    /\ UNCHANGED <<now, next, provided, cacheVars, used, sent>>

-----------------------------------------------------------------------------
\* limiter.Wait, under its mu: the slot given, unless it is past, is the one
\* the last caller left.
Slot == IF next < now THEN now ELSE next

\* Mutant: the next slot is counted from now, not from the one just given.
NextFromNow == now + Interval

NextSlot == Slot + Interval

Reserve(c) ==
    /\ pc[c] = "slot"
    /\ req' = [req EXCEPT ![c].slot = Slot]
    /\ next' = NextSlot
    /\ Goes(c, "sleep")
    /\ UNCHANGED <<now, provided, cacheVars, used, sent>>

\* The request fails and its caller returns, which releases tokenMu.
Fails(c) ==
    /\ Returns(c)
    /\ holder' = IF holder = c THEN Nil ELSE holder
    /\ UNCHANGED <<now, next, provided, cached, cachedUntil, used, sent>>

\* The caller's context ends while it sleeps; its slot stays reserved.
Abandon(c) == pc[c] = "sleep" /\ c \in Impatient /\ Fails(c)

\* Mutant: the limiter gives slots and waits for none.
NoWait(c) == TRUE

SlotCame(c) == req[c].slot <= now

\* What the HTTP client asks before it transmits.
InTime(c) == now <= Deadline(c)

Transmit(c) ==
    /\ pc[c] = "sleep" /\ SlotCame(c) /\ InTime(c)
    /\ used' = used \cup {req[c].slot}
    /\ sent' = sent + 1
    /\ Goes(c, "flight")
    /\ UNCHANGED <<now, next, provided, cacheVars, req>>

\* The timer fired while the request waited for its token or its slot.
TimesOut(c) ==
    /\ pc[c] = "sleep" /\ SlotCame(c) /\ now >= Deadline(c)
    /\ Fails(c)

\* The server issues a token.
Issue(c) ==
    /\ pc[c] = "flight" /\ req[c].leg = "token"
    /\ \E l \in Lives :
          req' = [req EXCEPT ![c].life = l, ![c].token = now + l]
    /\ Goes(c, "issued")
    /\ UNCHANGED <<now, next, provided, cacheVars, used, sent>>

\* Mutant: the token is used for as long as the server lets it live.
UntilTheEnd(c) == now + req[c].life

Until(c) == now + req[c].life - Margin

\* The token arrives and is cached; the read goes on to its own slot.
Store(c) ==
    /\ pc[c] = "issued"
    /\ cached' = req[c].token
    /\ cachedUntil' = Until(c)
    /\ holder' = Nil
    /\ req' = [req EXCEPT ![c].leg = "read", ![c].inner = 0, ![c].life = 0]
    /\ Goes(c, "slot")
    /\ UNCHANGED <<now, next, provided, used, sent>>

\* The answer of a read or a plain request.
Answer(c) ==
    /\ pc[c] = "flight" /\ req[c].leg # "token"
    /\ Returns(c)
    /\ UNCHANGED <<now, next, provided, cacheVars, used, sent>>

\* The exchange fails: refused, cut, out of time or not understood.
Lose(c) == pc[c] \in {"flight", "issued"} /\ Fails(c)

\* Time passes, but not beyond the timer of an exchange.
Tick ==
    /\ now < MaxNow
    /\ \A c \in Callers : pc[c] \in {"flight", "issued"} => now < Deadline(c)
    /\ now' = now + 1
    /\ UNCHANGED <<next, provided, cacheVars, pc, req, used, sent>>

Caller(c) ==
    \/ \E l \in {"read", "plain"} : Begin(c, l)
    \/ Provide(c) \/ Lock(c) \/ Hit(c) \/ Miss(c) \/ Reserve(c) \/ Abandon(c)
    \/ Transmit(c) \/ TimesOut(c) \/ Issue(c) \/ Store(c) \/ Answer(c) \/ Lose(c)

Next == Tick \/ \E c \in Callers : Caller(c)

Spec == Init /\ [][Next]_vars

-----------------------------------------------------------------------------
Times == Int \cup {Nil}
Requests == [leg : {"read", "token", "plain"}, deadline : Nat, inner : Nat,
             slot : Nat, token : Times, life : Nat]

\* Every variable keeps its type.
TypeOK ==
    /\ now \in 0 .. MaxNow /\ next \in Nat /\ provided \in BOOLEAN
    /\ holder \in Callers \cup {Nil} /\ cached \in Times /\ cachedUntil \in Int
    /\ pc \in [Callers -> {"idle", "token", "check", "slot", "sleep", "flight",
                           "issued"}]
    /\ req \in [Callers -> Requests]
    /\ used \in SUBSET Nat /\ sent \in Nat

Apart(s, t) == s + Interval <= t \/ t + Interval <= s

\* Each transmission has a slot of its own: the slots that are used or held
\* are an interval apart, whoever reserved them and whoever gave up
\* (limiter.go:17-24).
SlotsApart ==
    /\ \A s, t \in used : s # t => Apart(s, t)
    /\ \A c \in Callers : pc[c] = "sleep" => \A s \in used : Apart(req[c].slot, s)
    /\ \A c, d \in Callers :
          c # d /\ pc[c] = "sleep" /\ pc[d] = "sleep"
             => Apart(req[c].slot, req[d].slot)

\* However late goroutines wake, the client never gets ahead of its rate.
RateBound == (sent - 1) * Interval <= now

\* Whoever holds tokenMu is about to release it: no path returns with it, and
\* the holder, whose exchange is sent by the same function as the reads that
\* queue for tokenMu, never queues itself (client.go:202-216, request.go:97).
TokenMuIsReleased == holder # Nil => pc[holder] \notin {"idle", "token"}

\* A read is transmitted with a token of the client's own.
Carrying(c) ==
    /\ req[c].leg = "read" /\ req[c].token # Nil
    /\ pc[c] = "sleep" /\ pc'[c] = "flight"

\* A read never carries a token the server has let expire, whatever the
\* token waited for: the answer that brought it, the cache, the limiter
\* (client.go:204, 215).
NoExpiredTokenSent ==
    [][\A c \in Callers : Carrying(c) => now <= req[c].token]_vars

\* A token is not thrown away: the client asks for a new one only within the
\* margin of the end of the last one, so that goroutines that queued up behind
\* an exchange use what it brought (client.go:202-206).
TokensAreKept ==
    [][\A c \in Callers :
          pc[c] = "check" /\ req'[c].leg = "token" /\ cached # Nil
             => cached - Margin <= now]_vars

=============================================================================
