-------------------------------- MODULE Conn --------------------------------
(***************************************************************************)
(* The realtime connection of kis/ws: the Conn of conn.go, its run loop    *)
(* (reader.go) and its reconnects (reconnect.go).                          *)
(*                                                                         *)
(* Five kinds of process share the fields guarded by Conn.mu:              *)
(*   - callers, the application's Subscribe and Unsubscribe calls;         *)
(*   - the run loop, which reads the socket, answers waiters, and after a  *)
(*     failure drops the socket, sleeps, redials and installs the new one; *)
(*   - one resubscribe pass for every socket a redial installed;           *)
(*   - Close;                                                              *)
(*   - outside the program, the server and the link to it.                 *)
(* An action is one critical section of mu, one channel operation or one   *)
(* socket operation, so every interleaving the locks permit is a behaviour.*)
(* Two pairs of steps are one action, since nothing another process does   *)
(* between them can tell: failPending takes the waiters and then tells     *)
(* them, and dropTransport clears c.transport and then closes the socket.  *)
(*                                                                         *)
(* The socket installed as generation g is named g; Dial's own socket is 0.*)
(* The approval key and the pacing of redials are the subject of RunLoop,  *)
(* event publication of EventStream, blocking writes of Shutdown.          *)
(***************************************************************************)
EXTENDS Naturals, Sequences, FiniteSets, SequencesExt

CONSTANTS
    Callers,      \* goroutines of the application
    Streams,      \* the (tr, key) pairs that can be subscribed
    TrOf,         \* the transaction ID of each stream
    Calls,        \* <<caller, op, stream>>: the calls the application makes
    Impatient,    \* the actors whose request context may expire
    Verdicts,     \* the verdicts the server gives
    BlankAcks,    \* TRUE if an ACK may come without a tr_id
    Closes,       \* TRUE if the application calls Close
    MaxOps,       \* bound: calls the application makes in all
    MaxFaults,    \* bound: links lost, dials failed and fatal verdicts
    Closer,       \* the goroutine that runs Close
    Nil           \* no socket, no stream, no tr_id

Fatal == {"occupied", "rejected"}      \* verdicts that end the read loop
Ops == {"sub", "unsub"}
Gens == 1 .. MaxFaults                 \* the generations a redial can install
Sockets == 0 .. MaxFaults
Actors == Callers \cup Gens            \* whoever runs Conn.request

ASSUME ConnAssumption ==
    /\ MaxFaults \in Nat /\ MaxOps \in Nat
    /\ Callers \cap Nat = {}
    /\ Nil \notin Nat \cup Streams
    /\ Closer \notin Actors
    /\ Verdicts \subseteq {"ok", "refused"} \cup Fatal
    /\ Calls \subseteq Callers \X Ops \X Streams
    /\ Impatient \subseteq Actors \cup {Closer}
    /\ DOMAIN TrOf = Streams
    /\ BlankAcks \in BOOLEAN /\ Closes \in BOOLEAN

VARIABLES
    \* fields of Conn, guarded by mu; a subscription is its stream and a
    \* pendingAck is the actor that waits on it
    transport, generation, subs, pending, closed,
    \* where the run loop is
    runPc,
    \* the sockets this process has open; whether the newest link is up; the
    \* requests on it the server has not answered; the streams it was last
    \* asked for and has not refused
    open, up, wire, served,
    \* Conn.request: where each actor is, its arguments and captured socket,
    \* and the verdict in the channel it waits on
    pc, req, res,
    \* resubscribe: what a pass has left to restore
    todo,
    \* Close
    closer, closeTodo, closeSock,
    \* the calls made and the faults met, for the bounds
    ops, faults

connVars == <<transport, generation, subs, pending, closed>>
netVars == <<open, up, wire, served>>
reqVars == <<pc, req, res>>
closeVars == <<closer, closeTodo, closeSock>>
budgets == <<ops, faults>>
vars == <<connVars, runPc, netVars, reqVars, todo, closeVars, budgets>>

NoReq == [op |-> "sub", stream |-> Nil, sock |-> Nil]

Frame(who, o, s) == [by |-> who, op |-> o, stream |-> s]

\* close(c.events) and close(c.stopped) are the deferred calls of run.
EventsClosed == runPc \in {"exited", "done"}
Stopped == runPc = "done"

\* close(c.done) and c.cancel().
Cancelled == closer \in {"wait", "returned"}

Init ==
    /\ transport = 0 /\ generation = 0 /\ subs = <<>> /\ pending = <<>>
    /\ closed = FALSE /\ runPc = "read"
    /\ open = {0} /\ up = TRUE /\ wire = <<>> /\ served = {}
    /\ pc = [a \in Actors |-> IF a \in Callers THEN "idle" ELSE "off"]
    /\ req = [a \in Actors |-> NoReq]
    /\ res = [a \in Actors |-> "none"]
    /\ todo = [g \in Gens |-> <<>>] 
    /\ closer = "idle" /\ closeTodo = <<>> /\ closeSock = Nil
    /\ ops = 0 /\ faults = 0

-----------------------------------------------------------------------------
(* The link and the server.                                                *)

\* The server's session ends: what it had received or granted is gone.
LinkGone == up' = FALSE /\ wire' = <<>> /\ served' = {}

\* Transport.Write succeeds.  On a link that is already dead the frame goes
\* into a buffer nobody reads.
Puts(sock, f) ==
    /\ sock \in open
    /\ IF up /\ sock = generation
       THEN /\ wire' = Append(wire, f)
            /\ served' = IF f.op = "sub" THEN served \cup {f.stream}
                                         ELSE served \ {f.stream}
       ELSE UNCHANGED <<wire, served>>
    /\ UNCHANGED <<open, up>>

\* Conn.write fails: no socket, a closed socket, a dead link, or the end of
\* the writer's context.
CannotPut(sock, expired) ==
    /\ sock \notin open \/ ~up \/ expired
    /\ UNCHANGED netVars

\* The network or the server drops the link.
LinkDown ==
    /\ up /\ faults < MaxFaults
    /\ LinkGone
    /\ faults' = faults + 1
    /\ UNCHANGED <<connVars, runPc, open, reqVars, todo, closeVars, ops>>

-----------------------------------------------------------------------------
(* Conn.request, run by callers and by resubscribe passes.                 *)

\* Mutant: a pair already there is moved.
AddLast(s) == Append(RemoveFirst(subs, s), s)

AddSubscription(s) == IF Contains(subs, s) THEN subs ELSE Append(subs, s)

\* subs never holds a pair twice (SubsOnce), so the first is every one.
RemoveSubscription(s) == RemoveFirst(subs, s)

\* Mutant: a failed write leaves its waiter in c.pending.
ForgetNothing(a) == pending

Forgotten(a) == RemoveFirst(pending, a)

\* Mutant: request no longer selects on c.stopped.
NeverEnds(a) == a \in Impatient \/ (a \in Gens /\ Cancelled)

\* What ends a wait besides an ACK: the request's context, which for a pass
\* derives from c.ctx, or the end of the run loop.
WaitEnds(a) == a \in Impatient \/ (a \in Gens /\ Cancelled) \/ Stopped

\* The first critical section of request, past its closed check.
Register(a, o, s) ==
    /\ subs' = IF o = "sub" THEN AddSubscription(s) ELSE RemoveSubscription(s)
    /\ pending' = Append(pending, a)
    /\ pc' = [pc EXCEPT ![a] = "write"]
    /\ req' = [req EXCEPT ![a] = [op |-> o, stream |-> s, sock |-> transport]]
    /\ UNCHANGED <<transport, generation, closed, res>>

\* request returns, for a pass to the next turn of its loop (whose test of
\* generationChanged is also the one the code makes after an error).
Return(a) ==
    /\ pc' = [pc EXCEPT ![a] = IF a \in Callers THEN "idle" ELSE "check"]
    /\ req' = [req EXCEPT ![a] = NoReq]
    /\ res' = [res EXCEPT ![a] = "none"]

\* Subscribe or Unsubscribe is called; on a closed Conn it just errs.
Call(c, o, s) ==
    /\ pc[c] = "idle" /\ ~closed
    /\ <<c, o, s>> \in Calls /\ ops < MaxOps
    /\ Register(c, o, s)
    /\ ops' = ops + 1
    /\ UNCHANGED <<runPc, netVars, todo, closeVars, faults>>

WriteOk(a) ==
    /\ pc[a] = "write"
    /\ Puts(req[a].sock, Frame(a, req[a].op, req[a].stream))
    /\ pc' = [pc EXCEPT ![a] = "wait"]
    /\ UNCHANGED <<connVars, runPc, req, res, todo, closeVars, budgets>>

WriteFails(a) ==
    /\ pc[a] = "write"
    /\ CannotPut(req[a].sock, a \in Impatient \/ (a \in Gens /\ Cancelled))
    /\ pc' = [pc EXCEPT ![a] = "forget"]
    /\ UNCHANGED <<connVars, runPc, req, res, todo, closeVars, budgets>>

\* After a failed write the waiter is forgotten, then the stream dropped.
Forget(a) ==
    /\ pc[a] = "forget"
    /\ pending' = Forgotten(a)
    /\ pc' = [pc EXCEPT ![a] = "drop"]
    /\ UNCHANGED <<transport, generation, subs, closed, runPc, netVars, req,
                   res, todo, closeVars, budgets>>

\* dropSubscriptionOnFailure, after a failed write or a refusal, and the
\* return of the error.
DropSubscription(a) ==
    /\ pc[a] = "drop"
    /\ subs' = IF req[a].op = "sub" THEN RemoveSubscription(req[a].stream)
                                   ELSE subs
    /\ Return(a)
    /\ UNCHANGED <<transport, generation, pending, closed, runPc, netVars,
                   todo, closeVars, budgets>>

\* The verdict arrives; a refusal goes on to drop the subscription.
Answered(a) ==
    /\ pc[a] = "wait" /\ res[a] # "none"
    /\ IF res[a] = "refused"
       THEN /\ pc' = [pc EXCEPT ![a] = "drop"]
            /\ UNCHANGED <<req, res>>
       ELSE Return(a)
    /\ UNCHANGED <<connVars, runPc, netVars, todo, closeVars, budgets>>

\* The wait ends without a verdict; the subscription stays registered.
GiveUp(a) ==
    /\ pc[a] = "wait"
    /\ WaitEnds(a)
    /\ pending' = RemoveFirst(pending, a)
    /\ Return(a)
    /\ UNCHANGED <<transport, generation, subs, closed, runPc, netVars, todo,
                   closeVars, budgets>>

Request(a) ==
    \/ WriteOk(a) \/ WriteFails(a) \/ Forget(a) \/ DropSubscription(a)
    \/ Answered(a) \/ GiveUp(a)

-----------------------------------------------------------------------------
(* The run loop reads.                                                     *)

\* Mutant: the transaction of the ACK is not looked at.
AnyWaiter(i, tr) == TRUE

\* takePending matches a waiter of the ACK's transaction, or any waiter when
\* the ACK has no tr_id.
Matches(i, tr) == tr = Nil \/ TrOf[req[pending[i]].stream] = tr

\* The position takePending finds, if any.
Oldest(tr) ==
    {i \in DOMAIN pending :
        Matches(i, tr) /\ \A j \in DOMAIN pending : j < i => ~Matches(j, tr)}

\* applyAck with a verdict that leaves the socket usable.
Resolve(tr, v) ==
    IF Oldest(tr) = {} THEN UNCHANGED <<pending, res>>
    ELSE \E i \in Oldest(tr) :
            /\ pending' = RemoveAt(pending, i)
            /\ res' = [res EXCEPT ![pending[i]] = v]

\* failPending: what every waiter is told.
Failed(err) ==
    [a \in Actors |-> IF Contains(pending, a) THEN err ELSE res[a]]

AckTrs(f) == {TrOf[f.stream]} \cup (IF BlankAcks THEN {Nil} ELSE {})

\* The server answers the oldest request it has; the reader handles the ACK.
ReadAck ==
    /\ runPc = "read" /\ wire # <<>>
    /\ wire' = Tail(wire)
    /\ \E v \in Verdicts \ Fatal, tr \in AckTrs(Head(wire)) :
          /\ Resolve(tr, v)
          /\ served' = IF v = "refused" /\ Head(wire).op = "sub"
                       THEN served \ {Head(wire).stream} ELSE served
    /\ UNCHANGED <<transport, generation, subs, closed, runPc, open, up, pc,
                   req, todo, closeVars, budgets>>

\* A verdict that ends the session: its own waiter and, by failPending, all
\* the others get it.
ReadFatal ==
    /\ runPc = "read" /\ wire # <<>> /\ faults < MaxFaults
    /\ wire' = Tail(wire)
    /\ \E v \in Verdicts \cap Fatal :
          /\ res' = Failed(v)
          /\ runPc' = IF v = "occupied" THEN "occupied" ELSE "failed"
    /\ pending' = <<>>
    /\ faults' = faults + 1
    /\ UNCHANGED <<transport, generation, subs, closed, open, up, served, pc,
                   req, todo, closeVars, ops>>

\* Transport.Read, or the answer to a PINGPONG, fails.
ReadFails ==
    /\ runPc = "read"
    /\ ~up \/ Cancelled
    /\ res' = Failed("io")
    /\ pending' = <<>>
    /\ runPc' = "failed"
    /\ UNCHANGED <<transport, generation, subs, closed, netVars, pc, req,
                   todo, closeVars, budgets>>

-----------------------------------------------------------------------------
(* The run loop reconnects.                                                *)

\* Mutant: an occupied session is retried like any other failure.
RetryAll == IF closed THEN "exit" ELSE "drop"

\* What run does with the error of readLoop.
AfterFailure ==
    IF closed THEN "exit" ELSE IF runPc = "occupied" THEN "giveup" ELSE "drop"

\* Mutant: a socket is given up without closing it.
KeptOpen(sock) == open

\* Transport.Close.
Released(sock) == open \ {sock}

\* Mutant: the generation is bumped by redial and again by its pass.
SkipGeneration == generation + 2

NextGeneration == generation + 1

\* Mutant: a failed dial ends the run loop.
GivesUp == "exit"

\* Where run goes when redial failed: without a socket readLoop comes
\* straight back to isClosed.
Retries == "failed"

\* Mutant: redial installs its socket without looking at closed.
NeverTooLate == FALSE

\* redial finds that Close came first.
TooLate == closed

RunGoes(to) ==
    /\ runPc' = to
    /\ UNCHANGED <<connVars, netVars, reqVars, todo, closeVars, budgets>>

\* isClosed, after readLoop returned.
CheckClosed == runPc \in {"failed", "occupied"} /\ RunGoes(AfterFailure)

\* dropTransport, on the way to the report or to the backoff sleep.
DropTransport ==
    /\ runPc \in {"giveup", "drop"}
    /\ transport' = Nil
    /\ open' = Released(transport)
    /\ LinkGone
    /\ runPc' = IF runPc = "giveup" THEN "tell" ELSE "sleep"
    /\ UNCHANGED <<generation, subs, pending, closed, reqVars, todo,
                   closeVars, budgets>>

\* notify(Stopped).
TellStopped == runPc = "tell" /\ RunGoes("exit")

\* sleep: the timer fires, or done is closed; then isClosed.
Wake == runPc = "sleep" /\ RunGoes(IF closed THEN "exit" ELSE "dial")

\* redial: no approval key, or Dialer.Dial fails.
DialFails ==
    /\ runPc = "dial"
    /\ IF Cancelled THEN UNCHANGED faults
       ELSE faults < MaxFaults /\ faults' = faults + 1
    /\ runPc' = Retries
    /\ UNCHANGED <<connVars, netVars, reqVars, todo, closeVars, ops>>

\* redial: Dialer.Dial returns a socket.
DialOk ==
    /\ runPc = "dial"
    /\ open' = open \cup {NextGeneration}
    /\ runPc' = "install"
    /\ UNCHANGED <<connVars, up, wire, served, reqVars, todo, closeVars,
                   budgets>>

\* redial, under mu: the socket is installed and its pass started.
Install ==
    /\ runPc = "install" /\ ~TooLate
    /\ transport' = NextGeneration
    /\ generation' = NextGeneration
    /\ up' = TRUE
    /\ runPc' = "read"
    /\ pc' = [pc EXCEPT ![generation'] = "start"]
    /\ UNCHANGED <<subs, pending, closed, open, wire, served, req, res, todo,
                   closeVars, budgets>>

\* redial, under mu: Close came first, and the socket is closed.
Discard ==
    /\ runPc = "install" /\ TooLate
    /\ open' = Released(NextGeneration)
    /\ runPc' = Retries
    /\ UNCHANGED <<connVars, up, wire, served, reqVars, todo, closeVars,
                   budgets>>

\* The deferred calls of run: Events is closed, then stopped.
Exit ==
    \/ runPc = "exit" /\ RunGoes("exited")
    \/ runPc = "exited" /\ RunGoes("done")

Run ==
    \/ ReadFails \/ CheckClosed \/ DropTransport \/ TellStopped \/ Wake
    \/ DialFails \/ DialOk \/ Install \/ Discard \/ Exit

-----------------------------------------------------------------------------
(* resubscribe, one pass per generation.                                   *)

\* Mutant: the comparison is off by one.
GenerationReached(g) == closed \/ generation >= g

GenerationChanged(g) == closed \/ generation # g

\* Mutant: request no longer looks at closed.
NeverRefused == FALSE

\* The closed check of request.
Refused == closed

Goes(g, to) ==
    /\ pc' = [pc EXCEPT ![g] = to]
    /\ UNCHANGED <<connVars, runPc, netVars, req, res, todo, closeVars,
                   budgets>>

\* The pass copies c.subs.
PassClone(g) ==
    /\ pc[g] = "start"
    /\ todo' = [todo EXCEPT ![g] = subs]
    /\ pc' = [pc EXCEPT ![g] = "check"]
    /\ UNCHANGED <<connVars, runPc, netVars, req, res, closeVars, budgets>>

\* generationChanged, before each request and before the report.
PassCheck(g) ==
    /\ pc[g] = "check"
    /\ Goes(g, IF GenerationChanged(g) THEN "end"
               ELSE IF todo[g] = <<>> THEN "notify" ELSE "begin")

\* The request for the next subscription begins.
PassBegin(g) ==
    /\ pc[g] = "begin"
    /\ todo' = [todo EXCEPT ![g] = Tail(@)]
    /\ IF Refused
       THEN /\ pc' = [pc EXCEPT ![g] = "check"]
            /\ UNCHANGED <<connVars, req, res>>
       ELSE Register(g, "sub", Head(todo[g]))
    /\ UNCHANGED <<runPc, netVars, closeVars, budgets>>

\* notify: OnReconnect hears that every subscription was restored.
PassNotify(g) == pc[g] = "notify" /\ Goes(g, "end")

Pass(g) == PassClone(g) \/ PassCheck(g) \/ PassBegin(g) \/ PassNotify(g)

-----------------------------------------------------------------------------
(* Close, whose body runs once.                                            *)

\* Mutant: the run loop is left to notice by itself.
NoWait == TRUE

\* <-c.stopped.
RunEnded == Stopped

CloseBegin ==
    /\ Closes /\ closer = "idle"
    /\ closed' = TRUE
    /\ closeTodo' = subs
    /\ subs' = <<>>
    /\ closeSock' = transport
    /\ closer' = IF transport = Nil THEN "shut" ELSE "unsub"
    /\ UNCHANGED <<transport, generation, pending, runPc, netVars, reqVars,
                   todo, budgets>>

\* One best-effort unsubscribe frame, whose context ends after closeTimeout.
CloseUnsubscribe ==
    /\ closer = "unsub"
    /\ IF closeTodo = <<>>
       THEN closer' = "shut" /\ UNCHANGED <<netVars, closeTodo>>
       ELSE /\ \/ Puts(closeSock, Frame(Closer, "unsub", Head(closeTodo)))
               \/ CannotPut(closeSock, Closer \in Impatient)
            /\ closeTodo' = Tail(closeTodo)
            /\ UNCHANGED closer
    /\ UNCHANGED <<connVars, runPc, reqVars, todo, closeSock, budgets>>

\* close(c.done), c.cancel() and transport.Close().
CloseShut ==
    /\ closer = "shut"
    /\ closer' = "wait"
    /\ open' = Released(closeSock)
    /\ LinkGone
    /\ UNCHANGED <<connVars, runPc, reqVars, todo, closeTodo, closeSock,
                   budgets>>

CloseReturn ==
    /\ closer = "wait" /\ RunEnded
    /\ closer' = "returned"
    /\ UNCHANGED <<connVars, runPc, netVars, reqVars, todo, closeTodo,
                   closeSock, budgets>>

CloseStep == CloseUnsubscribe \/ CloseShut \/ CloseReturn

-----------------------------------------------------------------------------
Next ==
    \/ \E c \in Callers, o \in Ops, s \in Streams : Call(c, o, s)
    \/ \E a \in Actors : Request(a)
    \/ \E g \in Gens : Pass(g)
    \/ ReadAck \/ ReadFatal \/ Run
    \/ CloseBegin \/ CloseStep
    \/ LinkDown

Spec == Init /\ [][Next]_vars

\* Goroutines run, contexts expire and timers fire; nothing obliges the
\* server to answer, the link to fail or the application to call.
FairSpec ==
    /\ Spec
    /\ \A a \in Actors : WF_vars(Request(a))
    /\ \A g \in Gens : WF_vars(Pass(g))
    /\ WF_vars(Run)
    /\ WF_vars(CloseStep)

-----------------------------------------------------------------------------
(* Types.                                                                  *)

Requests == [op : Ops, stream : Streams \cup {Nil}, sock : Sockets \cup {Nil}]
Answers == {"none", "io"} \cup Verdicts

\* Every field, program counter and history variable keeps its type: in
\* particular the generation never passes the number of faults.
TypeOK ==
    /\ transport \in Sockets \cup {Nil}
    /\ generation \in Sockets
    /\ subs \in Seq(Streams) /\ pending \in Seq(Actors)
    /\ closed \in BOOLEAN
    /\ runPc \in {"read", "failed", "occupied", "giveup", "drop", "tell",
                  "sleep", "dial", "install", "exit", "exited", "done"}
    /\ open \in SUBSET Sockets /\ up \in BOOLEAN
    /\ wire \in Seq([by : Actors \cup {Closer}, op : Ops, stream : Streams])
    /\ served \in SUBSET Streams
    /\ pc \in [Actors -> {"idle", "off", "start", "check", "begin", "write",
                          "forget", "drop", "wait", "notify", "end"}]
    /\ req \in [Actors -> Requests]
    /\ res \in [Actors -> Answers]
    /\ todo \in [Gens -> Seq(Streams)] 
    /\ closer \in {"idle", "unsub", "shut", "wait", "returned"}
    /\ closeTodo \in Seq(Streams) /\ closeSock \in Sockets \cup {Nil}
    /\ ops \in 0 .. MaxOps /\ faults \in 0 .. MaxFaults

-----------------------------------------------------------------------------
(* Safety.                                                                 *)

\* KIS accepts one session per app key.  Whatever fails and whenever Close
\* comes, the process never has two sockets open: run closes the failed one
\* before it dials (reader.go:50, reconnect.go:29-37, 87-109).
OneSession == \A s, t \in open : s = t

\* Once the run loop has ended and Close, if it was called, has closed its
\* socket, no socket is left open: a redial that races with Close closes what
\* it dialled (reconnect.go:96-100).
NothingLeftOpen == Stopped /\ closer \notin {"unsub", "shut"} => open = {}

\* Once Close returned, Events is closed and the server's session is over
\* (conn.go:341-342).
CloseIsComplete == closer = "returned" => EventsClosed /\ open = {} /\ ~up

\* A waiter without a verdict is in c.pending from the first critical
\* section of its request on, so that the next failure of
\* the socket releases it; and what is in c.pending is a request under way,
\* so that no ACK is spent on a waiter that failed or gave up.
WaitersAreKnown ==
    \A a \in Actors :
       /\ pc[a] \in {"write", "wait"} /\ res[a] = "none"
             => Contains(pending, a)
       /\ Contains(pending, a) => /\ pc[a] \in {"write", "wait", "forget"}
                                 /\ res[a] = "none"

\* c.subs holds a pair once, however callers and passes that overlap
\* register it.
SubsOnce == IsInjective(subs)

\* After Close took the subscriptions nothing registers one again: neither a
\* request that started before nor a pass (conn.go:247, reconnect.go:138).
ClosedIsFinal == closed => subs = <<>>

\* What a reconnect restores: each stream once, and nothing after Close.
SubsAreSound == SubsOnce /\ ClosedIsFinal

\* A stream that stays registered keeps its place, so that a reconnect
\* restores the order of subscription (conn.go:109-110, 321-328).
OrderKept ==
    [][\A i, j \in DOMAIN subs, k, l \in DOMAIN subs' :
          i < j /\ subs[i] = subs'[k] /\ subs[j] = subs'[l] => k < l]_vars

\* Once the server said that another session holds the app key the client
\* never dials again (reader.go:42-49).
OccupiedIsFinal == [](runPc = "occupied" => [](runPc # "dial"))

\* Nothing is under way: the socket is up and read, every answer was read,
\* and no request, pass or Close is running.
Quiet ==
    /\ runPc = "read" /\ up /\ wire = <<>> /\ closer = "idle"
    /\ \A a \in Actors : pc[a] \in {"idle", "off", "end"}

\* Each ACK names a transaction, which is that of one stream: the verdict of
\* an ACK that fits several waiters may reach the wrong one.
AcksNameStreams ==
    ~BlankAcks /\ IsInjective(TrOf) /\ \A s \in Streams : TrOf[s] # Nil

\* No call takes a stream back: a pass may restore what an Unsubscribe
\* removed (doc_unsubscribe).
NothingWithdrawn ==
    \A c \in Callers, s \in Streams : <<c, "unsub", s>> \notin Calls

\* If the server ever refuses, a refusal goes to a request of its stream, and
\* no request is gone before its answer: nobody hears one that comes too late.
RefusalsHeard ==
    "refused" \in Verdicts => AcksNameStreams /\ Impatient \subseteq {Closer}

\* When all is quiet the server streams every registered subscription,
\* whatever reconnects the calls overlapped: a subscription whose frame died
\* with the old socket is restored by the pass of the new one, and one that
\* the server refused is dropped.
RegisteredIsServed ==
    NothingWithdrawn /\ RefusalsHeard /\ Quiet => ToSet(subs) \subseteq served

\* Where every stream has a transaction of its own, a request hears nothing
\* about another stream, whichever sockets and passes came in between: the
\* waiters of a lost socket are gone before the first ACK of the next
\* (reader.go:80-83, reconnect.go:150-162).
VerdictFits ==
    [][AcksNameStreams =>
          \A a \in Actors :
             res[a] = "none" /\ res'[a] \in {"ok", "refused"}
                => wire # <<>> /\ Head(wire).stream = req[a].stream]_vars

-----------------------------------------------------------------------------
(* Liveness, under FairSpec.                                               *)

\* The end of the connection, by Close or because another session holds the
\* app key, releases every Subscribe, Unsubscribe and pass that waits for an
\* ACK nobody will send any more, and lets Close return (conn.go:280, 368).
EndReleasesAll ==
    closed \/ runPc = "occupied"
       ~> /\ Stopped
          /\ \A a \in Actors : pc[a] \in {"idle", "off", "end"}
          /\ closer \in {"idle", "returned"}

\* When links stop failing the client ends up reading a live socket, unless
\* it was closed or another session holds the app key.
Recovers ==
    <>(closed \/ runPc = "occupied") \/ <>[](runPc = "read" /\ up)

-----------------------------------------------------------------------------
(* What the connection promises the holder of the app key: see Session.    *)

Ending == closed \/ runPc \in {"occupied", "giveup", "tell", "exit", "exited",
                               "done"}

SessionView == INSTANCE Session WITH
    held <- transport \in open,
    ending <- Ending,
    over <- Stopped /\ transport \notin open

\* One session at a time, none begun after the end began, and none once it
\* is over: run, redial and Close implement Session (safety and liveness).
ImplementsSession == SessionView!Spec
=============================================================================
