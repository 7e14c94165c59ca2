------------------------------- MODULE Shutdown -------------------------------
(***************************************************************************)
(* Who waits for whom in kis/ws when writes take time: writeMu, which      *)
(* callers, the reader's PINGPONG answers and Close's unsubscribe frames   *)
(* take in turn (conn.go:310-318, reader.go:111-121), the channel of       *)
(* events, whose consumer may itself call Subscribe, and Close, which      *)
(* waits for the run loop.                                                 *)
(*                                                                         *)
(* Conn has what requests and reconnects do to the shared fields, and      *)
(* writes that are over at once; here a write begins when writeMu is taken *)
(* and lasts until the peer takes the bytes, the socket is lost, or the    *)
(* writer's context ends.  A redial is one step and a socket its number.   *)
(***************************************************************************)
EXTENDS Naturals

CONSTANTS
    Callers,      \* goroutines that call Subscribe and Unsubscribe
    Consumer,     \* the one of them that receives the events
    Bounded,      \* the callers whose context ends some day
    Reader,       \* the run loop
    Closer,       \* the goroutine that calls Close
    Nobody,
    Capacity,     \* of the channel of events
    Active,       \* subscriptions Close finds
    StallsEnd,    \* TRUE if a peer that takes no bytes is given up some day
    MaxCalls,     \* bound: requests made
    MaxMessages,  \* bound: events and PINGPONGs the server sends
    MaxFaults     \* bound: links that stall, are lost or redialled

ASSUME ShutdownAssumption ==
    /\ Consumer \in Callers /\ Bounded \subseteq Callers
    /\ Reader # Closer /\ {Reader, Closer, Nobody} \cap Callers = {}
    /\ Nobody \notin {Reader, Closer}
    /\ {Capacity, Active, MaxCalls, MaxMessages, MaxFaults} \subseteq Nat
    /\ StallsEnd \in BOOLEAN

VARIABLES
    writeMu,      \* who holds it
    sock,         \* the newest socket
    link,         \* its state: "up", "stalled" when the peer takes no bytes,
                  \* "down", and "closed" by this process
    pc,           \* where each caller, the reader and Close are
    using,        \* the socket that each of them captured
    asked,        \* the callers whose frame the server has not answered
    queue,        \* events in the channel
    done,         \* close(c.done) and c.cancel()
    farewells,    \* unsubscribe frames Close has still to send
    calls, messages, faults

vars == <<writeMu, sock, link, pc, using, asked, queue, done, farewells,
          calls, messages, faults>>

Writers == Callers \cup {Reader, Closer}
Closed == pc[Closer] # "idle"
Stopped == pc[Reader] = "stopped"
Goes(a, to) == pc' = [pc EXCEPT ![a] = to]

Init ==
    /\ writeMu = Nobody /\ sock = 0 /\ link = "up"
    /\ pc = [a \in Writers |-> IF a = Reader THEN "read" ELSE "idle"]
    /\ using = [a \in Writers |-> 0]
    /\ asked = {} /\ queue = 0 /\ done = FALSE /\ farewells = Active
    /\ calls = 0 /\ messages = 0 /\ faults = 0

-----------------------------------------------------------------------------
(* Conn.write and pong.                                                    *)

\* A socket that was replaced has been closed before.
Lost(s) == s # sock \/ link \in {"down", "closed"}

\* Whose context ends: a caller's own, Close's after closeTimeout, and the
\* reader's with c.cancel.
ContextEnds(a) ==
    CASE a \in Callers -> a \in Bounded
      [] a = Closer -> TRUE
      [] a = Reader -> done

\* Mutant: a write that failed keeps writeMu.
Kept(ok) == IF ok THEN Nobody ELSE writeMu

\* The deferred Unlock.
Released(ok) == Nobody

Lock(a) ==
    /\ pc[a] = "lock" /\ writeMu = Nobody
    /\ writeMu' = a
    /\ Goes(a, "write")
    /\ UNCHANGED <<sock, link, using, asked, queue, done, farewells, calls,
                   messages, faults>>

\* What each writer does next.
After(a, ok) ==
    CASE a = Reader -> IF ok THEN "read" ELSE "failed"
      [] a = Closer -> "unsub"
      [] OTHER -> IF ok THEN "wait" ELSE "idle"

Write(a) ==
    /\ pc[a] = "write"
    /\ \E ok \in BOOLEAN :
          /\ IF ok THEN ~Lost(using[a]) /\ link = "up"
                   ELSE Lost(using[a]) \/ ContextEnds(a)
          /\ writeMu' = Released(ok)
          /\ Goes(a, After(a, ok))
          /\ asked' = IF ok /\ a \in Callers THEN asked \cup {a} ELSE asked
    /\ UNCHANGED <<sock, link, using, queue, done, farewells, calls, messages,
                   faults>>

-----------------------------------------------------------------------------
(* Callers and the consumer.                                               *)

\* request, past its closed check and its registration.
Call(c) ==
    /\ pc[c] = "idle" /\ ~Closed /\ calls < MaxCalls
    /\ calls' = calls + 1
    /\ using' = [using EXCEPT ![c] = sock]
    \* without a socket write fails at once
    /\ Goes(c, IF pc[Reader] = "sleep" THEN "idle" ELSE "lock")
    /\ UNCHANGED <<writeMu, sock, link, asked, queue, done, farewells,
                   messages, faults>>

\* Mutant: request no longer selects on ctx.Done.
OnlyStopped(c) == Stopped

WaitEnds(c) == c \in Bounded \/ Stopped

\* The wait for the ACK ends without one.
GiveUp(c) ==
    /\ pc[c] = "wait" /\ WaitEnds(c)
    /\ Goes(c, "idle")
    /\ asked' = asked \ {c}
    /\ UNCHANGED <<writeMu, sock, link, using, queue, done, farewells, calls,
                   messages, faults>>

\* The consumer receives, when it is not in a call of its own.
Receive ==
    /\ pc[Consumer] = "idle" /\ queue > 0
    /\ queue' = queue - 1
    /\ UNCHANGED <<writeMu, sock, link, pc, using, asked, done, farewells,
                   calls, messages, faults>>

-----------------------------------------------------------------------------
(* The run loop.                                                           *)

\* The server answers a request that reached it.
ReadAck ==
    /\ pc[Reader] = "read" /\ link \in {"up", "stalled"}
    /\ \E c \in asked :
          /\ asked' = asked \ {c}
          /\ Goes(c, "idle")
    /\ UNCHANGED <<writeMu, sock, link, using, queue, done, farewells, calls,
                   messages, faults>>

\* An event, or a PINGPONG that wants its answer.
ReadMessage ==
    /\ pc[Reader] = "read" /\ link \in {"up", "stalled"}
    /\ messages < MaxMessages
    /\ messages' = messages + 1
    /\ \E to \in {"publish", "lock"} : Goes(Reader, to)
    /\ using' = [using EXCEPT ![Reader] = sock]
    /\ UNCHANGED <<writeMu, sock, link, asked, queue, done, farewells, calls,
                   faults>>

\* Mutant: publish does not select on done.
NeverGivesUp == FALSE

PublishAbandoned == done

Publish ==
    /\ pc[Reader] = "publish"
    /\ \/ queue < Capacity /\ queue' = queue + 1
       \/ PublishAbandoned /\ UNCHANGED queue
    /\ Goes(Reader, "read")
    /\ UNCHANGED <<writeMu, sock, link, using, asked, done, farewells, calls,
                   messages, faults>>

\* Transport.Read fails.
ReadFails ==
    /\ pc[Reader] = "read" /\ (link \in {"down", "closed"} \/ done)
    /\ Goes(Reader, "failed")
    /\ UNCHANGED <<writeMu, sock, link, using, asked, queue, done, farewells,
                   calls, messages, faults>>

\* failPending, and where the reader goes.
Resolved(to) ==
    [a \in Writers |-> IF a = Reader THEN to
                       ELSE IF a \in Callers /\ pc[a] = "wait" THEN "idle"
                       ELSE pc[a]]

\* failPending, isClosed and dropTransport; Close may begin in between.
Drop ==
    /\ pc[Reader] = "failed"
    /\ \E to \in {"sleep", "stopped"} :
          /\ to = "stopped" => Closed
          /\ pc' = Resolved(to)
          /\ link' = IF to = "sleep" THEN "closed" ELSE link
    /\ asked' = {}
    /\ UNCHANGED <<writeMu, sock, using, queue, done, farewells, calls,
                   messages, faults>>

\* sleep and redial; what is dialled after Close began is closed at once, and
\* the next turn ends the loop.
Redial ==
    /\ pc[Reader] = "sleep"
    /\ IF Closed THEN Goes(Reader, "stopped") /\ UNCHANGED <<sock, link>>
       ELSE Goes(Reader, "read") /\ sock' = sock + 1 /\ link' = "up"
    /\ UNCHANGED <<writeMu, using, asked, queue, done, farewells, calls,
                   messages, faults>>

-----------------------------------------------------------------------------
(* Close.                                                                  *)

CloseBegin ==
    /\ pc[Closer] = "idle"
    /\ using' = [using EXCEPT ![Closer] = sock]
    /\ Goes(Closer, IF pc[Reader] = "sleep" THEN "shut" ELSE "unsub")
    /\ UNCHANGED <<writeMu, sock, link, asked, queue, done, farewells, calls,
                   messages, faults>>

\* The next frame; its write is Lock and Write.
CloseUnsubscribe ==
    /\ pc[Closer] = "unsub" /\ farewells > 0
    /\ farewells' = farewells - 1
    /\ Goes(Closer, "lock")
    /\ UNCHANGED <<writeMu, sock, link, using, asked, queue, done, calls,
                   messages, faults>>

\* close(c.done), c.cancel() and transport.Close().
CloseShut ==
    /\ pc[Closer] = "shut" \/ (pc[Closer] = "unsub" /\ farewells = 0)
    /\ done' = TRUE
    /\ link' = "closed"
    /\ Goes(Closer, "await")
    /\ UNCHANGED <<writeMu, sock, using, asked, queue, farewells, calls,
                   messages, faults>>

CloseReturn ==
    /\ pc[Closer] = "await" /\ Stopped
    /\ Goes(Closer, "returned")
    /\ UNCHANGED <<writeMu, sock, link, using, asked, queue, done, farewells,
                   calls, messages, faults>>

-----------------------------------------------------------------------------
(* The network.                                                            *)

Fault(from, to) ==
    /\ link \in from /\ faults < MaxFaults
    /\ link' = to /\ faults' = faults + 1
    /\ UNCHANGED <<writeMu, sock, pc, using, asked, queue, done, farewells,
                   calls, messages>>
LinkStalls == Fault({"up"}, "stalled")
LinkFails == Fault({"up", "stalled"}, "down")

StallEnds ==
    /\ StallsEnd /\ link = "stalled"
    /\ link' = "down"
    /\ UNCHANGED <<writeMu, sock, pc, using, asked, queue, done, farewells,
                   calls, messages, faults>>

-----------------------------------------------------------------------------
ReaderStep == Publish \/ ReadFails \/ Drop \/ Redial
CloseStep == CloseUnsubscribe \/ CloseShut \/ CloseReturn

Next ==
    \/ \E a \in Writers : Lock(a) \/ Write(a)
    \/ \E c \in Callers : Call(c) \/ GiveUp(c)
    \/ Receive
    \/ ReadAck \/ ReadMessage \/ ReaderStep
    \/ CloseBegin \/ CloseStep
    \/ LinkStalls \/ LinkFails \/ StallEnds

\* Goroutines run, a mutex that is free again and again is got some day (the
\* runtime hands it to the longest waiter), contexts with an end end.
\* Nobody has to call, send, answer or receive.
Spec ==
    /\ Init /\ [][Next]_vars
    /\ \A a \in Writers : SF_vars(Lock(a)) /\ WF_vars(Write(a))
    /\ \A c \in Callers : WF_vars(GiveUp(c))
    /\ WF_vars(ReaderStep) /\ WF_vars(CloseStep) /\ WF_vars(StallEnds)

-----------------------------------------------------------------------------
\* Every variable keeps its type, and whoever is writing to a socket, and
\* nobody else, holds writeMu: a Transport needs to be safe for one writer
\* only (transport.go:95-98).
TypeOK ==
    /\ writeMu \in Writers \cup {Nobody}
    /\ \A a \in Writers : writeMu = a <=> pc[a] = "write"
    /\ sock \in Nat /\ link \in {"up", "stalled", "down", "closed"}
    /\ pc \in [Writers -> {"idle", "lock", "write", "wait", "read", "publish",
                           "failed", "sleep", "stopped", "unsub", "shut",
                           "await", "returned"}]
    /\ using \in [Writers -> Nat] /\ asked \in SUBSET Callers
    /\ queue \in 0 .. Capacity /\ done \in BOOLEAN /\ farewells \in 0 .. Active

\* Close returns: whoever is writing, whatever the reader is blocked on, and
\* though the consumer has stopped receiving; "a dead socket cannot make
\* Close hang" (conn.go:24-26, 343-370).
CloseReturns == Closed ~> pc[Closer] = "returned"

\* A call whose context ends returns, even if it is the consumer's own, made
\* while the reader waits for the consumer behind a full channel: the ACK
\* can then not be read (conn.go:268-283, reader.go:215-218).
BoundedCallsReturn == \A c \in Bounded : pc[c] # "idle" ~> pc[c] = "idle"

=============================================================================
