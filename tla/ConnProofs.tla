----------------------------- MODULE ConnProofs -----------------------------
(***************************************************************************)
(* Proofs about Conn for any number of callers, streams, calls and faults. *)
(*                                                                         *)
(* The safety properties are not inductive by themselves.  Inv adds what   *)
(* the code relies on: how faults bound the generations (FaultInv), which  *)
(* socket can be open at which point of the run loop and of Close          *)
(* (CloseInv, SocketInv), and what a request under way has registered      *)
(* (RequestInv).  ServedInv, which rests on Inv, adds who sees to a        *)
(* registered stream (Covered) and who hears the answers to come (Owed).   *)
(***************************************************************************)
EXTENDS Conn, SeqLemmas

Busy == {"write", "forget", "drop", "wait"}

\* Every redial is paid for by a fault of the socket it replaces.
FaultInv ==
    /\ generation <= faults
    /\ \/ runPc \in {"dial", "install"}
       \/ ~closed /\ ~(runPc = "read" /\ up)
       => generation < faults

\* From CloseBegin on redial installs nothing, so what Close closes is the
\* only socket that can still be installed.
CloseInv ==
    /\ closed <=> closer # "idle"
    /\ closed => transport \in {closeSock, Nil}
    /\ Cancelled => ~up

\* The open sockets: the installed one, or the one redial is about to
\* install.
SocketInv ==
    /\ transport \in {generation, Nil}
    /\ runPc = "install" => open \subseteq {generation + 1}
    /\ runPc # "install" => open \subseteq {transport}
    /\ runPc \in {"tell", "sleep", "dial", "install"} => transport = Nil
    /\ runPc \in {"exit", "exited", "done"} => closed \/ transport = Nil
    /\ Cancelled /\ runPc # "install" => open = {}
    /\ closer = "returned" => Stopped

\* A request under way has a stream, any other has no verdict; no waiter is
\* registered twice; a pass that begins a request has one to begin, and the
\* passes of generations to come have not started.
RequestInv ==
    /\ \A a \in Actors : IF pc[a] \in Busy THEN req[a].stream \in Streams
                                           ELSE res[a] = "none"
    /\ IsInjective(pending)
    /\ \A g \in Gens : /\ pc[g] = "begin" => todo[g] # <<>>
                       /\ g > generation => pc[g] = "off"

Inv == /\ TypeOK /\ FaultInv /\ CloseInv /\ SocketInv /\ RequestInv
       /\ WaitersAreKnown /\ SubsOnce /\ ClosedIsFinal

\* Dial returns a connection that satisfies the invariant.
LEMMA InitInv == Init => Inv
<1> SUFFICES ASSUME Init PROVE Inv
  OBVIOUS
<1> USE ConnAssumption DEF Init, Gens, Sockets, Actors
<1>1. TypeOK
  <2>1. NoReq \in Requests
    BY DEF NoReq, Requests, Ops
  <2>2. /\ req \in [Actors -> Requests]
        /\ res \in [Actors -> Answers]
        /\ todo \in [Gens -> Seq(Streams)]
    BY <2>1 DEF Answers
  <2>3. pc \in [Actors -> {"idle", "off", "start", "check", "begin", "write",
                          "forget", "drop", "wait", "notify", "end"}]
    OBVIOUS
  <2>4. /\ subs \in Seq(Streams)
        /\ pending \in Seq(Actors)
        /\ wire \in Seq([by : Actors \cup {Closer}, op : Ops, stream : Streams])
        /\ closeTodo \in Seq(Streams)
    BY EmptySeq
  <2>5. /\ transport \in Sockets \cup {Nil} /\ generation \in Sockets
        /\ closeSock \in Sockets \cup {Nil}
        /\ open \in SUBSET Sockets /\ served \in SUBSET Streams
        /\ ops \in 0 .. MaxOps /\ faults \in 0 .. MaxFaults
    OBVIOUS
  <2> HIDE DEF Gens, Sockets, Actors
  <2> QED
    BY <2>2, <2>3, <2>4, <2>5 DEF TypeOK
<1>2. FaultInv /\ CloseInv /\ SocketInv
  BY DEF FaultInv, CloseInv, SocketInv, Cancelled
<1>3. RequestInv /\ WaitersAreKnown /\ SubsOnce /\ ClosedIsFinal
  BY DEF RequestInv, WaitersAreKnown, SubsOnce, ClosedIsFinal, Busy,
         IsInjective, Contains
<1> QED
  BY <1>1, <1>2, <1>3 DEF Inv

-----------------------------------------------------------------------------
(* The sockets.                                                            *)

socketVars == <<transport, generation, runPc, open, up, closed, closer,
                closeSock, faults>>

\* Requests and passes touch neither the sockets nor the run loop.
LEMMA RequestsKeepSockets ==
    ASSUME NEW a \in Actors, Request(a) \/ (a \in Gens /\ Pass(a))
    PROVE  UNCHANGED socketVars
<1> USE DEF socketVars, connVars, netVars, closeVars, budgets
<1>1. CASE Request(a)
  BY <1>1 DEF Request, WriteOk, WriteFails, Forget, DropSubscription,
              Answered, GiveUp, Puts, CannotPut
<1>2. CASE a \in Gens /\ Pass(a)
  BY <1>2 DEF Pass, PassClone, PassCheck, PassBegin, PassNotify, Goes,
              Register
<1> QED
  BY <1>1, <1>2

\* Neither does the call that starts a request.
LEMMA CallsKeepSockets ==
    ASSUME NEW c, NEW o, NEW s, Call(c, o, s)
    PROVE  UNCHANGED socketVars
BY DEF socketVars, Call, Register, netVars, closeVars

\* What is said of sockets, generations and Close survives every step.
LEMMA SocketStep ==
    ASSUME Inv, [Next]_vars
    PROVE  FaultInv' /\ CloseInv' /\ SocketInv'
<1> DEFINE Goal == FaultInv' /\ CloseInv' /\ SocketInv'
<1> USE ConnAssumption DEF Inv, FaultInv, CloseInv, SocketInv, TypeOK, Sockets,
                           Cancelled, Stopped
<1>1. ASSUME UNCHANGED socketVars PROVE Goal
  BY <1>1 DEF socketVars
<1>2. ASSUME NEW c, NEW o, NEW s, Call(c, o, s) PROVE Goal
  BY <1>1, <1>2, CallsKeepSockets
<1>3. ASSUME NEW a \in Actors, Request(a) PROVE Goal
  BY <1>1, <1>3, RequestsKeepSockets
<1>4. ASSUME NEW g \in Gens, Pass(g) PROVE Goal
  BY <1>1, <1>4, RequestsKeepSockets DEF Actors
<1>5. CASE ReadAck
  BY <1>5 DEF ReadAck, closeVars, budgets
<1>6. CASE ReadFatal
  BY <1>6 DEF ReadFatal, closeVars, budgets
<1>7. CASE Run
  <2> USE DEF connVars, netVars, closeVars, budgets
  <2>1. CASE ReadFails
    BY <2>1 DEF ReadFails
  <2>2. CASE CheckClosed
    BY <2>2 DEF CheckClosed, RunGoes, AfterFailure
  <2>3. CASE DropTransport
    BY <2>3 DEF DropTransport, Released, LinkGone
  <2>4. CASE TellStopped
    BY <2>4 DEF TellStopped, RunGoes
  <2>5. CASE Wake
    BY <2>5 DEF Wake, RunGoes
  <2>6. CASE DialFails
    BY <2>6 DEF DialFails, Retries
  <2>7. CASE DialOk
    BY <2>7 DEF DialOk, NextGeneration
  <2>8. CASE Install
    BY <2>8 DEF Install, NextGeneration, TooLate
  <2>9. CASE Discard
    BY <2>9 DEF Discard, Retries, Released, NextGeneration, TooLate
  <2>10. CASE Exit
    <3>1. CASE runPc = "exit" /\ RunGoes("exited")
      BY <3>1 DEF RunGoes
    <3>2. CASE runPc = "exited" /\ RunGoes("done")
      BY <3>2 DEF RunGoes
    <3> QED
      BY <2>10, <3>1, <3>2 DEF Exit
  <2> QED
    BY <1>7, <2>1, <2>2, <2>3, <2>4, <2>5, <2>6, <2>7, <2>8, <2>9, <2>10
       DEF Run
<1>8. CASE CloseBegin
  BY <1>8 DEF CloseBegin, netVars, budgets
<1>9. CASE CloseStep
  <2> USE DEF connVars, netVars, closeVars, budgets
  <2>1. CASE CloseUnsubscribe
    BY <2>1 DEF CloseUnsubscribe, Puts, CannotPut
  <2>2. CASE CloseShut
    BY <2>2 DEF CloseShut, Released, LinkGone
  <2>3. CASE CloseReturn
    BY <2>3 DEF CloseReturn, RunEnded
  <2> QED
    BY <1>9, <2>1, <2>2, <2>3 DEF CloseStep
<1>10. CASE LinkDown
  BY <1>10 DEF LinkDown, LinkGone, connVars, closeVars
<1>11. CASE UNCHANGED vars
  BY <1>1, <1>11 DEF vars, socketVars, connVars, netVars, closeVars, budgets
<1> QED
  BY <1>2, <1>3, <1>4, <1>5, <1>6, <1>7, <1>8, <1>9, <1>10, <1>11 DEF Next

-----------------------------------------------------------------------------
(* The requests.                                                           *)

\* The parts of the invariant that speak of requests and subscriptions.
Asked == /\ TypeOK /\ RequestInv /\ WaitersAreKnown /\ SubsOnce
         /\ ClosedIsFinal

\* Adding and removing a subscription keeps the list free of repetitions.
LEMMA SubscriptionsOnce ==
    ASSUME TypeOK, SubsOnce, NEW s \in Streams
    PROVE  /\ AddSubscription(s) \in Seq(Streams)
           /\ IsInjective(AddSubscription(s))
           /\ RemoveSubscription(s) \in Seq(Streams)
           /\ IsInjective(RemoveSubscription(s))
           /\ subs = <<>> => RemoveSubscription(s) = <<>>
<1>1. subs \in Seq(Streams) /\ IsInjective(subs)
  BY DEF TypeOK, SubsOnce
<1>2. ASSUME subs = <<>> PROVE RemoveSubscription(s) = <<>>
  BY <1>2 DEF RemoveSubscription, RemoveFirst
<1> QED
  BY <1>1, <1>2, AppendOnce, RemoveFirstOnce
     DEF AddSubscription, RemoveSubscription

\* A request that starts registers itself and its stream.
LEMMA RegisterStep ==
    ASSUME Inv, NEW a \in Actors, NEW o \in Ops, NEW s \in Streams,
           pc[a] \in {"idle", "begin"}, ~closed, Register(a, o, s),
           UNCHANGED <<closer, closeTodo, closeSock, runPc, open, up, wire,
                       served, faults>>,
           ops' \in 0 .. MaxOps, todo' \in [Gens -> Seq(Streams)],
           \A g \in Gens : g # a => todo'[g] = todo[g]
    PROVE  Asked'
<1> USE DEF Inv
<1>1. /\ pending \in Seq(Actors) /\ IsInjective(pending)
      /\ ~Contains(pending, a)
  BY DEF TypeOK, RequestInv, WaitersAreKnown
<1>2. /\ pending' = Append(pending, a)
      /\ pending' \in Seq(Actors) /\ IsInjective(pending')
      /\ \A x : Contains(pending', x) <=> Contains(pending, x) \/ x = a
  BY <1>1, AppendOnce DEF Register
<1>3. subs' \in Seq(Streams) /\ IsInjective(subs')
  BY SubscriptionsOnce DEF Register
<1>4. /\ pc' = [pc EXCEPT ![a] = "write"]
      /\ req' = [req EXCEPT ![a] = [op |-> o, stream |-> s,
                                    sock |-> transport]]
      /\ UNCHANGED <<transport, generation, closed, res>>
  BY DEF Register
<1>5. [op |-> o, stream |-> s, sock |-> transport] \in Requests
  BY DEF TypeOK, Requests
<1>6. TypeOK'
  <2>1. req' \in [Actors -> Requests]
    BY <1>4, <1>5 DEF TypeOK
  <2> QED
    BY <1>2, <1>3, <1>4, <2>1 DEF TypeOK
<1>7. RequestInv'
  <2>1. \A b \in Actors : IF pc'[b] \in Busy THEN req'[b].stream \in Streams
                                              ELSE res'[b] = "none"
    BY <1>4 DEF RequestInv, TypeOK, Busy
  <2>2. \A g \in Gens : /\ pc'[g] = "begin" => todo'[g] # <<>>
                        /\ g > generation' => pc'[g] = "off"
    <3>1. \A g \in Gens : g # a => pc'[g] = pc[g] /\ todo'[g] = todo[g]
      BY <1>4 DEF TypeOK, Actors
    <3>2. a \in Gens => pc'[a] = "write" /\ ~(a > generation)
      BY <1>4 DEF RequestInv, TypeOK
    <3> QED
      BY <1>4, <3>1, <3>2 DEF RequestInv
  <2> QED
    BY <1>2, <2>1, <2>2 DEF RequestInv
<1>8. WaitersAreKnown'
  BY <1>2, <1>4 DEF WaitersAreKnown, RequestInv, TypeOK, Busy
<1>9. SubsOnce' /\ ClosedIsFinal'
  BY <1>3, <1>4 DEF SubsOnce, ClosedIsFinal
<1> QED
  BY <1>6, <1>7, <1>8, <1>9 DEF Asked

\* A request that returns is no longer registered.
LEMMA ReturnStep ==
    ASSUME Inv, NEW a \in Actors, pc[a] \in Busy, Return(a),
           pending' \in Seq(Actors), IsInjective(pending'),
           \A x : Contains(pending', x) <=> Contains(pending, x) /\ x # a,
           subs' \in Seq(Streams), IsInjective(subs'),
           closed => subs' = <<>>,
           UNCHANGED <<transport, generation, closed, runPc, netVars, todo,
                       closeVars, budgets>>
    PROVE  Asked'
<1> USE DEF Inv, Return
<1>1. NoReq \in Requests
  BY DEF NoReq, Requests, Ops
<1>2. TypeOK'
  BY <1>1 DEF TypeOK, netVars, closeVars, budgets, Answers
<1>3. RequestInv'
  BY DEF RequestInv, TypeOK, Busy, Actors
<1>4. WaitersAreKnown'
  BY DEF WaitersAreKnown, TypeOK
<1>5. SubsOnce' /\ ClosedIsFinal'
  BY DEF SubsOnce, ClosedIsFinal
<1> QED
  BY <1>2, <1>3, <1>4, <1>5 DEF Asked

\* A step of a request leaves the requests consistent.
LEMMA RequestStep ==
    ASSUME Inv, NEW a \in Actors, Request(a)
    PROVE  Asked'
<1> USE DEF Inv
<1>0. /\ pending \in Seq(Actors) /\ IsInjective(pending)
      /\ subs \in Seq(Streams) /\ IsInjective(subs)
  BY DEF TypeOK, RequestInv, SubsOnce
<1>1. CASE WriteOk(a)
  <2>1. Frame(a, req[a].op, req[a].stream)
           \in [by : Actors \cup {Closer}, op : Ops, stream : Streams]
    BY <1>1 DEF WriteOk, Frame, TypeOK, RequestInv, Busy, Requests
  <2>2. /\ wire' \in Seq([by : Actors \cup {Closer}, op : Ops,
                          stream : Streams])
        /\ served' \in SUBSET Streams
    <3> DEFINE f == Frame(a, req[a].op, req[a].stream)
    <3>1. f.stream \in Streams
      BY <1>1 DEF WriteOk, Frame, RequestInv, Busy
    <3>2. /\ \/ wire' = wire
             \/ wire' = Append(wire, f)
          /\ served' \subseteq served \cup {f.stream}
      <4> HIDE DEF f
      <4>1. Puts(req[a].sock, f)
        BY <1>1 DEF WriteOk, f
      <4> QED
        BY <4>1 DEF Puts
    <3> HIDE DEF f
    <3>3. f \in [by : Actors \cup {Closer}, op : Ops, stream : Streams]
      BY <2>1 DEF f
    <3> DEFINE F == [by : Actors \cup {Closer}, op : Ops, stream : Streams]
    <3>4. wire \in Seq(F) /\ f \in F
      BY <3>3 DEF TypeOK
    <3>5. served' \in SUBSET Streams
      BY <3>1, <3>2 DEF TypeOK
    <3> HIDE DEF F
    <3>6. wire' \in Seq(F)
      BY <3>2, <3>4, AppendProperties
    <3> QED
      BY <3>5, <3>6 DEF F
  <2>3. UNCHANGED <<connVars, runPc, open, up, req, res, todo, closeVars,
                    budgets>>
    BY <1>1 DEF WriteOk, Puts
  <2>4. pc' = [pc EXCEPT ![a] = "wait"] /\ pc[a] = "write"
    BY <1>1 DEF WriteOk
  <2>5. TypeOK'
    BY <2>2, <2>3, <2>4 DEF TypeOK, connVars, closeVars, budgets
  <2>6. RequestInv' /\ SubsOnce' /\ ClosedIsFinal'
    BY <2>3, <2>4 DEF RequestInv, SubsOnce, ClosedIsFinal, TypeOK, Busy,
                      connVars, Actors
  <2>7. WaitersAreKnown'
    BY <2>3, <2>4 DEF WaitersAreKnown, TypeOK, connVars
  <2> QED
    BY <2>5, <2>6, <2>7 DEF Asked
<1>2. CASE WriteFails(a)
  <2>1. /\ pc' = [pc EXCEPT ![a] = "forget"] /\ pc[a] = "write"
        /\ UNCHANGED <<connVars, runPc, netVars, req, res, todo, closeVars,
                       budgets>>
    BY <1>2 DEF WriteFails, CannotPut
  <2>2. TypeOK'
    BY <2>1 DEF TypeOK, connVars, netVars, closeVars, budgets
  <2>3. RequestInv' /\ SubsOnce' /\ ClosedIsFinal'
    BY <2>1 DEF RequestInv, SubsOnce, ClosedIsFinal, TypeOK, Busy, connVars,
                Actors
  <2>4. WaitersAreKnown'
    BY <2>1 DEF WaitersAreKnown, TypeOK, connVars
  <2> QED
    BY <2>2, <2>3, <2>4 DEF Asked
<1>3. CASE Forget(a)
  <2>1. /\ pc' = [pc EXCEPT ![a] = "drop"] /\ pc[a] = "forget"
        /\ pending' = RemoveFirst(pending, a)
        /\ UNCHANGED <<transport, generation, subs, closed, runPc, netVars,
                       req, res, todo, closeVars, budgets>>
    BY <1>3 DEF Forget, Forgotten
  <2>2. /\ pending' \in Seq(Actors) /\ IsInjective(pending')
        /\ \A x : Contains(pending', x) <=> Contains(pending, x) /\ x # a
    BY <1>0, <2>1, RemoveFirstOnce
  <2>3. TypeOK'
    BY <2>1, <2>2 DEF TypeOK, netVars, closeVars, budgets
  <2>4. RequestInv' /\ SubsOnce' /\ ClosedIsFinal'
    BY <2>1, <2>2 DEF RequestInv, SubsOnce, ClosedIsFinal, TypeOK, Busy,
                      Actors
  <2>5. WaitersAreKnown'
    BY <2>1, <2>2 DEF WaitersAreKnown, TypeOK
  <2> QED
    BY <2>3, <2>4, <2>5 DEF Asked
<1>4. CASE DropSubscription(a)
  <2>1. req[a].stream \in Streams /\ ~Contains(pending, a) /\ pc[a] \in Busy
    BY <1>4 DEF DropSubscription, RequestInv, WaitersAreKnown, Busy
  <2>2. /\ subs' \in Seq(Streams) /\ IsInjective(subs')
        /\ closed => subs' = <<>>
    BY <1>0, <1>4, <2>1, SubscriptionsOnce DEF DropSubscription, ClosedIsFinal
  <2>3. /\ Return(a)
        /\ UNCHANGED <<transport, generation, pending, closed, runPc, netVars,
                       todo, closeVars, budgets>>
    BY <1>4 DEF DropSubscription
  <2>4. \A x : Contains(pending', x) <=> Contains(pending, x) /\ x # a
    BY <2>1, <2>3
  <2> QED
    BY <1>0, <2>1, <2>2, <2>3, <2>4, ReturnStep
<1>5. CASE Answered(a)
  <2>1. ~Contains(pending, a) /\ pc[a] = "wait"
    BY <1>5 DEF Answered, WaitersAreKnown
  <2>2. CASE res[a] = "refused"
    <3>1. /\ pc' = [pc EXCEPT ![a] = "drop"]
          /\ UNCHANGED <<connVars, runPc, netVars, req, res, todo, closeVars,
                         budgets>>
      BY <1>5, <2>2 DEF Answered
    <3>2. TypeOK'
      BY <3>1 DEF TypeOK, connVars, netVars, closeVars, budgets
    <3>3. RequestInv' /\ SubsOnce' /\ ClosedIsFinal'
      BY <2>1, <3>1 DEF RequestInv, SubsOnce, ClosedIsFinal, TypeOK, Busy,
                        connVars, Actors
    <3>4. WaitersAreKnown'
      BY <2>1, <3>1 DEF WaitersAreKnown, TypeOK, connVars
    <3> QED
      BY <3>2, <3>3, <3>4 DEF Asked
  <2>3. CASE res[a] # "refused"
    <3>1. /\ Return(a)
          /\ UNCHANGED <<connVars, runPc, netVars, todo, closeVars, budgets>>
      BY <1>5, <2>3 DEF Answered
    <3>2. \A x : Contains(pending', x) <=> Contains(pending, x) /\ x # a
      BY <2>1, <3>1 DEF connVars
    <3> QED
      BY <1>0, <2>1, <3>1, <3>2, ReturnStep
         DEF connVars, Busy, ClosedIsFinal
  <2> QED
    BY <2>2, <2>3
<1>6. CASE GiveUp(a)
  <2>1. /\ pc[a] = "wait" /\ Return(a)
        /\ pending' = RemoveFirst(pending, a)
        /\ UNCHANGED <<transport, generation, subs, closed, runPc, netVars,
                       todo, closeVars, budgets>>
    BY <1>6 DEF GiveUp
  <2>2. /\ pending' \in Seq(Actors) /\ IsInjective(pending')
        /\ \A x : Contains(pending', x) <=> Contains(pending, x) /\ x # a
    BY <1>0, <2>1, RemoveFirstOnce
  <2> QED
    BY <1>0, <2>1, <2>2, ReturnStep DEF Busy, ClosedIsFinal
<1> QED
  BY <1>1, <1>2, <1>3, <1>4, <1>5, <1>6 DEF Request

\* A step of a pass leaves the requests consistent.
LEMMA PassStep ==
    ASSUME Inv, NEW g \in Gens, Pass(g)
    PROVE  Asked'
<1> USE DEF Inv
<1>0. g \in Actors
  BY DEF Actors
<1>1. CASE PassClone(g)
  <2>1. TypeOK'
    BY <1>0, <1>1 DEF PassClone, TypeOK, connVars, netVars, closeVars, budgets
  <2>2. RequestInv' /\ SubsOnce' /\ ClosedIsFinal'
    BY <1>0, <1>1 DEF PassClone, RequestInv, SubsOnce, ClosedIsFinal, TypeOK,
                      Busy, connVars, Actors
  <2>3. WaitersAreKnown'
    BY <1>0, <1>1 DEF PassClone, WaitersAreKnown, TypeOK, connVars
  <2> QED
    BY <2>1, <2>2, <2>3 DEF Asked
<1>2. CASE PassCheck(g)
  <2>1. PICK to \in {"end", "notify", "begin"} :
           /\ pc' = [pc EXCEPT ![g] = to] /\ pc[g] = "check"
           /\ to = "begin" => todo[g] # <<>>
           /\ UNCHANGED <<connVars, runPc, netVars, req, res, todo, closeVars,
                          budgets>>
    BY <1>2 DEF PassCheck, Goes
  <2>2. TypeOK'
    BY <1>0, <2>1 DEF TypeOK, connVars, netVars, closeVars, budgets
  <2>3. RequestInv' /\ SubsOnce' /\ ClosedIsFinal'
    BY <1>0, <2>1 DEF RequestInv, SubsOnce, ClosedIsFinal, TypeOK, Busy,
                      connVars, Actors
  <2>4. WaitersAreKnown'
    BY <1>0, <2>1 DEF WaitersAreKnown, TypeOK, connVars
  <2> QED
    BY <2>2, <2>3, <2>4 DEF Asked
<1>3. CASE PassBegin(g)
  <2>1. todo[g] \in Seq(Streams) /\ todo[g] # <<>>
    <3>1. pc[g] = "begin" => todo[g] # <<>>
      BY DEF RequestInv
    <3> QED
      BY <1>3, <3>1 DEF PassBegin, TypeOK
  <2>2. Head(todo[g]) \in Streams /\ Tail(todo[g]) \in Seq(Streams)
    BY <2>1, HeadTailProperties
  <2>3. /\ todo' = [todo EXCEPT ![g] = Tail(todo[g])]
        /\ todo' \in [Gens -> Seq(Streams)]
    BY <1>3, <2>2 DEF PassBegin, TypeOK
  <2>4. CASE closed
    <3>1. /\ pc' = [pc EXCEPT ![g] = "check"] /\ pc[g] = "begin"
          /\ UNCHANGED <<connVars, runPc, netVars, req, res, closeVars,
                         budgets>>
      BY <1>3, <2>4 DEF PassBegin, Refused
    <3>2. TypeOK'
      BY <2>3, <3>1 DEF TypeOK, connVars, netVars, closeVars, budgets
    <3>3. RequestInv' /\ SubsOnce' /\ ClosedIsFinal'
      BY <1>0, <2>3, <3>1 DEF RequestInv, SubsOnce, ClosedIsFinal, TypeOK,
                              Busy, connVars, Actors
    <3>4. WaitersAreKnown'
      BY <1>0, <3>1 DEF WaitersAreKnown, TypeOK, connVars
    <3> QED
      BY <3>2, <3>3, <3>4 DEF Asked
  <2>5. CASE ~closed
    <3>1. /\ Register(g, "sub", Head(todo[g])) /\ pc[g] = "begin"
          /\ UNCHANGED <<runPc, netVars, closeVars, budgets>>
      BY <1>3, <2>5 DEF PassBegin, Refused
    <3>2. /\ \A h \in Gens : h # g => todo'[h] = todo[h]
          /\ ops' \in 0 .. MaxOps
          /\ "sub" \in Ops
      BY <2>3, <3>1 DEF TypeOK, budgets, Ops
    <3> QED
      BY <1>0, <2>2, <2>3, <2>5, <3>1, <3>2, RegisterStep
         DEF netVars, closeVars, budgets
  <2> QED
    BY <2>4, <2>5
<1>4. CASE PassNotify(g)
  <2>1. /\ pc' = [pc EXCEPT ![g] = "end"] /\ pc[g] = "notify"
        /\ UNCHANGED <<connVars, runPc, netVars, req, res, todo, closeVars,
                       budgets>>
    BY <1>4 DEF PassNotify, Goes
  <2>2. TypeOK'
    BY <2>1 DEF TypeOK, connVars, netVars, closeVars, budgets
  <2>3. RequestInv' /\ SubsOnce' /\ ClosedIsFinal'
    BY <1>0, <2>1 DEF RequestInv, SubsOnce, ClosedIsFinal, TypeOK, Busy,
                      connVars, Actors
  <2>4. WaitersAreKnown'
    BY <1>0, <2>1 DEF WaitersAreKnown, TypeOK, connVars
  <2> QED
    BY <2>2, <2>3, <2>4 DEF Asked
<1> QED
  BY <1>1, <1>2, <1>3, <1>4 DEF Pass

\* An ACK goes to one waiter, a failure to all of them.
LEMMA ReaderStep ==
    ASSUME Inv, ReadAck \/ ReadFatal \/ ReadFails
    PROVE  Asked'
<1> USE DEF Inv
<1>0. /\ pending \in Seq(Actors) /\ IsInjective(pending)
      /\ res \in [Actors -> Answers]
  BY DEF TypeOK, RequestInv
<1> DEFINE F == [by : Actors \cup {Closer}, op : Ops, stream : Streams]
<1>1. ASSUME wire # <<>>, wire' = Tail(wire) PROVE wire' \in Seq(F)
  <2>1. wire \in Seq(F)
    BY DEF TypeOK
  <2> HIDE DEF F
  <2> QED
    BY <1>1, <2>1, HeadTailProperties
<1>2. CASE ReadAck
  <2>1. PICK v \in Verdicts, tr \in AckTrs(Head(wire)) : Resolve(tr, v)
    BY <1>2 DEF ReadAck
  <2>2. /\ wire' \in Seq(F) /\ served' \in SUBSET Streams
        /\ UNCHANGED <<transport, generation, subs, closed, runPc, open, up,
                       pc, req, todo, closeVars, budgets>>
    BY <1>1, <1>2 DEF ReadAck, TypeOK
  <2>3. CASE UNCHANGED <<pending, res>>
    <3>1. TypeOK'
      BY <2>2, <2>3 DEF TypeOK, closeVars, budgets
    <3>2. RequestInv' /\ SubsOnce' /\ ClosedIsFinal' /\ WaitersAreKnown'
      BY <2>2, <2>3 DEF RequestInv, SubsOnce, ClosedIsFinal, WaitersAreKnown
    <3> QED
      BY <3>1, <3>2 DEF Asked
  <2>4. CASE \E i \in Oldest(tr) : /\ pending' = RemoveAt(pending, i)
                                   /\ res' = [res EXCEPT ![pending[i]] = v]
    <3>1. PICK i \in DOMAIN pending :
             /\ pending' = RemoveAt(pending, i)
             /\ res' = [res EXCEPT ![pending[i]] = v]
      BY <2>4 DEF Oldest
    <3>2. /\ pending' \in Seq(Actors) /\ IsInjective(pending')
          /\ \A x : Contains(pending', x)
                       <=> Contains(pending, x) /\ x # pending[i]
      BY <1>0, <3>1, RemoveAtOnce
    <3>3. pending[i] \in Actors /\ Contains(pending, pending[i])
      BY <1>0, LenProperties, ElementOfSeq DEF Contains
    <3>4. pc[pending[i]] \in Busy
      BY <3>3 DEF WaitersAreKnown, Busy
    <3>5. res' \in [Actors -> Answers]
      BY <1>0, <3>1 DEF Answers
    <3>6. TypeOK'
      BY <2>2, <3>2, <3>5 DEF TypeOK, closeVars, budgets
    <3>7. RequestInv' /\ SubsOnce' /\ ClosedIsFinal'
      BY <1>0, <2>2, <3>1, <3>2, <3>4 DEF RequestInv, SubsOnce, ClosedIsFinal
    <3>8. WaitersAreKnown'
      <4>1. \A b \in Actors :
               res'[b] = IF b = pending[i] THEN v ELSE res[b]
        BY <1>0, <3>1
      <4>2. v # "none"
        BY ConnAssumption DEF Fatal
      <4> QED
        BY <2>2, <3>2, <4>1, <4>2 DEF WaitersAreKnown
    <3> QED
      BY <3>6, <3>7, <3>8 DEF Asked
  <2> QED
    BY <2>1, <2>3, <2>4 DEF Resolve
<1>3. ASSUME NEW err \in Answers, err # "none", pending' = <<>>,
             res' = Failed(err), wire' \in Seq(F),
             runPc' \in {"failed", "occupied"}, faults' \in 0 .. MaxFaults,
             UNCHANGED <<transport, generation, subs, closed, open, up,
                         served, pc, req, todo, closeVars, ops>>
      PROVE  Asked'
  <2>1. /\ pending' \in Seq(Actors) /\ IsInjective(pending')
        /\ \A x : ~Contains(pending', x)
    BY <1>3 DEF IsInjective, Contains
  <2>2. /\ res' \in [Actors -> Answers]
        /\ \A b \in Actors :
              res'[b] = IF Contains(pending, b) THEN err ELSE res[b]
    BY <1>0, <1>3 DEF Failed
  <2>3. TypeOK'
    BY <1>3, <2>1, <2>2 DEF TypeOK, closeVars
  <2>4. RequestInv'
    BY <1>3, <2>1, <2>2 DEF RequestInv, WaitersAreKnown, Busy
  <2>5. SubsOnce' /\ ClosedIsFinal'
    BY <1>3 DEF SubsOnce, ClosedIsFinal
  <2>6. WaitersAreKnown'
    BY <1>3, <2>1, <2>2 DEF WaitersAreKnown
  <2> QED
    BY <2>3, <2>4, <2>5, <2>6 DEF Asked
<1>4. CASE ReadFatal
  <2>1. PICK v \in Verdicts \cap Fatal :
           res' = Failed(v) /\ runPc' \in {"failed", "occupied"}
    BY <1>4 DEF ReadFatal
  <2>2. v \in Answers /\ v # "none"
    BY DEF Answers, Fatal
  <2>3. faults' \in 0 .. MaxFaults
    BY <1>4, ConnAssumption DEF ReadFatal, TypeOK
  <2> QED
    BY <1>1, <1>3, <1>4, <2>1, <2>2, <2>3 DEF ReadFatal
<1>5. CASE ReadFails
  <2>1. "io" \in Answers
    BY DEF Answers
  <2>2. wire' \in Seq(F) /\ faults' \in 0 .. MaxFaults
    BY <1>5 DEF ReadFails, netVars, budgets, TypeOK
  <2> QED
    BY <1>3, <1>5, <2>1, <2>2 DEF ReadFails, netVars, budgets
<1> QED
  BY <1>2, <1>4, <1>5

\* The run loop between two sockets, Close and the link leave the requests
\* alone, but for the pass that Install starts and the subscriptions that
\* CloseBegin takes.
LEMMA OtherStep ==
    ASSUME Inv, Run \/ CloseBegin \/ CloseStep \/ LinkDown
    PROVE  Asked'
<1> USE DEF Inv
<1> DEFINE F == [by : Actors \cup {Closer}, op : Ops, stream : Streams]
<1>1. ASSUME UNCHANGED <<generation, subs, pending, closed, reqVars, todo>>,
             TypeOK'
      PROVE  Asked'
  BY <1>1 DEF Asked, RequestInv, SubsOnce, ClosedIsFinal, WaitersAreKnown,
              reqVars
<1>2. <<>> \in Seq(F) /\ <<>> \in Seq(Streams)
  BY EmptySeq
<1>3. CASE CheckClosed \/ TellStopped \/ Wake \/ Exit
  <2>1. PICK to \in {"exit", "giveup", "drop", "dial", "exited", "done"} :
           RunGoes(to)
    BY <1>3 DEF CheckClosed, TellStopped, Wake, Exit, AfterFailure
  <2>2. TypeOK'
    BY <2>1 DEF RunGoes, TypeOK, connVars, netVars, reqVars, closeVars,
                budgets
  <2> QED
    BY <1>1, <2>1, <2>2 DEF RunGoes, connVars
<1>4. CASE DropTransport
  <2>1. TypeOK'
    BY <1>2, <1>4 DEF DropTransport, Released, LinkGone, TypeOK, reqVars,
                      closeVars, budgets
  <2> QED
    BY <1>1, <1>4, <2>1 DEF DropTransport
<1>5. CASE DialFails
  <2>1. faults' \in 0 .. MaxFaults
    BY <1>5, ConnAssumption DEF DialFails, TypeOK
  <2>2. TypeOK'
    BY <1>5, <2>1 DEF DialFails, Retries, TypeOK, connVars, netVars, reqVars,
                      closeVars
  <2> QED
    BY <1>1, <1>5, <2>2 DEF DialFails, connVars
<1>6. CASE DialOk \/ Discard
  <2>1. open' \in SUBSET Sockets /\ runPc' \in {"install", "failed"}
    <3>1. CASE DialOk
      <4>1. generation + 1 \in Sockets
        BY <3>1, ConnAssumption DEF DialOk, FaultInv, TypeOK, Sockets
      <4> QED
        BY <3>1, <4>1 DEF DialOk, NextGeneration, TypeOK
    <3>2. CASE Discard
      BY <3>2 DEF Discard, Retries, Released, TypeOK
    <3> QED
      BY <1>6, <3>1, <3>2
  <2>2. TypeOK'
    BY <1>6, <2>1 DEF DialOk, Discard, TypeOK, connVars, reqVars, closeVars,
                      budgets
  <2> QED
    BY <1>1, <1>6, <2>2 DEF DialOk, Discard, connVars
<1>7. CASE Install
  <2>1. generation + 1 \in Gens /\ generation + 1 \in Sockets
    BY <1>7, ConnAssumption DEF Install, FaultInv, TypeOK, Sockets, Gens
  <2>2. /\ pc' = [pc EXCEPT ![generation + 1] = "start"]
        /\ UNCHANGED <<subs, pending, closed, open, wire, served, req, res,
                       todo, closeVars, budgets>>
        /\ runPc' = "read" /\ up' = TRUE
        /\ transport' = generation + 1 /\ generation' = generation + 1
    BY <1>7 DEF Install, NextGeneration
  <2>3. TypeOK'
    BY <2>1, <2>2 DEF TypeOK, closeVars, budgets, Actors
  <2>4. pc[generation + 1] \notin Busy
    <3>1. generation + 1 > generation
      BY ConnAssumption DEF TypeOK, Sockets
    <3> QED
      BY <2>1, <3>1 DEF RequestInv, Busy
  <2>5. RequestInv'
    <3>1. \A a \in Actors :
             pc'[a] = IF a = generation + 1 THEN "start" ELSE pc[a]
      BY <2>2 DEF TypeOK
    <3>2. \A g \in Gens : g > generation + 1 => g > generation
      BY ConnAssumption DEF TypeOK, Sockets, Gens
    <3>3. \A a \in Actors : IF pc'[a] \in Busy THEN req'[a].stream \in Streams
                                                ELSE res'[a] = "none"
      BY <2>1, <2>2, <2>4, <3>1 DEF RequestInv, Busy
    <3>4. \A g \in Gens : /\ pc'[g] = "begin" => todo'[g] # <<>>
                          /\ g > generation' => pc'[g] = "off"
      BY <2>2, <3>1, <3>2, ConnAssumption
         DEF RequestInv, Actors, Gens, TypeOK, Sockets
    <3> QED
      BY <2>2, <3>3, <3>4 DEF RequestInv
  <2>6. SubsOnce' /\ ClosedIsFinal'
    BY <2>2 DEF SubsOnce, ClosedIsFinal
  <2>7. WaitersAreKnown'
    BY <2>1, <2>2, <2>4 DEF WaitersAreKnown, TypeOK, Actors, Busy
  <2> QED
    BY <2>3, <2>5, <2>6, <2>7 DEF Asked
<1>8. CASE CloseBegin
  <2>1. /\ subs' = <<>> /\ subs \in Seq(Streams)
        /\ UNCHANGED <<pending, reqVars, todo, generation>>
    BY <1>8 DEF CloseBegin, TypeOK
  <2>2. TypeOK'
    BY <1>2, <1>8 DEF CloseBegin, TypeOK, netVars, reqVars, budgets
  <2>3. RequestInv' /\ WaitersAreKnown'
    BY <2>1 DEF RequestInv, WaitersAreKnown, reqVars
  <2>4. SubsOnce' /\ ClosedIsFinal'
    BY <2>1 DEF SubsOnce, ClosedIsFinal, IsInjective
  <2> QED
    BY <2>2, <2>3, <2>4 DEF Asked
<1>9. CASE CloseUnsubscribe
  <2>1. ASSUME closeTodo # <<>>
        PROVE  Head(closeTodo) \in Streams /\ Tail(closeTodo) \in Seq(Streams)
    BY <2>1, HeadTailProperties DEF TypeOK
  <2>2. /\ closer' \in {"unsub", "shut"} /\ closeTodo' \in Seq(Streams)
        /\ UNCHANGED <<connVars, runPc, open, up, reqVars, todo, closeSock,
                       budgets>>
    BY <1>9, <2>1 DEF CloseUnsubscribe, Puts, CannotPut, netVars, TypeOK
  <2>3. wire' \in Seq(F) /\ served' \in SUBSET Streams
    <3>1. CASE UNCHANGED <<wire, served>>
      BY <3>1 DEF TypeOK
    <3>2. CASE /\ closeTodo # <<>>
               /\ Puts(closeSock, Frame(Closer, "unsub", Head(closeTodo)))
      <4> DEFINE f == Frame(Closer, "unsub", Head(closeTodo))
      <4>1. f \in F /\ f.stream \in Streams
        BY <2>1, <3>2 DEF Frame, Ops
      <4>2. wire \in Seq(F)
        BY DEF TypeOK
      <4> HIDE DEF f, F
      <4>3. wire' = wire \/ wire' = Append(wire, f)
        BY <3>2 DEF Puts, f
      <4>4. served' \subseteq served \cup {f.stream}
        BY <3>2 DEF Puts, f
      <4>5. wire' \in Seq(F)
        BY <4>1, <4>2, <4>3, AppendProperties
      <4> QED
        BY <4>1, <4>4, <4>5 DEF TypeOK
    <3> QED
      BY <1>9, <3>1, <3>2 DEF CloseUnsubscribe, CannotPut, netVars
  <2>4. TypeOK'
    BY <2>2, <2>3 DEF TypeOK, connVars, reqVars, budgets
  <2> QED
    BY <1>1, <2>2, <2>4 DEF connVars
<1>10. CASE CloseShut
  <2>1. TypeOK'
    BY <1>2, <1>10 DEF CloseShut, Released, LinkGone, TypeOK, connVars,
                       reqVars, budgets
  <2> QED
    BY <1>1, <1>10, <2>1 DEF CloseShut, connVars
<1>11. CASE CloseReturn
  <2>1. TypeOK'
    BY <1>11 DEF CloseReturn, TypeOK, connVars, netVars, reqVars, budgets
  <2> QED
    BY <1>1, <1>11, <2>1 DEF CloseReturn, connVars
<1>12. CASE LinkDown
  <2>1. faults' \in 0 .. MaxFaults
    BY <1>12, ConnAssumption DEF LinkDown, TypeOK
  <2>2. TypeOK'
    BY <1>2, <1>12, <2>1 DEF LinkDown, LinkGone, TypeOK, connVars, reqVars,
                             closeVars
  <2> QED
    BY <1>1, <1>12, <2>2 DEF LinkDown, connVars
<1>13. CASE ReadFails
  BY <1>13, ReaderStep
<1> QED
  BY <1>3, <1>4, <1>5, <1>6, <1>7, <1>8, <1>9, <1>10, <1>11, <1>12, <1>13
     DEF Run, CloseStep

-----------------------------------------------------------------------------
(* The theorems.                                                           *)

\* The invariant is inductive.
LEMMA StepInv == Inv /\ [Next]_vars => Inv'
<1> SUFFICES ASSUME Inv, [Next]_vars PROVE Inv'
  OBVIOUS
<1>1. FaultInv' /\ CloseInv' /\ SocketInv'
  BY SocketStep
<1>2. ASSUME NEW c \in Callers, NEW o \in Ops, NEW s \in Streams, Call(c, o, s)
      PROVE  Asked'
  <2>1. /\ c \in Actors /\ pc[c] = "idle" /\ ~closed /\ Register(c, o, s)
        /\ UNCHANGED <<runPc, netVars, todo, closeVars, faults>>
    BY <1>2 DEF Call, Actors
  <2>2. ops' \in 0 .. MaxOps
    BY <1>2, ConnAssumption DEF Call, Inv, TypeOK
  <2>3. todo' \in [Gens -> Seq(Streams)]
    BY <2>1 DEF Inv, TypeOK
  <2> QED
    BY <2>1, <2>2, <2>3, RegisterStep DEF netVars, closeVars
<1>3. ASSUME UNCHANGED vars PROVE Asked'
  <2>1. UNCHANGED vars
    BY <1>3
  <2>2. TypeOK'
    BY <2>1 DEF Inv, vars, connVars, netVars, reqVars, closeVars, budgets,
                TypeOK
  <2>3. RequestInv' /\ WaitersAreKnown' /\ SubsOnce' /\ ClosedIsFinal'
    BY <2>1 DEF Inv, vars, connVars, reqVars, RequestInv, WaitersAreKnown,
                SubsOnce, ClosedIsFinal
  <2> QED
    BY <2>2, <2>3 DEF Asked
<1>4. Asked'
  <2>1. ASSUME NEW a \in Actors, Request(a) PROVE Asked'
    BY <2>1, RequestStep
  <2>2. ASSUME NEW g \in Gens, Pass(g) PROVE Asked'
    BY <2>2, PassStep
  <2>3. ASSUME ReadAck \/ ReadFatal PROVE Asked'
    BY <2>3, ReaderStep
  <2>4. ASSUME Run \/ CloseBegin \/ CloseStep \/ LinkDown PROVE Asked'
    BY <2>4, OtherStep
  <2> QED
    BY <1>2, <1>3, <2>1, <2>2, <2>3, <2>4 DEF Next
<1> QED
  BY <1>1, <1>4 DEF Inv, Asked

\* The inductive invariant holds in every behaviour of the connection.
THEOREM Invariance == Spec => []Inv
BY InitInv, StepInv, PTL DEF Spec

\* Every variable of Conn keeps its type; in particular the generation of
\* the socket stays within the faults met (reconnect.go:105).
THEOREM TypeCorrect == Spec => []TypeOK
<1>1. Inv => TypeOK
  BY DEF Inv
<1> QED
  BY <1>1, Invariance, PTL

\* However often links fail and whenever Close comes, two sockets are never
\* open at once.
THEOREM OneSessionHolds == Spec => []OneSession
<1>1. Inv => OneSession
  BY DEF Inv, SocketInv, OneSession
<1> QED
  BY <1>1, Invariance, PTL

\* When the run loop has ended, and Close with it, no socket is left open.
THEOREM NothingIsLeft == Spec => []NothingLeftOpen
<1>1. Inv => NothingLeftOpen
  BY ConnAssumption DEF Inv, SocketInv, CloseInv, TypeOK, NothingLeftOpen,
                        Stopped, Cancelled, Sockets
<1> QED
  BY <1>1, Invariance, PTL

\* The Close that returned has stopped the run loop and closed Events: no
\* caller of Close finds either under way (conn.go:366-369).
THEOREM CloseCompletes == Spec => []CloseIsComplete
<1>1. Inv => CloseIsComplete
  BY DEF Inv, SocketInv, CloseInv, CloseIsComplete, Stopped, Cancelled,
         EventsClosed
<1> QED
  BY <1>1, Invariance, PTL

\* A waiter without a verdict is registered with the reader, and only
\* requests under way are: no request can be forgotten while it waits.
THEOREM WaitersStayKnown == Spec => []WaitersAreKnown
<1>1. Inv => WaitersAreKnown
  BY DEF Inv
<1> QED
  BY <1>1, Invariance, PTL

\* The subscriptions to restore never repeat, whatever requests and passes
\* interleave, and Close takes them once and for all: no request under way
\* when it did adds one that would never be unsubscribed (conn.go:249-257).
THEOREM SubscriptionsAreSound == Spec => []SubsAreSound
<1>1. Inv => SubsAreSound
  BY DEF Inv, SubsAreSound
<1> QED
  BY <1>1, Invariance, PTL

-----------------------------------------------------------------------------
(* Conn implements Session.                                                *)

\* A step that leaves the sockets alone stutters in Session.
LEMMA SocketsKeptStutter ==
    ASSUME UNCHANGED socketVars
    PROVE  UNCHANGED SessionView!vars
BY DEF socketVars, SessionView!vars, Ending, Stopped

\* Every step of Conn is a step of Session or a stutter, whatever the caller,
\* the pass, the run loop or Close does.
LEMMA SessionStep ==
    ASSUME Inv, [Next]_vars
    PROVE  SessionView!Next \/ UNCHANGED SessionView!vars
<1> DEFINE Goal == SessionView!Next \/ UNCHANGED SessionView!vars
<1>0. /\ transport \in {generation, Nil} /\ generation \in Nat
      /\ Nil \notin open /\ Nil \notin Nat
      /\ closed \in BOOLEAN
  <2>1. /\ generation \in 0 .. MaxFaults /\ open \in SUBSET (0 .. MaxFaults)
        /\ closed \in BOOLEAN
    BY DEF Inv, TypeOK, Sockets
  <2>2. transport \in {generation, Nil}
    BY DEF Inv, SocketInv
  <2>3. Nil \notin Nat /\ MaxFaults \in Nat
    BY ConnAssumption
  <2>4. 0 .. MaxFaults \subseteq Nat
    BY <2>3
  <2> QED
    BY <2>1, <2>2, <2>3, <2>4
<1> USE DEF SessionView!vars, SessionView!Next, Ending, Stopped
<1>1. ASSUME UNCHANGED socketVars PROVE Goal
  BY <1>1, SocketsKeptStutter
<1>2. ASSUME NEW c, NEW o, NEW s, Call(c, o, s) PROVE Goal
  BY <1>1, <1>2, CallsKeepSockets
<1>3. ASSUME NEW a \in Actors, Request(a) PROVE Goal
  BY <1>1, <1>3, RequestsKeepSockets
<1>4. ASSUME NEW g \in Gens, Pass(g) PROVE Goal
  BY <1>1, <1>4, RequestsKeepSockets DEF Actors
<1>5. CASE ReadAck
  BY <1>5 DEF ReadAck
<1>6. CASE ReadFatal
  BY <1>6 DEF ReadFatal, SessionView!EndBegins
<1>7. CASE Run
  <2> USE DEF connVars, netVars, closeVars, budgets
  <2>1. CASE ReadFails
    BY <2>1 DEF ReadFails
  <2>2. CASE CheckClosed
    BY <2>2 DEF CheckClosed, RunGoes, AfterFailure
  <2>3. CASE DropTransport
    BY <1>0, <2>3 DEF DropTransport, Released, SessionView!Lose
  <2>4. CASE TellStopped
    BY <2>4 DEF TellStopped, RunGoes
  <2>5. CASE Wake
    BY <2>5 DEF Wake, RunGoes
  <2>6. CASE DialFails
    BY <2>6 DEF DialFails, Retries
  <2>7. CASE DialOk
    <3>1. transport = Nil
      BY <2>7 DEF DialOk, Inv, SocketInv
    <3> QED
      BY <1>0, <2>7, <3>1 DEF DialOk, NextGeneration
  <2>8. CASE Install
    <3>1. transport = Nil /\ ~Ending /\ runPc # "done"
      BY <2>8 DEF Install, TooLate, Inv, SocketInv
    <3>2. CASE generation + 1 \in open
      BY <1>0, <2>8, <3>1, <3>2 DEF Install, TooLate, NextGeneration,
                                    SessionView!Renew
    <3>3. CASE generation + 1 \notin open
      BY <1>0, <2>8, <3>1, <3>3 DEF Install, TooLate, NextGeneration
    <3> QED
      BY <3>2, <3>3
  <2>9. CASE Discard
    <3>1. transport = Nil
      BY <2>9 DEF Discard, Inv, SocketInv
    <3> QED
      BY <1>0, <2>9, <3>1 DEF Discard, Retries, Released, TooLate
  <2>10. CASE Exit
    <3>1. CASE runPc = "exit" /\ RunGoes("exited")
      BY <3>1 DEF RunGoes
    <3>2. CASE runPc = "exited" /\ RunGoes("done")
      BY <3>2 DEF RunGoes, SessionView!Finish
    <3> QED
      BY <2>10, <3>1, <3>2 DEF Exit
  <2> QED
    BY <1>7, <2>1, <2>2, <2>3, <2>4, <2>5, <2>6, <2>7, <2>8, <2>9, <2>10
       DEF Run
<1>8. CASE CloseBegin
  BY <1>0, <1>8 DEF CloseBegin, netVars, SessionView!EndBegins
<1>9. CASE CloseStep
  <2> USE DEF connVars, netVars, closeVars, budgets
  <2>1. CASE CloseUnsubscribe
    BY <2>1 DEF CloseUnsubscribe, Puts, CannotPut
  <2>2. CASE CloseShut
    <3>1. closed /\ (transport = closeSock \/ transport = Nil)
      BY <2>2 DEF CloseShut, Inv, CloseInv
    <3>2. transport \notin open'
      BY <1>0, <2>2, <3>1 DEF CloseShut, Released
    <3>3. CASE transport \in open /\ runPc = "done"
      BY <2>2, <3>1, <3>2, <3>3 DEF CloseShut, SessionView!Finish
    <3>4. CASE transport \in open /\ runPc # "done"
      BY <2>2, <3>1, <3>2, <3>4 DEF CloseShut, SessionView!Lose
    <3>5. CASE transport \notin open
      BY <2>2, <3>2, <3>5 DEF CloseShut
    <3> QED
      BY <3>3, <3>4, <3>5
  <2>3. CASE CloseReturn
    BY <2>3 DEF CloseReturn, RunEnded
  <2> QED
    BY <1>9, <2>1, <2>2, <2>3 DEF CloseStep
<1>10. CASE LinkDown
  BY <1>10 DEF LinkDown, connVars, closeVars
<1>11. CASE UNCHANGED vars
  BY <1>1, <1>11 DEF vars, socketVars, connVars, netVars, closeVars, budgets
<1> QED
  BY <1>2, <1>3, <1>4, <1>5, <1>6, <1>7, <1>8, <1>9, <1>10, <1>11 DEF Next

\* The connection keeps the promise of Session for its app key: no session
\* is begun once the end began, and none is left when it is over.
THEOREM ConnImplementsSession == Spec => SessionView!SafeSpec
<1>1. Init => SessionView!Init
  BY DEF Init, SessionView!Init, Ending, Stopped
<1>2. Inv /\ [Next]_vars => [SessionView!Next]_(SessionView!vars)
  BY SessionStep
<1> QED
  BY <1>1, <1>2, Invariance, PTL DEF Spec, SessionView!SafeSpec

-----------------------------------------------------------------------------
(* The order of the subscriptions.                                         *)

\* Each element of new that is in old keeps its place among the others.
InOrder(old, new) ==
    \A i, j \in DOMAIN old, k, l \in DOMAIN new :
       i < j /\ old[i] = new[k] /\ old[j] = new[l] => k < l

\* Adding a stream at the end and removing one keep the order.
LEMMA SubscriptionsInOrder ==
    ASSUME TypeOK, SubsOnce, NEW s \in Streams
    PROVE  /\ InOrder(subs, subs)
           /\ InOrder(subs, AddSubscription(s))
           /\ InOrder(subs, RemoveSubscription(s))
<1>1. subs \in Seq(Streams) /\ IsInjective(subs)
  BY DEF TypeOK, SubsOnce
<1>2. InOrder(subs, subs)
  BY <1>1, LenProperties DEF InOrder, IsInjective
<1>3. ASSUME ~Contains(subs, s) PROVE InOrder(subs, Append(subs, s))
  BY <1>1, <1>3, AppendInOrder DEF InOrder
<1>4. InOrder(subs, RemoveFirst(subs, s))
  BY <1>1, RemoveFirstInOrder DEF InOrder
<1> QED
  BY <1>2, <1>3, <1>4 DEF AddSubscription, RemoveSubscription

\* A step that touches the subscriptions adds one, removes one or, in Close,
\* takes them all.
LEMMA SubsStep ==
    ASSUME Inv, [Next]_vars
    PROVE  \/ subs' \in {subs, <<>>}
           \/ \E s \in Streams :
                 subs' \in {AddSubscription(s), RemoveSubscription(s)}
<1> DEFINE Goal == \/ subs' \in {subs, <<>>}
                   \/ \E s \in Streams :
                         subs' \in {AddSubscription(s), RemoveSubscription(s)}
<1> USE DEF connVars
<1>1. ASSUME NEW c \in Callers, NEW o \in Ops, NEW s \in Streams, Call(c, o, s)
      PROVE  Goal
  BY <1>1 DEF Call, Register
<1>2. ASSUME NEW a \in Actors, Request(a) PROVE Goal
  <2>1. CASE DropSubscription(a)
    <3>1. req[a].stream \in Streams
      BY <2>1 DEF DropSubscription, Inv, RequestInv, Busy
    <3> QED
      BY <2>1, <3>1 DEF DropSubscription
  <2> QED
    BY <1>2, <2>1 DEF Request, WriteOk, WriteFails, Forget, Answered, GiveUp
<1>3. ASSUME NEW g \in Gens, Pass(g) PROVE Goal
  <2>1. CASE PassBegin(g) /\ ~closed
    <3>1. todo[g] \in Seq(Streams) /\ todo[g] # <<>>
      BY <2>1 DEF PassBegin, Inv, RequestInv, TypeOK
    <3>2. Head(todo[g]) \in Streams
      BY <3>1, HeadTailProperties
    <3> QED
      BY <2>1, <3>2 DEF PassBegin, Register, Refused
  <2> QED
    BY <1>3, <2>1 DEF Pass, PassClone, PassCheck, PassBegin, PassNotify, Goes,
                      Refused
<1>4. CASE ReadAck \/ ReadFatal
  BY <1>4 DEF ReadAck, ReadFatal
<1>5. CASE Run
  BY <1>5 DEF Run, ReadFails, CheckClosed, DropTransport, TellStopped, Wake,
              DialFails, DialOk, Install, Discard, Exit, RunGoes
<1>6. CASE CloseBegin \/ CloseStep \/ LinkDown
  BY <1>6 DEF CloseBegin, CloseStep, CloseUnsubscribe, CloseShut, CloseReturn,
              LinkDown
<1>7. CASE UNCHANGED vars
  BY <1>7 DEF vars
<1> QED
  BY <1>1, <1>2, <1>3, <1>4, <1>5, <1>6, <1>7 DEF Next

\* Whatever callers and passes add and remove, a stream that stays registered
\* keeps its place among the others: a reconnect restores the order of
\* subscription.
THEOREM OrderIsKept == Spec => OrderKept
<1>1. Inv /\ [Next]_vars => InOrder(subs, subs')
  <2> SUFFICES ASSUME Inv, [Next]_vars PROVE InOrder(subs, subs')
    OBVIOUS
  <2>1. TypeOK /\ SubsOnce
    BY DEF Inv
  <2>2. ASSUME subs' = subs PROVE InOrder(subs, subs')
    <3>1. subs \in Seq(Streams) /\ IsInjective(subs)
      BY <2>1 DEF TypeOK, SubsOnce
    <3> QED
      BY <2>2, <3>1, LenProperties DEF InOrder, IsInjective
  <2>3. InOrder(subs, <<>>)
    BY DEF InOrder
  <2> QED
    BY <2>1, <2>2, <2>3, SubsStep, SubscriptionsInOrder
<1>2. Inv /\ [Next]_vars
         => [\A i, j \in DOMAIN subs, k, l \in DOMAIN subs' :
               i < j /\ subs[i] = subs'[k] /\ subs[j] = subs'[l]
                  => k < l]_vars
  BY <1>1 DEF InOrder
<1> QED
  BY <1>2, Invariance, PTL DEF Spec, OrderKept

-----------------------------------------------------------------------------
(* The verdicts.                                                           *)

\* The waiter that takePending finds for an ACK that names its stream waits
\* for that stream.
LEMMA AckFits ==
    ASSUME Inv, AcksNameStreams, wire # <<>>, NEW tr \in AckTrs(Head(wire)),
           NEW i \in Oldest(tr)
    PROVE  /\ pending[i] \in Actors /\ Contains(pending, pending[i])
           /\ req[pending[i]].stream = Head(wire).stream
<1> DEFINE F == [by : Actors \cup {Closer}, op : Ops, stream : Streams]
           a == pending[i]
<1>1. /\ pending \in Seq(Actors) /\ wire \in Seq(F)
      /\ i \in DOMAIN pending /\ Matches(i, tr)
  BY DEF Inv, TypeOK, Oldest
<1>2. a \in Actors /\ Contains(pending, a)
  BY <1>1, LenProperties, ElementOfSeq DEF Contains
<1>3. req[a].stream \in Streams
  BY <1>2 DEF Inv, WaitersAreKnown, RequestInv, Busy
<1>4. Head(wire).stream \in Streams
  <2> HIDE DEF F
  <2>1. Head(wire) \in F
    BY <1>1, HeadTailProperties
  <2> QED
    BY <2>1 DEF F
<1>5. tr = TrOf[Head(wire).stream] /\ tr # Nil
  BY <1>4 DEF AckTrs, AcksNameStreams
<1>6. TrOf[req[a].stream] = TrOf[Head(wire).stream]
  BY <1>1, <1>5 DEF Matches
<1> QED
  BY <1>2, <1>3, <1>4, <1>6, ConnAssumption DEF IsInjective, AcksNameStreams

\* An ACK that names its transaction is a verdict for a waiter of that
\* transaction.
LEMMA VerdictStep ==
    ASSUME Inv, [Next]_vars, AcksNameStreams, NEW a \in Actors,
           res[a] = "none", res'[a] \in {"ok", "refused"}
    PROVE  wire # <<>> /\ Head(wire).stream = req[a].stream
<1> DEFINE Goal == wire # <<>> /\ Head(wire).stream = req[a].stream
<1>1. /\ res \in [Actors -> Answers]
      /\ pending \in Seq(Actors)
  BY DEF Inv, TypeOK
<1>2. ASSUME UNCHANGED res PROVE FALSE
  BY <1>2
<1>3. ASSUME NEW b \in Actors, Return(b) PROVE FALSE
  BY <1>1, <1>3 DEF Return
<1>4. ASSUME NEW err \in {"io", "occupied", "rejected"}, res' = Failed(err)
      PROVE  FALSE
  BY <1>4 DEF Failed
<1>5. CASE ReadAck
  <2>1. PICK v \in Verdicts, tr \in AckTrs(Head(wire)) : Resolve(tr, v)
    BY <1>5 DEF ReadAck
  <2>2. PICK i \in Oldest(tr) : res' = [res EXCEPT ![pending[i]] = v]
    BY <2>1 DEF Resolve
  <2>3. wire # <<>>
    BY <1>5 DEF ReadAck
  <2>4. pending[i] = a
    BY <1>1, <2>2
  <2> QED
    BY <2>3, <2>4, AckFits
<1>6. ASSUME NEW c \in Callers, NEW o \in Ops, NEW s \in Streams, Call(c, o, s)
      PROVE  FALSE
  BY <1>2, <1>6 DEF Call, Register
<1>7. ASSUME NEW b \in Actors, Request(b) PROVE FALSE
  BY <1>2, <1>3, <1>7 DEF Request, WriteOk, WriteFails, Forget,
                          DropSubscription, Answered, GiveUp
<1>8. ASSUME NEW g \in Gens, Pass(g) PROVE FALSE
  BY <1>2, <1>8 DEF Pass, PassClone, PassCheck, PassBegin, PassNotify, Goes,
                    Register
<1>9. CASE ReadFatal
  BY <1>4, <1>9 DEF ReadFatal, Fatal
<1>10. CASE Run
  <2>1. CASE ReadFails
    BY <1>4, <2>1 DEF ReadFails
  <2> QED
    BY <1>2, <1>10, <2>1
       DEF Run, CheckClosed, DropTransport, TellStopped, Wake, DialFails,
           DialOk, Install, Discard, Exit, RunGoes, reqVars
<1>11. CASE CloseBegin \/ CloseStep \/ LinkDown
  BY <1>2, <1>11 DEF CloseBegin, CloseStep, CloseUnsubscribe, CloseShut,
                     CloseReturn, LinkDown, reqVars
<1>12. CASE UNCHANGED vars
  BY <1>2, <1>12 DEF vars, reqVars
<1> QED
  BY <1>5, <1>6, <1>7, <1>8, <1>9, <1>10, <1>11, <1>12 DEF Next

\* Where every stream has a transaction of its own, no request is told the
\* verdict of another stream, whatever sockets were lost in between.
THEOREM VerdictsFit == Spec => VerdictFits
<1>1. Inv /\ [Next]_vars
         => [AcksNameStreams =>
               \A a \in Actors :
                  res[a] = "none" /\ res'[a] \in {"ok", "refused"}
                     => wire # <<>> /\ Head(wire).stream = req[a].stream]_vars
  BY VerdictStep
<1> QED
  BY <1>1, Invariance, PTL DEF Spec, VerdictFits

-----------------------------------------------------------------------------
(* The end of an occupied session.                                         *)

\* After the report that another session holds the app key only the end of
\* the run loop is left.
Leaving == runPc \in {"occupied", "giveup", "tell", "exit", "exited", "done"}

\* Once another session holds the app key the run loop never dials again,
\* whatever callers, passes and Close do meanwhile.
THEOREM OccupiedStaysFinal == Spec => OccupiedIsFinal
<1>1. Leaving /\ [Next]_vars => Leaving'
  <2> SUFFICES ASSUME Leaving, [Next]_vars PROVE Leaving'
    OBVIOUS
  <2>1. ASSUME UNCHANGED runPc PROVE Leaving'
    BY <2>1 DEF Leaving
  <2>2. CASE Run
    BY <2>2 DEF Leaving, Run, ReadFails, CheckClosed, DropTransport,
                TellStopped, Wake, DialFails, DialOk, Install, Discard, Exit,
                RunGoes, AfterFailure
  <2>3. ASSUME NEW a \in Actors, Request(a) \/ (a \in Gens /\ Pass(a))
        PROVE  Leaving'
    BY <2>1, <2>3, RequestsKeepSockets DEF socketVars
  <2>4. ASSUME NEW c, NEW o, NEW s, Call(c, o, s) PROVE Leaving'
    BY <2>1, <2>4, CallsKeepSockets DEF socketVars
  <2>5. CASE ReadAck \/ ReadFatal \/ CloseBegin \/ CloseStep \/ LinkDown
    BY <2>5 DEF Leaving, ReadAck, ReadFatal, CloseBegin, CloseStep,
                CloseUnsubscribe, CloseShut, CloseReturn, LinkDown
  <2>6. CASE UNCHANGED vars
    BY <2>1, <2>6 DEF vars
  <2> QED
    BY <2>2, <2>3, <2>4, <2>5, <2>6 DEF Next, Actors
<1>2. runPc = "occupied" => Leaving
  BY DEF Leaving
<1>3. Leaving => runPc # "dial"
  BY DEF Leaving
<1> QED
  BY <1>1, <1>2, <1>3, PTL DEF Spec, OccupiedIsFinal

-----------------------------------------------------------------------------
(* What is registered is served.                                           *)

\* The run loop reads a link that is up.
Live == runPc = "read" /\ up /\ ~closed

\* A dead link carries nothing; no link is up while run has no socket; and no
\* request has captured a socket that is not installed yet.
LinkInv ==
    /\ ~up => wire = <<>>
    /\ runPc \in {"tell", "sleep", "dial", "install"} => ~up
    /\ \A a \in Actors : req[a].sock \in 0 .. generation \cup {Nil}

\* All requests are subscriptions.
OnlySubs == \A a \in Actors : req[a].op = "sub"

\* A request whose frame may still reach the link, or that is still to be
\* forgotten.
Unwritten(a) ==
    \/ pc[a] = "write" /\ req[a].sock = generation
    \/ pc[a] \in {"write", "forget"} /\ Contains(pending, a)

\* One of the actors waits for a verdict on stream s and owes answer x.
Waits(actors, owes, x, s) ==
    \E a \in actors : Contains(pending, a) /\ owes[a] = x /\ req[a].stream = s

\* owes assigns to waiters the answers to come: each frame on the link, and
\* each unwritten request, has a waiter of its stream for itself.
Fits(owes) ==
    /\ \A i \in DOMAIN wire :
          Waits(Actors, owes, <<"frame", i>>, wire[i].stream)
    /\ \A a \in Actors : Unwritten(a) =>
          Waits(Actors, owes, <<"request", a>>, req[a].stream)

\* ACKs carry no request ID, so a waiter may get the verdict of another
\* request; but never do fewer wait for a stream than answers may come, so
\* that no refusal goes unheard.
Owed == \E owes : Fits(owes)

\* The request of a is about to have stream s served, or to drop it.
Settles(a, s) ==
    /\ req[a].stream = s
    /\ \/ pc[a] \in {"write", "forget", "drop"}
       \/ pc[a] = "wait" /\ res[a] = "refused"

\* The pass of the newest socket has yet to restore s.
ToRestore(s) ==
    /\ generation \in Gens
    /\ \/ pc[generation] = "start"
       \/ /\ pc[generation] \in Busy \cup {"check", "begin"}
          /\ Contains(todo[generation], s)

\* Stream s is served, or somebody is about to see to it.
Attended(s) ==
    \/ s \in served
    \/ \E a \in Actors : Settles(a, s)
    \/ ToRestore(s)

\* Every registered stream is.
Covered == \A s \in Streams : Contains(subs, s) => Attended(s)

\* What is owed matters only to a server that refuses.
ServedInv == /\ LinkInv /\ OnlySubs
             /\ Live => ("refused" \in Verdicts => Owed) /\ Covered

\* Under which the code keeps what is registered served.
Undisturbed == NothingWithdrawn /\ RefusalsHeard

\* Dial returns with nothing registered and nothing owed.
LEMMA InitServed == Init => ServedInv
<1> SUFFICES ASSUME Init PROVE ServedInv
  OBVIOUS
<1>1. LinkInv /\ OnlySubs
  BY DEF Init, LinkInv, OnlySubs, NoReq
<1>2. Fits([a \in Actors |-> Nil])
  BY DEF Init, Fits, Unwritten, Contains
<1>3. Covered
  BY DEF Init, Covered, Contains
<1> QED
  BY <1>1, <1>2, <1>3 DEF ServedInv, Owed

\* What a step does to the fields of a request: it begins with the socket
\* there is, it ends, or it keeps them.
LEMMA ReqStep ==
    ASSUME Inv, [Next]_vars, NothingWithdrawn, NEW a \in Actors
    PROVE  \/ req'[a] = req[a]
           \/ req'[a] = NoReq
           \/ req'[a].sock = transport /\ req'[a].op = "sub"
<1> DEFINE Goal == \/ req'[a] = req[a]
                   \/ req'[a] = NoReq
                   \/ req'[a].sock = transport /\ req'[a].op = "sub"
<1>1. req \in [Actors -> Requests]
  BY DEF Inv, TypeOK
<1>2. ASSUME UNCHANGED req PROVE Goal
  BY <1>2
<1>3. ASSUME NEW b \in Actors, Return(b) PROVE Goal
  BY <1>1, <1>3 DEF Return
<1>4. ASSUME NEW b \in Actors, NEW s, Register(b, "sub", s) PROVE Goal
  BY <1>1, <1>4 DEF Register
<1>5. ASSUME NEW c \in Callers, NEW o \in Ops, NEW s \in Streams, Call(c, o, s)
      PROVE  Goal
  <2>1. o = "sub"
    BY <1>5 DEF Call, NothingWithdrawn, Ops
  <2> QED
    BY <1>4, <1>5, <2>1 DEF Call, Actors
<1>6. ASSUME NEW b \in Actors, Request(b) PROVE Goal
  BY <1>2, <1>3, <1>6 DEF Request, WriteOk, WriteFails, Forget,
                          DropSubscription, Answered, GiveUp
<1>7. ASSUME NEW g \in Gens, Pass(g) PROVE Goal
  BY <1>2, <1>4, <1>7 DEF Pass, PassClone, PassCheck, PassBegin, PassNotify,
                          Goes, Actors
<1>8. CASE ReadAck \/ ReadFatal \/ Run
  BY <1>2, <1>8 DEF ReadAck, ReadFatal, Run, ReadFails, CheckClosed,
                    DropTransport, TellStopped, Wake, DialFails, DialOk,
                    Install, Discard, Exit, RunGoes, reqVars
<1>9. CASE CloseBegin \/ CloseStep \/ LinkDown
  BY <1>2, <1>9 DEF CloseBegin, CloseStep, CloseUnsubscribe, CloseShut,
                    CloseReturn, LinkDown, reqVars
<1>10. CASE UNCHANGED vars
  BY <1>2, <1>10 DEF vars, reqVars
<1> QED
  BY <1>5, <1>6, <1>7, <1>8, <1>9, <1>10 DEF Next

\* The link is dead where it should be.
LEMMA LinkStep ==
    ASSUME Inv, LinkInv, NothingWithdrawn, [Next]_vars
    PROVE  LinkInv'
<1> DEFINE Dead == /\ ~up' => wire' = <<>>
                   /\ runPc' \in {"tell", "sleep", "dial", "install"} => ~up'
<1>1. generation \in Nat /\ generation' \in {generation, generation + 1}
  <2>1. generation \in Nat
    BY ConnAssumption DEF Inv, TypeOK, Sockets
  <2>2. generation' \in {generation, generation + 1}
    BY DEF Next, Call, Register, Request, WriteOk, WriteFails, Forget,
           DropSubscription, Answered, GiveUp, Pass, PassClone, PassCheck,
           PassBegin, PassNotify, Goes, ReadAck, ReadFatal, Run, ReadFails,
           CheckClosed, DropTransport, TellStopped, Wake, DialFails, DialOk,
           Install, NextGeneration, Discard, Exit, RunGoes, CloseBegin,
           CloseStep, CloseUnsubscribe, CloseShut, CloseReturn, LinkDown,
           vars, connVars
  <2> QED
    BY <2>1, <2>2
<1>2. \A a \in Actors : req'[a].sock \in 0 .. generation' \cup {Nil}
  <2> SUFFICES ASSUME NEW a \in Actors
               PROVE  req'[a].sock \in 0 .. generation' \cup {Nil}
    OBVIOUS
  <2>1. 0 .. generation \subseteq 0 .. generation'
    BY <1>1
  <2>2. CASE req'[a] = req[a]
    BY <2>1, <2>2 DEF LinkInv
  <2>3. CASE req'[a] = NoReq
    BY <2>3 DEF NoReq
  <2>4. CASE req'[a].sock = transport
    BY <1>1, <2>1, <2>4 DEF Inv, SocketInv
  <2> QED
    BY <2>2, <2>3, <2>4, ReqStep
<1>3. Dead
  <2> USE DEF LinkInv, connVars, netVars
  <2>1. ASSUME UNCHANGED <<up, wire, runPc>> PROVE Dead
    BY <2>1
  <2>2. ASSUME NEW c \in Callers, NEW o \in Ops, NEW s \in Streams,
               Call(c, o, s)
        PROVE  Dead
    BY <2>1, <2>2 DEF Call
  <2>3. ASSUME NEW a \in Actors, Request(a) PROVE Dead
    BY <2>1, <2>3 DEF Request, WriteOk, WriteFails, Forget, DropSubscription,
                      Answered, GiveUp, Puts, CannotPut
  <2>4. ASSUME NEW g \in Gens, Pass(g) PROVE Dead
    BY <2>1, <2>4 DEF Pass, PassClone, PassCheck, PassBegin, PassNotify, Goes
  <2>5. CASE ReadAck \/ ReadFatal
    BY <2>5 DEF ReadAck, ReadFatal
  <2>6. CASE Run
    BY <2>6 DEF Run, ReadFails, CheckClosed, AfterFailure, DropTransport,
                LinkGone, TellStopped, Wake, DialFails, Retries, DialOk,
                Install, Discard, Exit, RunGoes
  <2>7. CASE CloseBegin \/ CloseStep \/ LinkDown
    BY <2>7 DEF CloseBegin, CloseStep, CloseUnsubscribe, Puts, CannotPut,
                CloseShut, CloseReturn, LinkDown, LinkGone
  <2>8. CASE UNCHANGED vars
    BY <2>1, <2>8 DEF vars
  <2> QED
    BY <2>2, <2>3, <2>4, <2>5, <2>6, <2>7, <2>8 DEF Next
<1> QED
  BY <1>2, <1>3 DEF LinkInv

\* All requests stay subscriptions.
LEMMA OnlySubsStep ==
    ASSUME Inv, OnlySubs, NothingWithdrawn, [Next]_vars
    PROVE  OnlySubs'
<1>1. NoReq.op = "sub"
  BY DEF NoReq
<1> QED
  BY <1>1, ReqStep DEF OnlySubs

\* Only Install makes a link live again.
LEMMA LiveStep ==
    ASSUME Inv, LinkInv, [Next]_vars, Live', ~Install
    PROVE  Live
<1> USE DEF Live, connVars, netVars
<1>1. ASSUME UNCHANGED <<runPc, up, closed>> PROVE Live
  BY <1>1
<1>2. ASSUME NEW c \in Callers, NEW o \in Ops, NEW s \in Streams, Call(c, o, s)
      PROVE  Live
  BY <1>1, <1>2, CallsKeepSockets DEF socketVars
<1>3. ASSUME NEW a \in Actors, Request(a) \/ (a \in Gens /\ Pass(a)) PROVE Live
  BY <1>1, <1>3, RequestsKeepSockets DEF socketVars
<1>4. CASE ReadAck
  BY <1>1, <1>4 DEF ReadAck
<1>5. CASE ReadFatal \/ CloseBegin \/ LinkDown
  BY <1>5 DEF ReadFatal, CloseBegin, LinkDown, LinkGone
<1>6. CASE Run
  BY <1>6 DEF Run, ReadFails, CheckClosed, AfterFailure, DropTransport,
              TellStopped, Wake, DialFails, Retries, DialOk, Discard, Exit,
              RunGoes
<1>7. CASE CloseStep
  <2>1. CASE CloseUnsubscribe
    BY <1>1, <2>1 DEF CloseUnsubscribe, Puts, CannotPut
  <2> QED
    BY <1>1, <1>7, <2>1 DEF CloseStep, CloseShut, LinkGone, CloseReturn
<1>8. CASE UNCHANGED vars
  BY <1>1, <1>8 DEF vars
<1> QED
  BY <1>2, <1>3, <1>4, <1>5, <1>6, <1>7, <1>8 DEF Next, Actors

\* While the link is live a request can write only to the newest socket, and
\* what ends its wait is an answer or the end of its context.
LEMMA LiveRequests ==
    ASSUME Inv, Live, NEW a \in Actors
    PROVE  /\ Impatient \subseteq {Closer} => ~GiveUp(a)
           /\ req[a].sock \in open => req[a].sock = generation
<1>1. a # Closer /\ Nil \notin Sockets
  BY ConnAssumption DEF Sockets
<1>2. Impatient \subseteq {Closer} => ~GiveUp(a)
  BY <1>1 DEF GiveUp, WaitEnds, Live, Cancelled, Stopped, Inv, CloseInv
<1>3. open \subseteq Sockets /\ open \subseteq {transport}
  BY DEF Live, Inv, TypeOK, SocketInv
<1>4. transport \in {generation, Nil}
  BY DEF Inv, SocketInv
<1> QED
  BY <1>1, <1>2, <1>3, <1>4

\* While the link is live only these steps touch what is owed or covered.
Touches ==
    \/ Install \/ ReadAck
    \/ \E c \in Callers, s \in Streams : Call(c, "sub", s)
    \/ \E a \in Actors : Request(a)
    \/ \E g \in Gens : Pass(g)

\* All others leave it alone.
LEMMA OthersTouchNothing ==
    ASSUME Inv, LinkInv, NothingWithdrawn, [Next]_vars, Live', ~Touches
    PROVE  UNCHANGED <<generation, subs, pending, wire, served, pc, req, res,
                       todo>>
<1> DEFINE Goal == UNCHANGED <<generation, subs, pending, wire, served, pc,
                               req, res, todo>>
<1>1. Live
  BY LiveStep DEF Touches
<1>2. runPc = "read" /\ runPc' = "read" /\ up' /\ ~closed /\ ~closed'
  BY <1>1 DEF Live
<1>3. ASSUME NEW c \in Callers, NEW o \in Ops, NEW s \in Streams, Call(c, o, s)
      PROVE  FALSE
  <2>1. o = "sub"
    BY <1>3 DEF Call, NothingWithdrawn, Ops
  <2> QED
    BY <1>3, <2>1 DEF Touches
<1>4. ~ReadFatal
  BY <1>2 DEF ReadFatal
<1>5. ~Run
  BY <1>2 DEF Touches, Run, ReadFails, CheckClosed, AfterFailure,
              DropTransport, TellStopped, Wake, DialFails, Retries, DialOk,
              Discard, Exit, RunGoes
<1>6. ~CloseBegin
  BY <1>2 DEF CloseBegin
<1>7. ~CloseStep
  <2>1. closer = "idle"
    BY <1>2 DEF Inv, CloseInv
  <2> QED
    BY <2>1 DEF CloseStep, CloseUnsubscribe, CloseShut, CloseReturn
<1>8. ~LinkDown
  BY <1>2 DEF LinkDown, LinkGone
<1>9. UNCHANGED vars
  BY <1>3, <1>4, <1>5, <1>6, <1>7, <1>8 DEF Next, Touches
<1> QED
  BY <1>9 DEF vars, connVars, netVars, reqVars

-----------------------------------------------------------------------------
(* What is owed.                                                           *)

\* Where waiters keep their streams and no more is to be written than was,
\* what is owed stays owed.
LEMMA OwedKept ==
    ASSUME Owed, UNCHANGED <<wire, pending>>,
           \A a \in Actors : Contains(pending, a) \/ Unwritten(a)'
                               => req'[a].stream = req[a].stream,
           \A a \in Actors : Unwritten(a)' => Unwritten(a)
    PROVE  Owed'
<1>1. PICK owes : Fits(owes)
  BY DEF Owed
<1>2. ASSUME NEW i \in DOMAIN wire'
      PROVE  Waits(Actors, owes, <<"frame", i>>, wire[i].stream)'
  <2>1. PICK a \in Actors : /\ Contains(pending, a) /\ owes[a] = <<"frame", i>>
                            /\ req[a].stream = wire[i].stream
    BY <1>1 DEF Fits, Waits
  <2> QED
    BY <2>1 DEF Waits
<1>3. ASSUME NEW b \in Actors, Unwritten(b)'
      PROVE  Waits(Actors, owes, <<"request", b>>, req[b].stream)'
  <2>1. PICK a \in Actors : /\ Contains(pending, a)
                            /\ owes[a] = <<"request", b>>
                            /\ req[a].stream = req[b].stream
    BY <1>1, <1>3 DEF Fits, Waits
  <2> QED
    BY <1>3, <2>1 DEF Waits
<1>4. Fits(owes)'
  BY <1>2, <1>3 DEF Fits
<1> QED
  BY <1>4 DEF Owed

\* A new socket has no frames yet, and whoever may still write or be
\* forgotten waits for itself.
LEMMA OwedByInstall ==
    ASSUME Inv, LinkInv, Install
    PROVE  Owed'
<1> DEFINE owes == [a \in Actors |-> <<"request", a>>]
<1>1. wire' = <<>> /\ pending' = pending /\ req' = req
  BY DEF Install, LinkInv
<1>2. generation \in Nat /\ generation' = generation + 1 /\ Nil \notin Nat
  BY ConnAssumption DEF Install, NextGeneration, Inv, TypeOK, Sockets
<1>3. \A a \in Actors : req[a].sock # generation'
  BY <1>2 DEF LinkInv
<1>4. ASSUME NEW b \in Actors, Unwritten(b)' PROVE Contains(pending', b)
  BY <1>1, <1>3, <1>4 DEF Unwritten
<1>5. Fits(owes)'
  BY <1>1, <1>4 DEF Fits, Waits
<1> QED
  BY <1>5 DEF Owed

\* A request that begins waits for itself.
LEMMA OwedByRegister ==
    ASSUME Inv, Owed, NEW a \in Actors, NEW s \in Streams,
           pc[a] \in {"idle", "begin"}, Register(a, "sub", s),
           UNCHANGED wire
    PROVE  Owed'
<1>1. PICK owes : Fits(owes)
  BY DEF Owed
<1> DEFINE next == [b \in Actors |-> IF b = a THEN <<"request", a>>
                                               ELSE owes[b]]
<1>2. /\ ~Contains(pending, a)
      /\ \A x : Contains(pending', x) <=> Contains(pending, x) \/ x = a
  <2>1. pending \in Seq(Actors)
    BY DEF Inv, TypeOK
  <2> QED
    BY <2>1, AppendOnce DEF Register, Inv, WaitersAreKnown
<1>3. \A b \in Actors : b # a => pc'[b] = pc[b] /\ req'[b] = req[b]
  BY DEF Register, Inv, TypeOK
<1>4. generation' = generation
  BY DEF Register
<1>5. ASSUME NEW i \in DOMAIN wire'
      PROVE  Waits(Actors, next, <<"frame", i>>, wire[i].stream)'
  <2>1. PICK b \in Actors : /\ Contains(pending, b) /\ owes[b] = <<"frame", i>>
                            /\ req[b].stream = wire[i].stream
    BY <1>1 DEF Fits, Waits
  <2> QED
    BY <1>2, <1>3, <2>1 DEF Waits
<1>6. ASSUME NEW c \in Actors, Unwritten(c)'
      PROVE  Waits(Actors, next, <<"request", c>>, req[c].stream)'
  <2>1. CASE c = a
    BY <1>2, <2>1 DEF Waits
  <2>2. CASE c # a
    <3>1. Unwritten(c)
      BY <1>2, <1>3, <1>4, <1>6, <2>2 DEF Unwritten
    <3>2. PICK b \in Actors : /\ Contains(pending, b)
                              /\ owes[b] = <<"request", c>>
                              /\ req[b].stream = req[c].stream
      BY <1>1, <3>1 DEF Fits, Waits
    <3> QED
      BY <1>2, <1>3, <2>2, <3>2 DEF Waits
  <2> QED
    BY <2>1, <2>2
<1>7. Fits(next)'
  BY <1>5, <1>6 DEF Fits
<1> QED
  BY <1>7 DEF Owed

\* A request that is written owes the answer to its frame instead.
LEMMA OwedByWrite ==
    ASSUME Inv, Live, Owed, NEW a \in Actors, WriteOk(a)
    PROVE  Owed'
<1> DEFINE F == [by : Actors \cup {Closer}, op : Ops, stream : Streams]
           f == Frame(a, req[a].op, req[a].stream)
<1>1. PICK owes : Fits(owes)
  BY DEF Owed
<1>2. /\ req[a].sock = generation /\ pc[a] = "write"
      /\ wire' = Append(wire, f)
      /\ pc' = [pc EXCEPT ![a] = "wait"]
      /\ UNCHANGED <<generation, pending, req>>
  BY LiveRequests DEF WriteOk, Puts, Live, connVars
<1>3. Unwritten(a) /\ f.stream = req[a].stream /\ f \in F
  BY <1>2 DEF Unwritten, Frame, Inv, RequestInv, TypeOK, Requests, Busy
<1>4. wire \in Seq(F)
  BY DEF Inv, TypeOK
<1> HIDE DEF f, F
<1>5. /\ Len(wire) \in Nat /\ DOMAIN wire = 1 .. Len(wire)
      /\ DOMAIN wire' = 1 .. Len(wire) + 1
      /\ \A i \in 1 .. Len(wire) : wire'[i] = wire[i]
      /\ wire'[Len(wire) + 1] = f
  BY <1>2, <1>3, <1>4, AppendProperties, LenProperties
<1>6. PICK last : last = Len(wire) + 1
  OBVIOUS
<1> DEFINE next == [b \in Actors |-> IF owes[b] = <<"request", a>>
                                THEN <<"frame", last>> ELSE owes[b]]
<1>7. ASSUME NEW i \in DOMAIN wire'
      PROVE  Waits(Actors, next, <<"frame", i>>, wire[i].stream)'
  <2>1. CASE i = Len(wire) + 1
    <3>1. PICK b \in Actors : /\ Contains(pending, b)
                              /\ owes[b] = <<"request", a>>
                              /\ req[b].stream = req[a].stream
      BY <1>1, <1>3 DEF Fits, Waits
    <3> QED
      BY <1>2, <1>3, <1>5, <1>6, <2>1, <3>1 DEF Waits
  <2>2. CASE i \in 1 .. Len(wire)
    <3>1. PICK b \in Actors : /\ Contains(pending, b)
                              /\ owes[b] = <<"frame", i>>
                              /\ req[b].stream = wire[i].stream
      BY <1>1, <1>5, <2>2 DEF Fits, Waits
    <3> QED
      BY <1>2, <1>5, <2>2, <3>1 DEF Waits
  <2> QED
    BY <1>5, <2>1, <2>2
<1>8. ASSUME NEW c \in Actors, Unwritten(c)'
      PROVE  Waits(Actors, next, <<"request", c>>, req[c].stream)'
  <2>1. c # a /\ Unwritten(c)
    BY <1>2, <1>8 DEF Unwritten, Inv, TypeOK
  <2>2. PICK b \in Actors : /\ Contains(pending, b)
                            /\ owes[b] = <<"request", c>>
                            /\ req[b].stream = req[c].stream
    BY <1>1, <2>1 DEF Fits, Waits
  <2> QED
    BY <1>2, <2>1, <2>2 DEF Waits
<1>9. Fits(next)'
  BY <1>7, <1>8 DEF Fits
<1> QED
  BY <1>9 DEF Owed

\* Of two waiters of one stream either may leave with the answer x that one
\* of them waits for: the other takes over what is left, so that everything
\* but x still has its waiter.
LEMMA Exchange ==
    ASSUME NEW owes, NEW x, NEW w \in Actors, NEW b \in Actors,
           Contains(pending, b), owes[b] = x, req[b].stream = req[w].stream
    PROVE  \E next : \A y, s :
              y # x /\ Waits(Actors, owes, y, s)
                 => Waits(Actors \ {w}, next, y, s)
<1> DEFINE next == [a \in Actors |-> IF a = b THEN owes[w] ELSE owes[a]]
<1>1. ASSUME NEW y, NEW s, y # x, NEW a \in Actors, Contains(pending, a),
             owes[a] = y, req[a].stream = s
      PROVE  Waits(Actors \ {w}, next, y, s)
  <2>1. CASE a = w
    BY <1>1, <2>1 DEF Waits
  <2>2. CASE a # w
    BY <1>1, <2>2 DEF Waits
  <2> QED
    BY <2>1, <2>2
<1>2. \A y, s : y # x /\ Waits(Actors, owes, y, s)
                  => Waits(Actors \ {w}, next, y, s)
  <2> HIDE DEF next
  <2> QED
    BY <1>1 DEF Waits
<1> HIDE DEF next
<1> QED
  BY <1>2

\* A request that is forgotten was still to be forgotten, or waits no more.
LEMMA OwedByForget ==
    ASSUME Inv, Owed, NEW a \in Actors, Forget(a)
    PROVE  Owed'
<1>0. /\ pending \in Seq(Actors) /\ IsInjective(pending)
      /\ pc \in [Actors -> {"idle", "off", "start", "check", "begin", "write",
                            "forget", "drop", "wait", "notify", "end"}]
  BY DEF Inv, TypeOK, RequestInv
<1>1. /\ pc[a] = "forget" /\ pc' = [pc EXCEPT ![a] = "drop"]
      /\ pending' = RemoveFirst(pending, a)
      /\ UNCHANGED <<generation, wire, req>>
  BY DEF Forget, Forgotten, netVars
<1>2. CASE ~Contains(pending, a)
  <2>1. pending' = pending
    BY <1>1, <1>2 DEF RemoveFirst, Contains
  <2>2. \A b \in Actors : Unwritten(b)' => Unwritten(b)
    BY <1>0, <1>1, <2>1 DEF Unwritten
  <2> QED
    BY <1>1, <2>1, <2>2, OwedKept
<1>3. CASE Contains(pending, a)
  <2>1. PICK owes : Fits(owes)
    BY DEF Owed
  <2>2. PICK b \in Actors : /\ Contains(pending, b)
                            /\ owes[b] = <<"request", a>>
                            /\ req[b].stream = req[a].stream
    BY <1>1, <1>3, <2>1 DEF Fits, Waits, Unwritten
  <2>3. PICK next : \A y, s :
           y # <<"request", a>> /\ Waits(Actors, owes, y, s)
              => Waits(Actors \ {a}, next, y, s)
    BY <2>2, Exchange
  <2>4. \A x : Contains(pending', x) <=> Contains(pending, x) /\ x # a
    BY <1>0, <1>1, RemoveFirstOnce
  <2>5. ASSUME NEW i \in DOMAIN wire'
        PROVE  Waits(Actors, next, <<"frame", i>>, wire[i].stream)'
    <3>1. Waits(Actors, owes, <<"frame", i>>, wire[i].stream)
      BY <1>1, <2>1 DEF Fits, Waits
    <3>2. <<"frame", i>> # <<"request", a>>
      OBVIOUS
    <3>3. Waits(Actors \ {a}, next, <<"frame", i>>, wire[i].stream)
      BY <2>3, <3>1, <3>2
    <3> QED
      BY <1>1, <2>4, <3>3 DEF Waits
  <2>6. ASSUME NEW d \in Actors, Unwritten(d)'
        PROVE  Waits(Actors, next, <<"request", d>>, req[d].stream)'
    <3>1. d # a /\ Unwritten(d)
      BY <1>0, <1>1, <2>4, <2>6 DEF Unwritten
    <3>2. Waits(Actors, owes, <<"request", d>>, req[d].stream)
      BY <2>1, <3>1 DEF Fits, Waits
    <3>3. <<"request", d>> # <<"request", a>>
      BY <3>1
    <3>4. Waits(Actors \ {a}, next, <<"request", d>>, req[d].stream)
      BY <2>3, <3>2, <3>3
    <3> QED
      BY <1>1, <2>4, <3>4 DEF Waits
  <2>7. Fits(next)'
    BY <2>5, <2>6 DEF Fits
  <2> QED
    BY <2>7 DEF Owed
<1> QED
  BY <1>2, <1>3

\* While a request of its stream waits, an ACK finds a waiter.
LEMMA OldestExists ==
    ASSUME Inv, NEW a \in Actors, Contains(pending, a), NEW tr,
           TrOf[req[a].stream] = tr
    PROVE  Oldest(tr) # {}
<1> DEFINE T == {i \in DOMAIN pending : Matches(i, tr)}
<1>1. pending \in Seq(Actors) /\ DOMAIN pending = 1 .. Len(pending)
  BY LenProperties DEF Inv, TypeOK
<1>2. PICK i \in DOMAIN pending : pending[i] = a
  BY <1>1 DEF Contains
<1>3. i \in T
  BY <1>2 DEF Matches
<1>4. T \in SUBSET Nat /\ T # {}
  BY <1>1, <1>3
<1>5. Min(T) \in T /\ \A j \in T : Min(T) <= j
  BY <1>4, MinIsLeast
<1> DEFINE m == Min(T)
<1>6. \A j \in DOMAIN pending : j < m => ~Matches(j, tr)
  <2> SUFFICES ASSUME NEW j \in DOMAIN pending, j < m, Matches(j, tr)
               PROVE  FALSE
    OBVIOUS
  <2>1. j \in T
    OBVIOUS
  <2>2. m <= j /\ m \in Nat /\ j \in Nat
    BY <1>4, <1>5, <2>1
  <2> QED
    BY <2>2
<1>7. m \in DOMAIN pending /\ Matches(m, tr)
  BY <1>5
<1> HIDE DEF m
<1>8. m \in Oldest(tr)
  BY <1>6, <1>7 DEF Oldest
<1> QED
  BY <1>8

\* An answer leaves the link and a waiter of its stream leaves with it.
LEMMA OwedByAck ==
    ASSUME Inv, AcksNameStreams, Owed, ReadAck
    PROVE  Owed'
<1> DEFINE F == [by : Actors \cup {Closer}, op : Ops, stream : Streams]
<1>0. /\ pending \in Seq(Actors) /\ IsInjective(pending)
      /\ wire \in Seq(F) /\ wire # <<>>
  BY DEF Inv, TypeOK, RequestInv, ReadAck
<1> HIDE DEF F
<1>1. PICK owes : Fits(owes)
  BY DEF Owed
<1>2. /\ Len(wire) \in Nat /\ DOMAIN wire = 1 .. Len(wire) /\ 1 \in DOMAIN wire
      /\ Head(wire) = wire[1]
      /\ wire' = Tail(wire) /\ DOMAIN wire' = 1 .. Len(wire) - 1
      /\ \A i \in 1 .. Len(wire) - 1 : wire'[i] = wire[i + 1]
  <2>1. Tail(wire) \in Seq(F) /\ Len(Tail(wire)) = Len(wire) - 1
    BY <1>0, HeadTailProperties
  <2>2. DOMAIN Tail(wire) = 1 .. Len(wire) - 1
    BY <2>1, LenProperties
  <2> QED
    BY <1>0, <2>2, LenProperties, HeadTailProperties DEF ReadAck
<1>3. PICK b \in Actors : /\ Contains(pending, b) /\ owes[b] = <<"frame", 1>>
                          /\ req[b].stream = wire[1].stream
  BY <1>1, <1>2 DEF Fits, Waits
<1>4. PICK v \in Verdicts, tr \in AckTrs(Head(wire)) : Resolve(tr, v)
  BY DEF ReadAck
<1>5. Oldest(tr) # {}
  BY <1>2, <1>3, <1>4, OldestExists DEF AckTrs, AcksNameStreams
<1>6. PICK n \in Oldest(tr) : pending' = RemoveAt(pending, n)
  BY <1>4, <1>5 DEF Resolve
<1> DEFINE w == pending[n]
<1>7. /\ w \in Actors /\ req[w].stream = req[b].stream
      /\ \A x : Contains(pending', x) <=> Contains(pending, x) /\ x # w
  <2>1. n \in DOMAIN pending
    BY <1>6 DEF Oldest
  <2>2. req[w].stream = Head(wire).stream /\ w \in Actors
    BY <1>0, <1>4, <1>6, AckFits
  <2> QED
    BY <1>0, <1>2, <1>3, <1>6, <2>1, <2>2, RemoveAtOnce
<1> HIDE DEF w
<1>8. PICK left : \A y, s :
         y # <<"frame", 1>> /\ Waits(Actors, owes, y, s)
            => Waits(Actors \ {w}, left, y, s)
  BY <1>3, <1>7, Exchange
<1> DEFINE next == [c \in Actors |-> IF left[c][1] = "frame"
                                     THEN <<"frame", left[c][2] - 1>>
                                     ELSE left[c]]
<1>9. UNCHANGED <<generation, pc, req>>
  BY DEF ReadAck
<1>10. ASSUME NEW i \in DOMAIN wire'
       PROVE  Waits(Actors, next, <<"frame", i>>, wire[i].stream)'
  <2>1. i + 1 \in DOMAIN wire /\ i + 1 # 1 /\ i \in Nat
    BY <1>2
  <2>2. Waits(Actors, owes, <<"frame", i + 1>>, wire[i + 1].stream)
    BY <1>1, <2>1 DEF Fits, Waits
  <2>3. <<"frame", i + 1>> # <<"frame", 1>>
    BY <2>1
  <2>4. PICK c \in Actors : /\ Contains(pending, c) /\ c # w
                            /\ left[c] = <<"frame", i + 1>>
                            /\ req[c].stream = wire[i + 1].stream
    BY <1>8, <2>2, <2>3 DEF Waits
  <2>5. next[c] = <<"frame", i>>
    BY <2>1, <2>4
  <2> QED
    BY <1>2, <1>7, <1>9, <2>4, <2>5 DEF Waits
<1>11. ASSUME NEW d \in Actors, Unwritten(d)'
       PROVE  Waits(Actors, next, <<"request", d>>, req[d].stream)'
  <2>1. Unwritten(d)
    BY <1>7, <1>9, <1>11 DEF Unwritten
  <2>2. Waits(Actors, owes, <<"request", d>>, req[d].stream)
    BY <1>1, <2>1 DEF Fits, Waits
  <2>3. <<"request", d>> # <<"frame", 1>>
    OBVIOUS
  <2>4. PICK c \in Actors : /\ Contains(pending, c) /\ c # w
                            /\ left[c] = <<"request", d>>
                            /\ req[c].stream = req[d].stream
    BY <1>8, <2>2, <2>3 DEF Waits
  <2>5. next[c] = <<"request", d>>
    BY <2>4
  <2> QED
    BY <1>7, <1>9, <2>4, <2>5 DEF Waits
<1>12. Fits(next)'
  BY <1>10, <1>11 DEF Fits
<1> QED
  BY <1>12 DEF Owed

\* A failed write, an answer and the return of an error keep what is owed.
LEMMA OwedByRequest ==
    ASSUME Inv, Live, Impatient \subseteq {Closer}, Owed,
           NEW a \in Actors, Request(a)
    PROVE  Owed'
<1>1. CASE WriteOk(a)
  BY <1>1, OwedByWrite
<1>2. CASE Forget(a)
  BY <1>2, OwedByForget
<1> DEFINE Ends == WriteFails(a) \/ DropSubscription(a) \/ Answered(a)
<1>3. CASE Ends
  <2>1. /\ UNCHANGED <<wire, pending, generation>>
        /\ \A b \in Actors : b # a => pc'[b] = pc[b] /\ req'[b] = req[b]
    BY <1>3 DEF WriteFails, CannotPut, DropSubscription, Answered, Return,
                connVars, netVars, Inv, TypeOK
  <2>2. \/ pc[a] = "write" /\ pc'[a] = "forget" /\ req'[a] = req[a]
        \/ pc'[a] \notin {"write", "forget"} /\ ~Contains(pending, a)
    <3>1. CASE WriteFails(a)
      BY <3>1 DEF WriteFails, Inv, TypeOK
    <3>2. CASE DropSubscription(a) \/ Answered(a)
      BY <3>2 DEF DropSubscription, Answered, Return, Inv, TypeOK,
                  WaitersAreKnown
    <3> QED
      BY <1>3, <3>1, <3>2
  <2>3. \A b \in Actors : Unwritten(b)' => Unwritten(b)
    BY <2>1, <2>2 DEF Unwritten
  <2>4. \A b \in Actors : Contains(pending, b) \/ Unwritten(b)'
                            => req'[b].stream = req[b].stream
    BY <2>1, <2>2 DEF Unwritten
  <2> HIDE DEF Ends
  <2> QED
    BY <2>1, <2>3, <2>4, OwedKept
<1>4. ~GiveUp(a)
  BY LiveRequests
<1> QED
  BY <1>1, <1>2, <1>3, <1>4 DEF Request

\* While the link is live never do fewer wait than answers may come.
LEMMA OwedStep ==
    ASSUME Inv, LinkInv, Undisturbed, "refused" \in Verdicts, Live => Owed,
           [Next]_vars, Live'
    PROVE  Owed'
<1> USE DEF Undisturbed, RefusalsHeard
<1>1. CASE Install
  BY <1>1, OwedByInstall
<1>2. CASE ~Install
  <2>1. Live /\ Owed
    BY <1>2, LiveStep
  <2>2. CASE ReadAck
    BY <2>1, <2>2, OwedByAck
  <2>3. ASSUME NEW c \in Callers, NEW s \in Streams, Call(c, "sub", s)
        PROVE  Owed'
    BY <2>1, <2>3, OwedByRegister DEF Call, netVars, Actors
  <2>4. ASSUME NEW a \in Actors, Request(a) PROVE Owed'
    BY <2>1, <2>4, OwedByRequest
  <2>5. ASSUME NEW g \in Gens, Pass(g) PROVE Owed'
    <3>1. CASE PassBegin(g)
      <4>1. pc[g] = "begin" /\ todo[g] \in Seq(Streams) /\ todo[g] # <<>>
        BY <3>1 DEF PassBegin, Inv, TypeOK, RequestInv
      <4>2. Head(todo[g]) \in Streams
        BY <4>1, HeadTailProperties
      <4>3. Register(g, "sub", Head(todo[g])) /\ UNCHANGED wire
        BY <2>1, <3>1 DEF PassBegin, Refused, Live, netVars
      <4> QED
        BY <2>1, <4>1, <4>2, <4>3, OwedByRegister DEF Actors
    <3>2. CASE ~PassBegin(g)
      <4>1. /\ UNCHANGED <<wire, pending, generation, req>>
            /\ pc'[g] \notin {"write", "forget"}
            /\ \A b \in Actors : b # g => pc'[b] = pc[b]
        BY <2>5, <3>2 DEF Pass, PassClone, PassCheck, PassNotify, Goes,
                          connVars, netVars, Inv, TypeOK, Actors
      <4>2. \A b \in Actors : Unwritten(b)' => Unwritten(b)
        BY <4>1 DEF Unwritten
      <4> QED
        BY <2>1, <4>1, <4>2, OwedKept
    <3> QED
      BY <3>1, <3>2
  <2>6. CASE ~Touches
    <3>1. UNCHANGED <<generation, pending, wire, pc, req>>
      BY <2>6, OthersTouchNothing
    <3>2. \A b \in Actors : Unwritten(b)' => Unwritten(b)
      BY <3>1 DEF Unwritten
    <3> QED
      BY <2>1, <3>1, <3>2, OwedKept
  <2> QED
    BY <1>2, <2>2, <2>3, <2>4, <2>5, <2>6 DEF Touches
<1> QED
  BY <1>1, <1>2

-----------------------------------------------------------------------------
(* What is covered.                                                        *)

\* A request writes before it waits, and drops its stream when it fails.
LEMMA CoveredByRequest ==
    ASSUME Inv, Live, OnlySubs, RefusalsHeard, Covered,
           NEW a \in Actors, Request(a), NEW s \in Streams, Contains(subs', s)
    PROVE  Attended(s)'
<1>1. /\ pc[a] \in Busy
      /\ pc'[a] \in Busy \cup {"idle", "check"}
      /\ pc'[a] = "idle" => a \in Callers
      /\ \A b \in Actors : b # a =>
            pc'[b] = pc[b] /\ req'[b] = req[b] /\ res'[b] = res[b]
      /\ UNCHANGED <<generation, todo>>
  BY DEF Request, WriteOk, WriteFails, Forget, DropSubscription, Answered,
         GiveUp, Return, Busy, connVars, Inv, TypeOK
<1>2. ASSUME ToRestore(s) PROVE Attended(s)'
  <2>1. generation \notin Callers
    BY <1>2, ConnAssumption DEF ToRestore, Gens
  <2>2. CASE generation = a
    <3>1. pc'[a] \in Busy \cup {"check"} /\ pc[a] # "start"
      BY <1>1, <2>1, <2>2 DEF Busy
    <3>2. ToRestore(s)'
      BY <1>1, <1>2, <2>2, <3>1 DEF ToRestore
    <3> QED
      BY <3>2 DEF Attended
  <2>3. CASE generation # a
    <3>1. pc'[generation] = pc[generation]
      BY <1>1, <1>2, <2>3 DEF ToRestore, Actors
    <3>2. ToRestore(s)'
      BY <1>1, <1>2, <3>1 DEF ToRestore
    <3> QED
      BY <3>2 DEF Attended
  <2> QED
    BY <2>2, <2>3
<1>3. ASSUME NEW b \in Actors, b # a, Settles(b, s) PROVE Attended(s)'
  BY <1>1, <1>3 DEF Settles, Attended
<1>4. Contains(subs, s) /\ (s \in served => s \in served')
      /\ (Settles(a, s) => Attended(s)')
  <2>1. CASE WriteOk(a)
    <3>1. /\ served' = served \cup {req[a].stream}
          /\ subs' = subs
      BY <2>1, LiveRequests
         DEF WriteOk, Puts, Frame, Live, OnlySubs, connVars
    <3> QED
      BY <3>1 DEF Settles, Attended
  <2>2. CASE WriteFails(a)
    BY <2>2 DEF WriteFails, CannotPut, Settles, Attended, connVars, netVars,
                Inv, TypeOK
  <2>3. CASE Forget(a)
    BY <2>3 DEF Forget, Settles, Attended, netVars, Inv, TypeOK
  <2>4. CASE DropSubscription(a)
    <3>1. subs' = RemoveFirst(subs, req[a].stream) /\ served' = served
      BY <2>4 DEF DropSubscription, RemoveSubscription, OnlySubs, netVars
    <3>2. Contains(subs, s) /\ s # req[a].stream
      BY <3>1, RemoveFirstOnce DEF Inv, TypeOK, SubsOnce
    <3> QED
      BY <3>1, <3>2 DEF Settles
  <2>5. CASE Answered(a)
    <3>1. subs' = subs /\ served' = served /\ pc[a] = "wait"
      BY <2>5 DEF Answered, connVars, netVars
    <3>2. CASE res[a] = "refused"
      BY <2>5, <3>1, <3>2 DEF Answered, Settles, Attended, Inv, TypeOK
    <3>3. CASE res[a] # "refused"
      BY <3>1, <3>3 DEF Settles
    <3> QED
      BY <3>1, <3>2, <3>3
  <2>6. CASE GiveUp(a)
    <3>1. subs' = subs /\ served' = served /\ pc[a] = "wait"
      BY <2>6 DEF GiveUp, netVars
    <3>2. "refused" \notin Verdicts
      BY <2>6, LiveRequests DEF RefusalsHeard
    <3>3. res[a] # "refused"
      BY <3>2 DEF Inv, TypeOK, Answers
    <3> QED
      BY <3>1, <3>3 DEF Settles
  <2> QED
    BY <2>1, <2>2, <2>3, <2>4, <2>5, <2>6 DEF Request
<1>5. Attended(s)
  BY <1>4 DEF Covered
<1> QED
  BY <1>2, <1>3, <1>4, <1>5 DEF Attended

\* A request that begins is about to write.
LEMMA CoveredByRegister ==
    ASSUME Inv, Covered, NEW a \in Actors, pc[a] \in {"idle", "begin"},
           NEW r \in Streams, Register(a, "sub", r),
           UNCHANGED served,
           NEW s \in Streams, Contains(subs', s),
           ToRestore(s) => s = r \/ ToRestore(s)'
    PROVE  Attended(s)'
<1>1. /\ \A b \in Actors : b # a =>
            pc'[b] = pc[b] /\ req'[b] = req[b] /\ res'[b] = res[b]
      /\ pc'[a] = "write" /\ req'[a].stream = r
  BY DEF Register, Inv, TypeOK
<1>2. CASE s = r
  BY <1>1, <1>2 DEF Settles, Attended
<1>3. CASE s # r
  <2>1. Contains(subs, s)
    BY <1>3, AppendOnce DEF Register, AddSubscription, Inv, TypeOK
  <2>2. Attended(s)
    BY <2>1 DEF Covered
  <2>3. ASSUME NEW b \in Actors, Settles(b, s) PROVE Settles(b, s)'
    BY <1>1, <2>3 DEF Settles
  <2> QED
    BY <1>3, <2>2, <2>3 DEF Attended
<1> QED
  BY <1>2, <1>3

\* The pass of the newest socket restores what was registered before it, and
\* no other touches what it has left.
LEMMA CoveredByPass ==
    ASSUME Inv, Live, Covered, NEW g \in Gens, Pass(g),
           NEW s \in Streams, Contains(subs', s)
    PROVE  Attended(s)'
<1>1. generation' = generation /\ served' = served
  BY DEF Pass, PassClone, PassCheck, PassBegin, PassNotify, Register, Goes,
         connVars, netVars
<1>2. g \in Actors /\ \A h \in Gens : todo[h] \in Seq(Streams)
  BY DEF Actors, Inv, TypeOK
<1>3. CASE PassBegin(g)
  <2>1. /\ pc[g] = "begin" /\ todo[g] # <<>>
        /\ Register(g, "sub", Head(todo[g]))
        /\ todo' = [todo EXCEPT ![g] = Tail(@)]
    BY <1>3 DEF PassBegin, Refused, Live, Inv, RequestInv
  <2>2. Head(todo[g]) \in Streams
    BY <1>2, <2>1, HeadTailProperties
  <2>3. ASSUME ToRestore(s), s # Head(todo[g]) PROVE ToRestore(s)'
    <3>1. CASE generation = g
      <4>1. Contains(Tail(todo[g]), s)
        BY <1>2, <2>1, <2>3, <3>1, HeadOrTail DEF ToRestore
      <4>2. todo'[g] = Tail(todo[g]) /\ pc'[g] = "write"
        BY <1>2, <2>1 DEF Register, Inv, TypeOK
      <4> QED
        BY <1>1, <3>1, <4>1, <4>2 DEF ToRestore, Busy
    <3>2. CASE generation # g
      <4>1. /\ pc'[generation] = pc[generation]
            /\ todo'[generation] = todo[generation]
        BY <2>1, <2>3, <3>2 DEF ToRestore, Register, Actors, Inv, TypeOK
      <4> QED
        BY <1>1, <2>3, <4>1 DEF ToRestore
    <3> QED
      BY <3>1, <3>2
  <2> QED
    BY <1>1, <1>2, <2>1, <2>2, <2>3, CoveredByRegister
<1>4. CASE ~PassBegin(g)
  <2>1. /\ UNCHANGED <<subs, req, res>>
        /\ pc[g] \in {"start", "check", "notify"}
        /\ pc'[g] \in {"check", "end", "notify", "begin"}
        /\ \A b \in Actors : b # g => pc'[b] = pc[b] 
        /\ \A h \in Gens : h # g => todo'[h] = todo[h]
    BY <1>2, <1>4 DEF Pass, PassClone, PassCheck, PassNotify, Goes,
                      connVars, reqVars, Inv, TypeOK
  <2>2. Contains(subs, s) /\ Attended(s)
    BY <2>1 DEF Covered
  <2>3. ASSUME NEW b \in Actors, Settles(b, s) PROVE Settles(b, s)'
    BY <2>1, <2>3 DEF Settles
  <2>4. ASSUME ToRestore(s) PROVE ToRestore(s)'
    <3>1. CASE generation # g
      BY <1>1, <2>1, <2>4, <3>1 DEF ToRestore, Actors
    <3>2. CASE generation = g /\ PassClone(g)
      <4>1. pc'[g] = "check" /\ todo'[g] = subs
        BY <1>2, <3>2 DEF PassClone, Inv, TypeOK
      <4> QED
        BY <1>1, <2>2, <3>2, <4>1 DEF ToRestore
    <3>3. CASE generation = g /\ ~PassClone(g)
      <4>1. pc[g] = "check" /\ Contains(todo[g], s)
        BY <2>1, <2>4, <3>3, <1>4 DEF ToRestore, Pass, PassCheck, PassNotify,
                                      Busy, PassClone
      <4>2. todo[g] # <<>>
        BY <1>2, <4>1, HeadOrTail
      <4>3. pc'[g] = "begin" /\ todo' = todo
        BY <1>2, <1>4, <3>3, <4>1, <4>2
           DEF Pass, PassCheck, PassNotify, Goes, GenerationChanged, Live,
               Inv, TypeOK
      <4> QED
        BY <1>1, <3>3, <4>1, <4>3 DEF ToRestore
    <3> QED
      BY <3>1, <3>2, <3>3
  <2> QED
    BY <1>1, <2>2, <2>3, <2>4 DEF Attended
<1> QED
  BY <1>3, <1>4

\* An ACK that refuses a stream is heard by a waiter of that stream, which
\* then drops it.
LEMMA CoveredByAck ==
    ASSUME Inv, RefusalsHeard, "refused" \in Verdicts => Owed, Covered,
           ReadAck,
           NEW s \in Streams, Contains(subs', s)
    PROVE  Attended(s)'
<1> DEFINE F == [by : Actors \cup {Closer}, op : Ops, stream : Streams]
<1>1. /\ UNCHANGED <<generation, subs, pc, req, todo>>
      /\ wire \in Seq(F) /\ wire # <<>>
      /\ pending \in Seq(Actors) /\ res \in [Actors -> Answers]
  BY DEF ReadAck, Inv, TypeOK
<1> HIDE DEF F
<1>2. PICK v \in Verdicts, tr \in AckTrs(Head(wire)) :
         /\ Resolve(tr, v)
         /\ served' = IF v = "refused" /\ Head(wire).op = "sub"
                      THEN served \ {Head(wire).stream} ELSE served
  BY DEF ReadAck
<1>3. Attended(s)
  BY <1>1 DEF Covered
<1>4. ASSUME ToRestore(s) PROVE ToRestore(s)'
  BY <1>1, <1>4 DEF ToRestore
<1>5. ASSUME NEW c \in Actors, Settles(c, s) PROVE Settles(c, s)'
  <2>1. pc[c] = "wait" /\ res[c] = "refused" => ~Contains(pending, c)
    BY DEF Inv, WaitersAreKnown
  <2>2. res[c] = "refused" /\ ~Contains(pending, c) => res'[c] = "refused"
    <3>1. \A n \in Oldest(tr) : Contains(pending, pending[n])
      BY <1>1, LenProperties DEF Oldest, Contains
    <3> QED
      BY <1>1, <1>2, <3>1 DEF Resolve
  <2> QED
    BY <1>1, <1>5, <2>1, <2>2 DEF Settles
<1>6. ASSUME s \in served, s \notin served'
      PROVE  \E w \in Actors : Settles(w, s)'
  <2>1. v = "refused" /\ s = Head(wire).stream
    BY <1>2, <1>6
  <2>2. AcksNameStreams /\ Owed
    BY <2>1 DEF RefusalsHeard
  <2>3. 1 \in DOMAIN wire /\ wire[1] = Head(wire)
    BY <1>1, LenProperties, HeadTailProperties
  <2>4. PICK b \in Actors : /\ Contains(pending, b)
                            /\ req[b].stream = Head(wire).stream
    BY <2>2, <2>3 DEF Owed, Fits, Waits
  <2>5. Oldest(tr) # {}
    BY <1>2, <2>2, <2>4, OldestExists DEF AckTrs, AcksNameStreams
  <2>6. PICK n \in Oldest(tr) : res' = [res EXCEPT ![pending[n]] = v]
    BY <1>2, <2>5 DEF Resolve
  <2>7. PICK w \in Actors : /\ w = pending[n] /\ Contains(pending, w)
                            /\ req[w].stream = Head(wire).stream
    BY <1>1, <1>2, <2>2, <2>6, AckFits
  <2>8. pc[w] \in {"write", "wait", "forget"}
    BY <2>7 DEF Inv, WaitersAreKnown
  <2>9. res'[w] = "refused"
    BY <1>1, <2>1, <2>6, <2>7
  <2> QED
    BY <1>1, <2>1, <2>7, <2>8, <2>9 DEF Settles
<1> QED
  BY <1>3, <1>4, <1>5, <1>6 DEF Attended

\* While the link is live every registered stream is attended.
LEMMA CoveredStep ==
    ASSUME Inv, LinkInv, OnlySubs, Undisturbed,
           Live => ("refused" \in Verdicts => Owed) /\ Covered,
           [Next]_vars, Live'
    PROVE  Covered'
<1> SUFFICES ASSUME NEW s \in Streams, Contains(subs', s)
             PROVE  Attended(s)'
  BY DEF Covered
<1> USE DEF Undisturbed
<1>1. CASE Install
  <2>1. generation + 1 \in Gens
    BY <1>1, ConnAssumption DEF Install, Inv, TypeOK, FaultInv, Sockets, Gens
  <2>2. /\ generation' = generation + 1
        /\ pc' = [pc EXCEPT ![generation'] = "start"]
    BY <1>1 DEF Install, NextGeneration
  <2>3. pc'[generation'] = "start"
    BY <2>1, <2>2 DEF Inv, TypeOK, Actors
  <2> QED
    BY <2>1, <2>2, <2>3 DEF Attended, ToRestore
<1>2. CASE ~Install
  <2>1. Live /\ ("refused" \in Verdicts => Owed) /\ Covered
    BY <1>2, LiveStep
  <2>2. CASE ReadAck
    BY <2>1, <2>2, CoveredByAck
  <2>3. ASSUME NEW c \in Callers, NEW r \in Streams, Call(c, "sub", r)
        PROVE  Attended(s)'
    <3>1. /\ Register(c, "sub", r) /\ pc[c] = "idle"
          /\ UNCHANGED <<served, todo>>
      BY <2>3 DEF Call, netVars
    <3>2. ASSUME ToRestore(s) PROVE ToRestore(s)'
      <4>1. generation \in Gens /\ generation # c
        BY <3>2, ConnAssumption DEF ToRestore, Gens
      <4>2. generation' = generation /\ pc'[generation] = pc[generation]
        BY <3>1, <4>1 DEF Register, Inv, TypeOK, Actors
      <4> QED
        BY <3>1, <3>2, <4>2 DEF ToRestore
    <3> QED
      BY <2>1, <3>1, <3>2, CoveredByRegister DEF Actors
  <2>4. ASSUME NEW a \in Actors, Request(a) PROVE Attended(s)'
    BY <2>1, <2>4, CoveredByRequest
  <2>5. ASSUME NEW g \in Gens, Pass(g) PROVE Attended(s)'
    BY <2>1, <2>5, CoveredByPass
  <2>6. CASE ~Touches
    <3>1. UNCHANGED <<generation, subs, served, pc, req, res, todo>>
      BY <2>6, OthersTouchNothing
    <3>2. Attended(s)
      BY <2>1, <3>1 DEF Covered
    <3> QED
      BY <3>1, <3>2 DEF Attended, Settles, ToRestore
  <2> QED
    BY <1>2, <2>2, <2>3, <2>4, <2>5, <2>6 DEF Touches
<1> QED
  BY <1>1, <1>2

\* When no stream is taken back and every refusal is heard, no step of
\* callers, passes, server or network leaves a registered stream unattended on
\* a live link.
LEMMA ServedStep ==
    ASSUME Undisturbed PROVE Inv /\ ServedInv /\ [Next]_vars => ServedInv'
BY LinkStep, OnlySubsStep, OwedStep, CoveredStep DEF ServedInv, Undisturbed

\* With nothing under way, attended is served.
LEMMA QuietServed ==
    ASSUME Inv, ServedInv PROVE Quiet => ToSet(subs) \subseteq served
<1> SUFFICES ASSUME Quiet, NEW s \in ToSet(subs) PROVE s \in served
  OBVIOUS
<1>1. Live
  BY DEF Quiet, Live, Inv, CloseInv
<1>2. s \in Streams /\ Contains(subs, s)
  <2>1. subs \in Seq(Streams) /\ DOMAIN subs = 1 .. Len(subs)
    BY LenProperties DEF Inv, TypeOK
  <2>2. PICK i \in 1 .. Len(subs) : subs[i] = s
    BY <2>1 DEF ToSet
  <2> QED
    BY <2>1, <2>2, ElementOfSeq DEF Contains
<1>3. ~ToRestore(s) /\ \A a \in Actors : ~Settles(a, s)
  BY DEF Quiet, ToRestore, Settles, Busy, Actors
<1> QED
  BY <1>1, <1>2, <1>3 DEF ServedInv, Covered, Attended

\* When all is quiet the server streams every registered subscription, for
\* any number of callers, streams, calls, refusals and reconnects, however
\* they overlap: neither a frame that died with its socket nor a refusal is
\* lost (conn.go:253-305, reader.go:80-83, reconnect.go:129-187).
THEOREM RegisteredStaysServed == Spec => []RegisteredIsServed
<1>1. CASE Undisturbed
  <2>1. Init => ServedInv
    BY InitServed
  <2>2. Inv /\ ServedInv /\ [Next]_vars => ServedInv'
    BY <1>1, ServedStep
  <2>3. Inv /\ ServedInv => RegisteredIsServed
    BY QuietServed DEF RegisteredIsServed
  <2> QED
    BY <2>1, <2>2, <2>3, Invariance, PTL DEF Spec
<1>2. CASE ~Undisturbed
  <2>1. RegisteredIsServed
    BY <1>2 DEF RegisteredIsServed, Undisturbed
  <2> QED
    BY <2>1, PTL
<1> QED
  BY <1>1, <1>2

=============================================================================
