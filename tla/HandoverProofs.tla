--------------------------- MODULE HandoverProofs ---------------------------
(***************************************************************************)
(* Handover for every set of processes and any number of lost links.       *)
(***************************************************************************)
EXTENDS Handover, TLAPS

\* Processes that wait for one another are not open two at a time.
OneAtATime == ordered => \A p, q \in begun \ over : p = q

\* KIS serves no connection that it has refused, but for late requests.
ServedNotRefused ==
    ~lingers /\ ~late => \A p \in refused : holder # Mine(p)

Inv ==
    TypeOK /\ OneAtATime /\ NobodyRefused /\ ServedNotRefused /\ SomebodyGoesOn

\* Distinct processes have distinct sockets, and none is Nobody.
LEMMA MineIsOwn ==
    ASSUME NEW p \in Processes, NEW q \in Processes,
           socket \in [Processes -> Nat]
    PROVE  /\ Mine(p) = Mine(q) => p = q
           /\ Mine(p) # Nobody
           /\ Mine(p) \in Processes \X Nat
<1>1. Mine(p) \in Processes \X Nat
  BY DEF Mine
<1>2. Mine(p) = Mine(q) => p = q
  BY DEF Mine
<1> QED
  BY <1>1, <1>2, HandoverAssumption

\* Every process starts outside, with nothing dialled.
LEMMA InitInv == Init => Inv
<1> SUFFICES ASSUME Init PROVE Inv
  OBVIOUS
<1>1. TypeOK
  <2>1. socket \in [Processes -> Nat] /\ losses \in 0 .. MaxLosses
    BY HandoverAssumption DEF Init
  <2> QED
    BY <2>1 DEF Init, TypeOK
<1>2. OneAtATime /\ NobodyRefused /\ ServedNotRefused /\ SomebodyGoesOn
  BY DEF Init, OneAtATime, NobodyRefused, ServedNotRefused, SomebodyGoesOn
<1> QED
  BY <1>1, <1>2 DEF Inv

\* No step takes a variable out of its type.
LEMMA TypeStep ==
    ASSUME TypeOK, NEW p \in Processes, Connection(p) \/ Server(p)
    PROVE  TypeOK'
<1> USE HandoverAssumption DEF TypeOK, choice
<1>0. \A q \in Processes : Mine(q) \in Processes \X Nat
  BY MineIsOwn
<1>1. CASE Begin(p)
  BY <1>1 DEF Begin, Mine
<1>2. CASE Serve(p)
  BY <1>2, <1>0 DEF Serve, Mine
<1>3. CASE Refuse(p)
  BY <1>3 DEF Refuse, Mine
<1>4. CASE Lose(p)
  BY <1>4 DEF Lose, Freed, Mine
<1>5. CASE Notice(p)
  BY <1>5 DEF Notice
<1>6. CASE Renew(p)
  BY <1>6 DEF Renew, MayRenew, Mine
<1>7. CASE CloseBegins(p)
  BY <1>7 DEF CloseBegins, Mine
<1>8. CASE Finish(p)
  BY <1>8 DEF Finish, Freed, Mine
<1> QED
  BY <1>1, <1>2, <1>3, <1>4, <1>5, <1>6, <1>7, <1>8 DEF Connection, Server

\* A process that is refused meets another that is open: none does while
\* they keep their order, and the other is not refused.
LEMMA RefuseStep ==
    ASSUME Inv, NEW p \in Processes, Refuse(p)
    PROVE  (OneAtATime /\ NobodyRefused /\ ServedNotRefused
            /\ SomebodyGoesOn)'
<1>0. TypeOK
  BY DEF Inv
<1> USE DEF choice
<1>1. UNCHANGED <<ordered, lingers, begun, held, over, socket, holder, late>>
  BY DEF Refuse
<1>2. CASE lingers
  BY <1>1, <1>2 DEF Inv, OneAtATime, NobodyRefused, ServedNotRefused,
                    SomebodyGoesOn
<1>3. CASE ~lingers
  <2>1. PICK q \in held : holder = Mine(q)
    BY <1>0, <1>3 DEF TypeOK, Refuse
  <2>2. q # p /\ q \in begun \ over /\ p \in begun \ over
    BY <1>0, <2>1 DEF TypeOK, Refuse
  <2>3. ~ordered
    BY <2>2 DEF Inv, OneAtATime
  <2>4. ~late => q \notin refused'
    BY <1>3, <2>1, <2>2 DEF Inv, ServedNotRefused, Refuse
  <2>5. \A r \in Processes : Mine(r)' = Mine(r)
    BY <1>1 DEF Mine
  <2>6. ServedNotRefused'
    <3>1. holder # Mine(p)
      BY DEF Refuse
    <3>2. refused' = refused \cup {p} /\ refused \subseteq Processes
      BY <1>0 DEF Refuse, TypeOK
    <3> QED
      BY <1>1, <2>5, <3>1, <3>2 DEF Inv, ServedNotRefused
  <2> QED
    BY <1>1, <2>2, <2>3, <2>4, <2>6
       DEF Inv, OneAtATime, NobodyRefused, SomebodyGoesOn
<1> QED
  BY <1>2, <1>3

\* The other steps refuse nobody; what begins waits for those open, and what
\* is served or renewed is not refused.
LEMMA OtherSteps ==
    ASSUME Inv, NEW p \in Processes, Connection(p) \/ Server(p), ~Refuse(p)
    PROVE  (OneAtATime /\ NobodyRefused /\ ServedNotRefused
            /\ SomebodyGoesOn)'
<1>0. TypeOK /\ UNCHANGED <<ordered, lingers, refused>>
  BY DEF Inv, Connection, Server, choice, Begin, Lose, Renew, CloseBegins,
         Finish, Serve, Notice
<1>1. OneAtATime'
  BY <1>0 DEF Inv, OneAtATime, Connection, Server, Begin, Lose, Renew,
              CloseBegins, Finish, Serve, Notice, TypeOK
<1>2. NobodyRefused'
  BY <1>0 DEF Inv, NobodyRefused
<1>3. ServedNotRefused'
  <2> SUFFICES ASSUME ~lingers, ~late', NEW r \in refused
               PROVE  holder' # Mine(r)'
    BY <1>0 DEF ServedNotRefused
  <2>0. r \in Processes /\ r \in ending /\ Mine(r) # Nobody /\ ~late
    BY <1>0, MineIsOwn
       DEF TypeOK, Connection, Server, Begin, Lose, Renew, CloseBegins,
           Finish, Serve, Notice
  <2>1. holder # Mine(r)
    BY <2>0 DEF Inv, ServedNotRefused
  <2>2. Mine(r)' = Mine(r)
    BY <1>0, <2>0 DEF Mine, TypeOK, Connection, Server, Begin, Lose, Renew,
                      MayRenew, CloseBegins, Finish, Serve, Notice
  <2>3. CASE Serve(p)
    <3>1. holder' = Mine(p) /\ p \notin refused
      BY <2>3 DEF Serve
    <3> QED
      BY <1>0, <2>0, <2>2, <3>1, MineIsOwn DEF TypeOK
  <2>4. CASE ~Serve(p)
    <3>1. holder' \in {holder, Nobody}
      BY <1>0, <2>4 DEF Connection, Server, Begin, Lose, Renew, CloseBegins,
                        Finish, Notice, Freed
    <3>2. Mine(r) # Nobody
      BY <2>0
    <3> QED
      BY <2>1, <2>2, <3>1, <3>2
  <2> QED
    BY <2>3, <2>4
<1>4. SomebodyGoesOn'
  <2>1. begun' # begun => \E q \in begun' : q \notin refused
    BY <1>0 DEF TypeOK, Connection, Server, Begin, Lose, Renew, CloseBegins,
                Finish, Serve, Notice
  <2>2. ~late' => ~late
    BY <1>0 DEF TypeOK, Connection, Server, Begin, Lose, Renew, CloseBegins,
                Finish, Serve, Notice
  <2> QED
    BY <1>0, <2>1, <2>2 DEF Inv, SomebodyGoesOn
<1> QED
  BY <1>1, <1>2, <1>3, <1>4

\* The strengthened invariant holds in every reachable state.
LEMMA Invariance == Spec => []Inv
<1>1. Inv /\ [Next]_vars => Inv'
  <2> SUFFICES ASSUME Inv, [Next]_vars PROVE Inv'
    OBVIOUS
  <2>1. CASE UNCHANGED vars
    BY <2>1 DEF vars, choice, Inv, TypeOK, OneAtATime, NobodyRefused,
                ServedNotRefused, SomebodyGoesOn, Mine
  <2>2. ASSUME NEW p \in Processes, Connection(p) \/ Server(p) PROVE Inv'
    BY <2>2, TypeStep, RefuseStep, OtherSteps DEF Inv
  <2> QED
    BY <2>1, <2>2 DEF Next
<1> QED
  BY <1>1, InitInv, PTL DEF Spec

-----------------------------------------------------------------------------
\* Every variable of Handover keeps its type; unless dead links linger KIS
\* serves only sockets that are open (conn.go:364-366).
THEOREM TypeCorrect == Spec => []TypeOK
<1>1. Inv => TypeOK
  BY DEF Inv
<1> QED
  BY <1>1, Invariance, PTL

\* However many processes take turns, and however often their links fail,
\* break before make keeps every one of them from OPSP8996.
THEOREM BreakBeforeMake == Spec => []NobodyRefused
<1>1. Inv => NobodyRefused
  BY DEF Inv
<1> QED
  BY <1>1, Invariance, PTL

\* Processes that keep no order do not all stop one another.
THEOREM OneIsLeft == Spec => []SomebodyGoesOn
<1>1. Inv => SomebodyGoesOn
  BY DEF Inv
<1> QED
  BY <1>1, Invariance, PTL

\* What the others do leaves the session of a process alone.
LEMMA OthersLeaveIt ==
    ASSUME Inv, NEW p \in Processes, NEW q \in Processes,
           Connection(q) \/ Server(q), p # q
    PROVE  UNCHANGED Own(p)!vars
<1>1. /\ p \in held' <=> p \in held
      /\ p \in begun' <=> p \in begun
      /\ p \in ending' <=> p \in ending
      /\ p \in over' <=> p \in over
  BY DEF Connection, Server, Begin, Lose, Renew, CloseBegins, Finish, Serve,
         Refuse, Notice
<1> QED
  BY <1>1 DEF Own!vars

\* What it does, and what KIS does to it, is a step of Session or a stutter.
LEMMA OwnStep ==
    ASSUME Inv, NEW p \in Processes, Connection(p) \/ Server(p)
    PROVE  Own(p)!Next \/ UNCHANGED Own(p)!vars
<1> USE DEF Own!vars, Own!Next
<1>0. TypeOK
  BY DEF Inv
<1>1. CASE Begin(p)
  BY <1>1 DEF Begin
<1>2. CASE Lose(p)
  BY <1>0, <1>2 DEF Lose, Own!Lose, TypeOK
<1>3. CASE Renew(p)
  BY <1>3 DEF Renew, MayRenew, Own!Renew
<1>4. CASE CloseBegins(p)
  BY <1>4 DEF CloseBegins, Own!EndBegins
<1>5. CASE Finish(p)
  BY <1>0, <1>5 DEF Finish, Own!Finish, TypeOK
<1>6. CASE Refuse(p)
  BY <1>6 DEF Refuse, Own!EndBegins
<1>7. CASE Serve(p) \/ Notice(p)
  BY <1>7 DEF Serve, Notice
<1> QED
  BY <1>1, <1>2, <1>3, <1>4, <1>5, <1>6, <1>7 DEF Connection, Server

\* Every process by itself is a Session, whatever KIS and the others do, so
\* that none holds a session beyond its end (reconnect.go:96-101).
THEOREM RefinesSession == Spec => EachIsASession
<1>1. ASSUME Inv, [Next]_vars, NEW p \in Processes
      PROVE  [Own(p)!Next]_(Own(p)!vars)
  <2>1. CASE UNCHANGED vars
    BY <2>1 DEF vars, choice, Own!vars
  <2>2. ASSUME NEW q \in Processes, Connection(q) \/ Server(q)
        PROVE  Own(p)!Next \/ UNCHANGED Own(p)!vars
    BY <1>1, <2>2, OthersLeaveIt, OwnStep
  <2> QED
    BY <1>1, <2>1, <2>2 DEF Next
<1>2. Inv /\ [Next]_vars
      => [\A p \in Processes : [Own(p)!Next]_(Own(p)!vars)]_vars
  BY <1>1
<1> QED
  BY <1>2, Invariance, PTL DEF Spec, EachIsASession

=============================================================================
