--------------------------- MODULE ShutdownProofs ---------------------------
(***************************************************************************)
(* Writes are serialised, for any number of callers, calls and faults.     *)
(***************************************************************************)
EXTENDS Shutdown, TLAPS

Places == {"idle", "lock", "write", "wait", "read", "publish", "failed",
           "sleep", "stopped", "unsub", "shut", "await", "returned"}

\* Where a caller, the reader and Close can be, and that only the owner of
\* writeMu is writing.
Serial == \A a \in Writers : writeMu = a <=> pc[a] = "write"

\* A caller whose frame the server has is waiting for its ACK.
AskedWait == \A c \in asked : pc[c] = "wait"

Inv == TypeOK /\ AskedWait

\* A step of a that takes nobody to or from "write" keeps the owner.
LEMMA GoesOn ==
    ASSUME TypeOK, NEW a \in Writers, NEW to \in Places \ {"write"},
           pc[a] # "write", Goes(a, to), UNCHANGED writeMu
    PROVE  Serial' /\ pc' \in [Writers -> Places]
BY DEF TypeOK, Goes, Serial, Places

\* The roles are distinct, and nobody is Nobody.
LEMMA Roles ==
    /\ Reader \in Writers /\ Closer \in Writers /\ Nobody \notin Writers
    /\ Callers \subseteq Writers /\ Consumer \in Writers
BY ShutdownAssumption DEF Writers

\* It holds before anybody writes.
LEMMA InitInv == Init => Inv
<1> SUFFICES ASSUME Init PROVE Inv
  OBVIOUS
<1>1. \A a \in Writers : pc[a] # "write" /\ writeMu # a
  BY Roles DEF Init
<1>2. pc \in [Writers -> Places] /\ using \in [Writers -> Nat]
  BY DEF Init, Places
<1>3. queue \in 0 .. Capacity /\ farewells \in 0 .. Active /\ sock \in Nat
  BY ShutdownAssumption DEF Init
<1> QED
  BY <1>1, <1>2, <1>3 DEF Init, Inv, TypeOK, AskedWait, Places

\* No step of a writer, of the outside or of Close breaks it.
LEMMA TypeStep == ASSUME Inv, [Next]_vars PROVE TypeOK'
<1> USE ShutdownAssumption, Roles
<1>0. pc \in [Writers -> Places] /\ Serial /\ writeMu \in Writers \cup {Nobody}
  BY DEF Inv, TypeOK, Places, Serial
<1>typed. TypeOK
  BY DEF Inv
<1>1. ASSUME NEW a \in Writers, Lock(a) PROVE TypeOK'
  <2>1. Serial' /\ pc' \in [Writers -> Places]
    BY <1>0, <1>typed, <1>1 DEF Lock, Goes, Serial, Places
  <2> QED
    BY <1>typed, <1>1, <2>1 DEF Lock, TypeOK, Serial, Places
<1>2. ASSUME NEW a \in Writers, Write(a) PROVE TypeOK'
  <2>1. PICK ok \in BOOLEAN : Goes(a, After(a, ok)) /\ writeMu' = Nobody
    BY <1>2 DEF Write, Released
  <2>2. After(a, ok) \in Places \ {"write"}
    BY DEF After, Places, Writers
  <2>3. Serial' /\ pc' \in [Writers -> Places]
    <3>1. writeMu = a
      BY <1>0, <1>typed, <1>2 DEF Write, Serial
    <3> HIDE DEF After
    <3> QED
      BY <1>typed, <1>0, <2>1, <2>2, <3>1 DEF Goes, Serial
  <2>4. asked' \in SUBSET Callers
    BY <1>typed, <1>2 DEF Write, TypeOK
  <2> QED
    BY <1>typed, <1>2, <2>1, <2>3, <2>4 DEF Write, TypeOK, Serial, Places
<1>3. ASSUME NEW c \in Callers, Call(c) PROVE TypeOK'
  <2>1. Serial' /\ pc' \in [Writers -> Places]
    BY <1>0, <1>typed, <1>3, GoesOn DEF Call, Places
  <2> QED
    BY <1>typed, <1>3, <2>1 DEF Call, TypeOK, Serial, Places
<1>4. ASSUME NEW c \in Callers, GiveUp(c) PROVE TypeOK'
  <2>1. Serial' /\ pc' \in [Writers -> Places]
    BY <1>0, <1>typed, <1>4, GoesOn DEF GiveUp, Places
  <2> QED
    BY <1>typed, <1>4, <2>1 DEF GiveUp, TypeOK, Serial, Places
<1>5. CASE Receive
  BY <1>typed, <1>5 DEF Receive, TypeOK
<1>6. CASE ReadAck
  <2>1. PICK c \in asked : asked' = asked \ {c} /\ Goes(c, "idle")
    BY <1>6 DEF ReadAck
  <2>2. c \in Writers /\ pc[c] = "wait" /\ asked' \in SUBSET Callers
    BY <2>1 DEF Inv, AskedWait, TypeOK, Writers
  <2>3. Serial' /\ pc' \in [Writers -> Places]
    BY <1>0, <1>typed, <1>6, <2>1, <2>2, GoesOn DEF ReadAck, Places
  <2> QED
    BY <1>typed, <1>6, <2>2, <2>3 DEF ReadAck, TypeOK, Serial, Places
<1>7. CASE ReadMessage
  <2>1. PICK to \in {"publish", "lock"} : Goes(Reader, to)
    BY <1>7 DEF ReadMessage
  <2>2. Serial' /\ pc' \in [Writers -> Places]
    BY <1>0, <1>typed, <1>7, <2>1, GoesOn DEF ReadMessage, Places
  <2> QED
    BY <1>typed, <1>7, <2>2 DEF ReadMessage, TypeOK, Serial, Places
<1>8. CASE Publish
  <2>1. Serial' /\ pc' \in [Writers -> Places]
    BY <1>0, <1>typed, <1>8, GoesOn DEF Publish, Places
  <2> QED
    BY <1>typed, <1>8, <2>1 DEF Publish, TypeOK, Serial, Places
<1>9. CASE ReadFails
  <2>1. Serial' /\ pc' \in [Writers -> Places]
    BY <1>0, <1>typed, <1>9, GoesOn DEF ReadFails, Places
  <2> QED
    BY <1>typed, <1>9, <2>1 DEF ReadFails, TypeOK, Serial, Places
<1>10. CASE Drop
  <2>1. PICK to \in {"sleep", "stopped"} : pc' = Resolved(to)
    BY <1>10 DEF Drop
  <2>2. Serial' /\ pc' \in [Writers -> Places]
    BY <1>0, <1>typed, <1>10, <2>1 DEF Drop, Resolved, Serial, Places
  <2> QED
    BY <1>typed, <1>10, <2>2 DEF Drop, TypeOK, Serial, Places
<1>11. CASE Redial
  <2>1. Serial' /\ pc' \in [Writers -> Places]
    BY <1>0, <1>typed, <1>11, GoesOn DEF Redial, Places
  <2> QED
    BY <1>typed, <1>11, <2>1 DEF Redial, TypeOK, Serial, Places
<1>12. CASE CloseBegin
  <2>1. Serial' /\ pc' \in [Writers -> Places]
    BY <1>0, <1>typed, <1>12, GoesOn DEF CloseBegin, Places
  <2> QED
    BY <1>typed, <1>12, <2>1 DEF CloseBegin, TypeOK, Serial, Places
<1>13. CASE CloseUnsubscribe
  <2>1. Serial' /\ pc' \in [Writers -> Places]
    BY <1>0, <1>typed, <1>13, GoesOn DEF CloseUnsubscribe, Places
  <2> QED
    BY <1>typed, <1>13, <2>1 DEF CloseUnsubscribe, TypeOK, Serial, Places
<1>14. CASE CloseShut \/ CloseReturn
  <2>1. Serial' /\ pc' \in [Writers -> Places]
    BY <1>0, <1>typed, <1>14, GoesOn DEF CloseShut, CloseReturn, Places
  <2> QED
    BY <1>typed, <1>14, <2>1 DEF CloseShut, CloseReturn, TypeOK, Serial, Places
<1>15. CASE LinkStalls \/ LinkFails \/ StallEnds
  BY <1>typed, <1>15 DEF LinkStalls, LinkFails, StallEnds, Fault, TypeOK
<1>16. CASE UNCHANGED vars
  BY <1>typed, <1>16 DEF vars, TypeOK
<1> QED
  BY <1>1, <1>2, <1>3, <1>4, <1>5, <1>6, <1>7, <1>8, <1>9, <1>10, <1>11,
     <1>12, <1>13, <1>14, <1>15, <1>16 DEF Next, ReaderStep, CloseStep

\* Whoever stops waiting leaves no frame behind that is still to be answered.
LEMMA AskedStep == ASSUME Inv, [Next]_vars PROVE AskedWait'
<1> USE ShutdownAssumption, Roles DEF AskedWait, Goes
<1>0. /\ pc \in [Writers -> Places] /\ asked \in SUBSET Callers
      /\ \A c \in asked : c \in Writers /\ pc[c] = "wait"
  BY DEF Inv, TypeOK, Places, Writers
<1>1. ASSUME NEW a \in Writers, Lock(a) PROVE AskedWait'
  BY <1>0, <1>1 DEF Lock
<1>2. ASSUME NEW a \in Writers, Write(a) PROVE AskedWait'
  BY <1>0, <1>2 DEF Write, After
<1>3. ASSUME NEW c \in Callers, Call(c) \/ GiveUp(c) PROVE AskedWait'
  BY <1>0, <1>3 DEF Call, GiveUp
<1>4. CASE Receive
  BY <1>0, <1>4 DEF Receive
<1>5. CASE ReadAck
  BY <1>0, <1>5 DEF ReadAck
<1>6. CASE ReadMessage \/ Publish \/ ReadFails \/ Redial
  BY <1>0, <1>6 DEF ReadMessage, Publish, ReadFails, Redial
<1>7. CASE Drop
  BY <1>7 DEF Drop
<1>8. CASE CloseBegin \/ CloseStep
  BY <1>0, <1>8 DEF CloseBegin, CloseStep, CloseUnsubscribe, CloseShut,
                    CloseReturn
<1>9. CASE LinkStalls \/ LinkFails \/ StallEnds
  BY <1>0, <1>9 DEF LinkStalls, LinkFails, StallEnds, Fault
<1>10. CASE UNCHANGED vars
  BY <1>0, <1>10 DEF vars
<1> QED
  BY <1>1, <1>2, <1>3, <1>4, <1>5, <1>6, <1>7, <1>8, <1>9, <1>10
     DEF Next, ReaderStep

\* One writer at a time uses a socket, however writes last and fail.
THEOREM WritesAreSerial == Spec => []TypeOK
<1>1. Inv /\ [Next]_vars => Inv'
  BY TypeStep, AskedStep DEF Inv
<1>2. Inv => TypeOK
  BY DEF Inv
<1> QED
  BY InitInv, <1>1, <1>2, PTL DEF Spec
=============================================================================
