---------------------------- MODULE StreamProofs ----------------------------
(***************************************************************************)
(* EventStream for any transactions, any size of the channel and any       *)
(* number of messages, requests and sessions.                              *)
(***************************************************************************)
EXTENDS EventStream, SeqLemmas

\* What the server of the session in use can have sent.
Acks(tr) == {Ack(tr, m) : m \in {<<session, tr>>, None, Unusable}}
Datas(tr) ==
    {Data(tr, n, body) : n \in Numbers, body \in {Plain, Damaged, <<session, tr>>}}
Served ==
    {Junk, Occupied} \cup {Refusal(tr) : tr \in Trs}
    \cup UNION {Acks(tr) \cup Datas(tr) : tr \in Trs}

\* Only messages of the session in use are on the wire.
WireFits == wire \in Seq(Served)

\* Material is that of the session in use, and of its own transaction.
MaterialFits ==
    \A tr \in Trs :
        /\ material[tr] \in {None, <<session, tr>>}
        /\ tr \in delivered => material[tr] = <<session, tr>>

\* The reader holds an event exactly while it publishes.
OneInHand == runPc = "publish" <=> held # <<>>

Inv ==
    /\ TypeOK /\ WireFits /\ MaterialFits /\ OneInHand
    /\ EveryMessageAccounted /\ NoGarbage

\* Before the first message nothing is read, queued or dropped.
LEMMA InitInv == Init => Inv
<1> SUFFICES ASSUME Init PROVE Inv
  OBVIOUS
<1> USE DEF Init
<1>1. TypeOK
  <2>1. /\ 1 \in Sessions /\ 0 \in 0 .. MaxSent /\ 0 \in 0 .. MaxAsks
        /\ Len(<<>>) <= Buffer
    BY EventStreamAssumption DEF Sessions
  <2>2. material \in [Trs -> Materials \cup {None}]
    OBVIOUS
  <2>3. /\ events \in Seq(Numbers) /\ Len(events) <= Buffer
        /\ pending \in Seq(Trs) /\ asked \in Seq(Trs)
    BY <2>1
  <2>4. /\ closed \in BOOLEAN /\ done \in BOOLEAN /\ cancelled \in BOOLEAN
        /\ linkUp \in BOOLEAN /\ garbage \in BOOLEAN
        /\ granted \subseteq Trs /\ delivered \subseteq Trs
        /\ runPc \in {"read", "publish", "failed", "exit"}
        /\ held \in {<<>>} \cup {<<n>> : n \in Numbers}
    OBVIOUS
  <2>5. /\ consumed \in Nat /\ dropped \in Nat /\ dataRead \in Nat
        /\ useless \in Nat /\ givenUp \in Nat
    OBVIOUS
  <2> QED
    BY <2>1, <2>2, <2>3, <2>4, <2>5 DEF TypeOK
<1>2. WireFits /\ MaterialFits /\ OneInHand
  BY DEF WireFits, MaterialFits, OneInHand
<1>3. EveryMessageAccounted /\ NoGarbage
  BY DEF EveryMessageAccounted, NoGarbage
<1> QED
  BY <1>1, <1>2, <1>3 DEF Inv

\* Such a message, by its kind.
LEMMA ServedKinds ==
    ASSUME NEW m \in Served
    PROVE  /\ m.kind \in {"junk", "occupied", "ack", "data"}
           /\ m.kind = "ack" =>
                 /\ m.tr \in Trs /\ m.ok \in BOOLEAN
                 /\ m.material \in {<<session, m.tr>>, None, Unusable}
           /\ m.kind = "data" =>
                 /\ m.tr \in Trs /\ m.n \in Numbers
                 /\ m.body \in {Plain, Damaged, <<session, m.tr>>}
<1>1. CASE m \in {Junk, Occupied}
  BY <1>1 DEF Junk, Occupied
<1>2. ASSUME NEW tr \in Trs, m = Refusal(tr)
      PROVE  m.kind = "ack" /\ m.tr = tr /\ m.ok = FALSE /\ m.material = None
  BY <1>2 DEF Refusal
<1>3. ASSUME NEW tr \in Trs, NEW x, m = Ack(tr, x)
      PROVE  m.kind = "ack" /\ m.tr = tr /\ m.ok = TRUE /\ m.material = x
  BY <1>3 DEF Ack
<1>4. ASSUME NEW tr \in Trs, NEW n, NEW body, m = Data(tr, n, body)
      PROVE  m.kind = "data" /\ m.tr = tr /\ m.n = n /\ m.body = body
  BY <1>4 DEF Data
<1>5. CASE \E tr \in Trs : m = Refusal(tr)
  BY <1>2, <1>5
<1>6. CASE \E tr \in Trs : m \in Acks(tr)
  <2>1. PICK tr \in Trs : m \in Acks(tr)
    BY <1>6
  <2>2. PICK x \in {<<session, tr>>, None, Unusable} : m = Ack(tr, x)
    BY <2>1 DEF Acks
  <2> QED
    BY <1>3, <2>2
<1>7. CASE \E tr \in Trs : m \in Datas(tr)
  <2>1. PICK tr \in Trs : m \in Datas(tr)
    BY <1>7
  <2>2. PICK n \in Numbers, body \in {Plain, Damaged, <<session, tr>>} :
           m = Data(tr, n, body)
    BY <2>1 DEF Datas
  <2> QED
    BY <1>4, <2>2
<1> QED
  BY <1>1, <1>5, <1>6, <1>7 DEF Served

\* The server sends what fits its session.
LEMMA SendsFits ==
    ASSUME Inv, NEW m \in Served, Sends(m)
    PROVE  WireFits'
<1>1. wire' \in Seq(Served)
  BY DEF Sends, Inv, WireFits
<1>2. Served' = Served
  BY DEF Sends, Served, Acks, Datas
<1> QED
  BY <1>1, <1>2 DEF WireFits

\* What disturbs neither material nor messages nor counts keeps Inv.
LEMMA RestKept ==
    ASSUME Inv, TypeOK', WireFits',
           UNCHANGED <<events, material, session, closeVars, dropped, runPc,
                       held, consumed, history>>
    PROVE  Inv'
BY DEF Inv, MaterialFits, OneInHand, EveryMessageAccounted, NoGarbage,
       closeVars, history

\* What callers, server and consumer do preserves the invariant.
LEMMA OutsideStep == ASSUME Inv, Outside PROVE Inv'
<1>0. TypeOK
  BY DEF Inv
<1>a. ASSUME NEW m \in Served, Sends(m),
             asked' \in Seq(Trs), granted' \subseteq Trs, sent' \in 0 .. MaxSent
      PROVE  Inv'
  <2>1. TypeOK'
    BY <1>0, <1>a DEF TypeOK, Sends, closeVars, history
  <2> QED
    BY <1>a, <2>1, SendsFits, RestKept DEF Sends
<1>1. ASSUME NEW tr \in Trs, Ask(tr)
      PROVE  Inv'
  <2>1. /\ pending' \in Seq(Trs) /\ asked' \in Seq(Trs)
        /\ asks' \in 0 .. MaxAsks
    BY <1>0, <1>1, EventStreamAssumption DEF TypeOK, Ask
  <2>2. TypeOK'
    BY <1>0, <1>1, <2>1 DEF TypeOK, Ask, closeVars, history
  <2>3. WireFits'
    BY <1>1 DEF Ask, Inv, WireFits, Served, Acks, Datas
  <2> QED
    BY <1>1, <2>2, <2>3, RestKept DEF Ask
<1>2. ASSUME NEW i \in DOMAIN pending, Expire(i)
      PROVE  Inv'
  <2>1. pending' \in Seq(Trs)
    BY <1>0, <1>2, RemoveAtShape, LenProperties DEF TypeOK, Expire
  <2>2. TypeOK'
    BY <1>0, <1>2, <2>1 DEF TypeOK, Expire, closeVars, history, serverVars
  <2>3. WireFits'
    BY <1>2 DEF Expire, serverVars, Inv, WireFits, Served, Acks, Datas
  <2> QED
    BY <1>2, <2>2, <2>3, RestKept DEF Expire, serverVars
<1>3. CASE Answer
  <2> DEFINE tr == Head(asked)
  <2>1. tr \in Trs /\ Tail(asked) \in Seq(Trs)
    BY <1>0, <1>3 DEF TypeOK, Answer
  <2>2. CASE Sends(Refusal(tr)) /\ UNCHANGED granted
    <3>1. Refusal(tr) \in Served
      BY <2>1 DEF Served
    <3> QED
      BY <1>0, <1>3, <1>a, <2>1, <2>2, <3>1 DEF TypeOK, Answer
  <2>3. ASSUME NEW m \in {<<session, tr>>, None, Unusable},
               Sends(Ack(tr, m)), granted' = granted \cup {tr}
        PROVE  Inv'
    <3>1. Ack(tr, m) \in Served
      BY <2>1 DEF Served, Acks
    <3> QED
      BY <1>0, <1>3, <1>a, <2>1, <2>3, <3>1 DEF TypeOK, Answer
  <2> QED
    BY <1>3, <2>2, <2>3 DEF Answer
<1>4. CASE Emit
  <2>1. PICK tr \in granted : \E body \in {Plain, Damaged, <<session, tr>>} :
           Sends(Data(tr, sent + 1, body))
    BY <1>4 DEF Emit
  <2>2. PICK body \in {Plain, Damaged, <<session, tr>>} :
           Sends(Data(tr, sent + 1, body))
    BY <2>1
  <2>3. tr \in Trs /\ sent + 1 \in Numbers /\ sent + 1 \in 0 .. MaxSent
    BY <1>0, <1>4, EventStreamAssumption DEF TypeOK, Emit, Numbers
  <2>4. Data(tr, sent + 1, body) \in Served
    BY <2>3 DEF Served, Datas
  <2> QED
    BY <1>0, <1>4, <1>a, <2>2, <2>3, <2>4 DEF TypeOK, Emit
<1>5. CASE EmitJunk
  BY <1>0, <1>5, <1>a, EventStreamAssumption DEF TypeOK, EmitJunk, Served
<1>6. CASE Refuse
  BY <1>0, <1>6, <1>a DEF TypeOK, Refuse, Served
<1>7. CASE LinkFails
  <2>1. TypeOK'
    BY <1>0, <1>7 DEF TypeOK, LinkFails, closeVars, history
  <2>2. WireFits'
    BY <1>7 DEF LinkFails, Inv, WireFits, Served, Acks, Datas
  <2> QED
    BY <1>7, <2>1, <2>2, RestKept DEF LinkFails
<1>8. CASE Consume
  <2>1. /\ events' \in Seq(Numbers) /\ Len(events') = Len(events) - 1
        /\ consumed' = consumed + 1 /\ consumed' \in Nat
        /\ Len(events') <= Buffer /\ Len(events') \in Nat
    BY <1>0, <1>8, EventStreamAssumption DEF TypeOK, Consume
  <2>2. TypeOK'
    BY <1>0, <1>8, <2>1 DEF TypeOK, Consume, closeVars, serverVars, history
  <2>3. WireFits' /\ MaterialFits' /\ OneInHand' /\ NoGarbage'
    BY <1>8 DEF Consume, serverVars, history, Inv, WireFits, Served, Acks,
                Datas, MaterialFits, OneInHand, NoGarbage
  <2>4. EveryMessageAccounted'
    BY <1>0, <1>8, <2>1 DEF Consume, history, closeVars, Inv,
                            EveryMessageAccounted, TypeOK
  <2> QED
    BY <2>2, <2>3, <2>4 DEF Inv
<1> QED
  BY <1>1, <1>2, <1>3, <1>4, <1>5, <1>6, <1>7, <1>8 DEF Outside

-----------------------------------------------------------------------------
(* The reader.                                                             *)

\* takePending finds a waiter of the transaction, or none.
LEMMA WaiterShape ==
    ASSUME pending \in Seq(Trs), NEW tr
    PROVE  Waiter(tr) \in 0 .. Len(pending)
<1> DEFINE I == {i \in 1 .. Len(pending) : pending[i] = tr}
<1>1. I \in SUBSET Nat /\ Len(pending) \in Nat
  BY LenProperties
<1>2. I # {} => Min(I) \in I
  BY <1>1, MinIsLeast
<1>3. Waiter(tr) = IF I # {} THEN Min(I) ELSE 0
  BY DEF Waiter, SelectInSeq
<1> QED
  <2>1. I \subseteq 0 .. Len(pending) /\ 0 \in 0 .. Len(pending)
    BY <1>1
  <2> HIDE DEF I
  <2> QED
    BY <1>2, <1>3, <2>1

\* What an ACK does to the waiters and the material.
LEMMA ReadAckStep ==
    ASSUME Inv, NEW m \in Served, ReadAck(m), UNCHANGED session
    PROVE  /\ pending' \in Seq(Trs) /\ MaterialFits'
           /\ material' \in [Trs -> Materials \cup {None}]
           /\ delivered' \subseteq Trs
           /\ \/ dropped' = dropped + 1 /\ useless' = useless + 1
              \/ UNCHANGED <<dropped, useless>>
           /\ UNCHANGED <<runPc, held, dataRead, garbage>>
<1>0. TypeOK /\ MaterialFits
  BY DEF Inv
<1>1. /\ m.tr \in Trs /\ m.ok \in BOOLEAN
      /\ m.material \in {<<session, m.tr>>, None, Unusable}
  BY ServedKinds DEF ReadAck
<1>2. pending' \in Seq(Trs)
  <2>1. Waiter(m.tr) \in 0 .. Len(pending)
    BY <1>0, WaiterShape DEF TypeOK
  <2>2. CASE Waiter(m.tr) = 0
    BY <1>0, <2>2 DEF ReadAck, TypeOK
  <2>3. CASE Waiter(m.tr) # 0
    <3>1. Waiter(m.tr) \in 1 .. Len(pending) /\ Len(pending) \in Nat
      BY <1>0, <2>1, <2>3 DEF TypeOK
    <3> QED
      BY <1>0, <2>3, <3>1, RemoveAtShape DEF ReadAck, TypeOK
  <2> QED
    BY <2>2, <2>3
<1>3. /\ None \notin Materials /\ Unusable \notin Materials
      /\ <<session, m.tr>> \in Materials
  BY <1>0, <1>1, EventStreamAssumption DEF TypeOK, Materials
<1>4. /\ \/ material' = material
         \/ m.ok /\ m.material = <<session, m.tr>>
            /\ material' = [material EXCEPT ![m.tr] = <<session, m.tr>>]
      /\ \/ delivered' = delivered
         \/ /\ delivered' = delivered \cup {m.tr}
            /\ material' = [material EXCEPT ![m.tr] = <<session, m.tr>>]
  BY <1>1, <1>3 DEF ReadAck, Stored
<1>5. material' \in [Trs -> Materials \cup {None}] /\ delivered' \subseteq Trs
  BY <1>0, <1>1, <1>3, <1>4 DEF TypeOK
<1>6. MaterialFits'
  BY <1>0, <1>1, <1>4 DEF MaterialFits, TypeOK
<1>7. \/ dropped' = dropped + 1 /\ useless' = useless + 1
      \/ UNCHANGED <<dropped, useless>>
  BY DEF ReadAck, Drop
<1> QED
  BY <1>2, <1>5, <1>6, <1>7 DEF ReadAck

\* Data is garbage only if it meets other material than its own.
LEMMA PayloadsOfOwn ==
    ASSUME Inv, NEW m \in Served, m.kind = "data", NEW p \in Payloads(m)
    PROVE  p \in {"good", "none"}
<1>1. m.tr \in Trs /\ m.body \in {Plain, Damaged, <<session, m.tr>>}
  BY ServedKinds
<1>2. material[m.tr] \in {None, <<session, m.tr>>}
  BY <1>1 DEF Inv, MaterialFits
<1> QED
  BY <1>1, <1>2 DEF Payloads

\* A message of data is dropped or in the reader's hand.
LEMMA ReadIsCounted ==
    ASSUME TypeOK, EveryMessageAccounted, Len(held) = 0,
           dataRead' = dataRead + 1,
           UNCHANGED <<useless, consumed, events, givenUp, done>>,
           \/ dropped' = dropped + 1 /\ Len(held') = 0
           \/ dropped' = dropped /\ Len(held') = 1
    PROVE  EveryMessageAccounted'
<1>1. /\ dataRead \in Nat /\ useless \in Nat /\ consumed \in Nat
      /\ dropped \in Nat /\ givenUp \in Nat /\ Len(events) \in Nat
  BY DEF TypeOK
<1>2. CASE dropped' = dropped + 1 /\ Len(held') = 0
  BY <1>1, <1>2 DEF EveryMessageAccounted
<1>3. CASE dropped' = dropped /\ Len(held') = 1
  BY <1>1, <1>3 DEF EveryMessageAccounted
<1> QED
  BY <1>2, <1>3

\* Handling one message of any kind preserves it.
LEMMA ReadStep == ASSUME Inv, Read PROVE Inv'
<1> DEFINE m == Head(wire)
<1>0. TypeOK /\ WireFits /\ EveryMessageAccounted /\ OneInHand
  BY DEF Inv
<1>1. /\ m \in Served /\ wire' \in Seq(Served) /\ Served' = Served
      /\ UNCHANGED <<events, closeVars, session, linkUp, asked, granted,
                     sent, asks, consumed, givenUp>>
      /\ runPc = "read" /\ held = <<>>
  BY <1>0 DEF Read, WireFits, OneInHand, Served, Acks, Datas
<1>2. WireFits'
  BY <1>1 DEF WireFits
<1> HIDE DEF m
<1>3. CASE ReadAck(m)
  <2>1. /\ pending' \in Seq(Trs) /\ MaterialFits'
        /\ material' \in [Trs -> Materials \cup {None}]
        /\ delivered' \subseteq Trs
        /\ \/ dropped' = dropped + 1 /\ useless' = useless + 1
           \/ UNCHANGED <<dropped, useless>>
        /\ UNCHANGED <<runPc, held, dataRead, garbage>>
    BY <1>1, <1>3, ReadAckStep
  <2>2. TypeOK'
    BY <1>0, <1>1, <2>1 DEF TypeOK, closeVars
  <2>3. EveryMessageAccounted'
    BY <1>0, <1>1, <2>1 DEF EveryMessageAccounted, TypeOK, closeVars
  <2> QED
    BY <1>1, <1>2, <2>1, <2>2, <2>3 DEF Inv, OneInHand, NoGarbage
<1>4. CASE ReadJunk(m)
  <2>1. TypeOK'
    BY <1>0, <1>1, <1>4 DEF TypeOK, ReadJunk, Drop, closeVars
  <2>2. EveryMessageAccounted'
    <3>1. /\ dropped' = dropped + 1 /\ useless' = useless + 1
          /\ UNCHANGED <<held, dataRead, consumed, events, givenUp, done>>
      BY <1>1, <1>4 DEF ReadJunk, Drop, closeVars
    <3>2. Len(events) \in Nat /\ Len(held) \in Nat
      BY <1>0, <1>1 DEF TypeOK
    <3>3. /\ dataRead \in Nat /\ useless \in Nat /\ consumed \in Nat
          /\ dropped \in Nat /\ givenUp \in Nat
      BY <1>0 DEF TypeOK
    <3>4. Len(events') = Len(events) /\ Len(held') = Len(held)
      BY <3>1
    <3> QED
      BY <1>0, <3>1, <3>2, <3>3, <3>4 DEF EveryMessageAccounted
  <2> QED
    BY <1>1, <1>2, <1>4, <2>1, <2>2
       DEF Inv, OneInHand, NoGarbage, MaterialFits, ReadJunk
<1>5. CASE ReadData(m)
  <2>1. PICK p \in Payloads(m) :
          /\ garbage' = (garbage \/ p = "bad")
          /\ IF p = "none" THEN Drop /\ UNCHANGED <<runPc, held>>
                           ELSE /\ runPc' = "publish" /\ held' = <<m.n>>
                                /\ UNCHANGED dropped
    BY <1>5 DEF ReadData
  <2>2. /\ p \in {"good", "none"} /\ m.n \in Numbers
        /\ dataRead' = dataRead + 1
        /\ UNCHANGED <<pending, material, useless, delivered>>
    BY <1>1, <1>5, PayloadsOfOwn, ServedKinds DEF ReadData
  <2>3. garbage' = garbage
    BY <1>0, <2>1, <2>2 DEF TypeOK
  <2>4. \/ dropped' = dropped + 1 /\ UNCHANGED <<runPc, held>>
        \/ /\ runPc' = "publish" /\ held' = <<m.n>> /\ dropped' = dropped
           /\ Len(held') = 1 /\ held' # <<>>
    BY <2>1 DEF Drop
  <2>5. Len(held) = 0
    BY <1>1
  <2>6. TypeOK'
    BY <1>0, <1>1, <2>2, <2>3, <2>4 DEF TypeOK, closeVars
  <2>7. EveryMessageAccounted'
    <3>1. /\ UNCHANGED <<useless, consumed, events, givenUp, done>>
          /\ dataRead' = dataRead + 1
      BY <1>1, <2>2 DEF closeVars
    <3>2. \/ dropped' = dropped + 1 /\ Len(held') = 0
          \/ dropped' = dropped /\ Len(held') = 1
      BY <2>4, <2>5
    <3> QED
      BY <1>0, <2>5, <3>1, <3>2, ReadIsCounted
  <2>8. OneInHand'
    BY <1>1, <2>4 DEF OneInHand
  <2> QED
    BY <1>1, <1>2, <2>2, <2>3, <2>6, <2>7, <2>8
       DEF Inv, NoGarbage, MaterialFits
<1>6. CASE ReadOccupied(m)
  <2>1. TypeOK'
    BY <1>0, <1>1, <1>6 DEF TypeOK, ReadOccupied, closeVars
  <2>2. EveryMessageAccounted' /\ OneInHand'
    BY <1>0, <1>1, <1>6 DEF EveryMessageAccounted, ReadOccupied, closeVars,
                            OneInHand
  <2> QED
    BY <1>1, <1>2, <1>6, <2>1, <2>2
       DEF Inv, NoGarbage, MaterialFits, ReadOccupied
<1> QED
  BY <1>3, <1>4, <1>5, <1>6 DEF Read, m

\* So do publication, redial, exit and Close.
LEMMA OtherReaderStep ==
    ASSUME Inv, Reader \/ CloseStep, ~Read
    PROVE  Inv'
<1>0. TypeOK /\ WireFits /\ EveryMessageAccounted /\ OneInHand
  BY DEF Inv
<1>1. CASE ReadFails
  <2>1. TypeOK' /\ WireFits' /\ MaterialFits' /\ NoGarbage'
    BY <1>1 DEF ReadFails, Inv, TypeOK, WireFits, Served, Acks, Datas,
                MaterialFits, NoGarbage, serverVars, closeVars, history
  <2>2. OneInHand' /\ EveryMessageAccounted'
    BY <1>0, <1>1 DEF ReadFails, OneInHand, EveryMessageAccounted, closeVars,
                      history
  <2> QED
    BY <2>1, <2>2 DEF Inv
<1>2. CASE Publish
  <2>1. PICK n \in Numbers : held = <<n>>
    BY <1>0, <1>2 DEF Publish, TypeOK, OneInHand
  <2>2. /\ events' \in Seq(Numbers) /\ Len(events') = Len(events) + 1
        /\ Len(held) = 1 /\ Len(held') = 0 /\ Len(events') <= Buffer
    BY <1>0, <1>2, <2>1, EventStreamAssumption DEF Publish, TypeOK
  <2>3. TypeOK'
    BY <1>0, <1>2, <2>2 DEF Publish, TypeOK, serverVars, closeVars, history
  <2>4. EveryMessageAccounted'
    BY <1>0, <1>2, <2>2 DEF Publish, TypeOK, EveryMessageAccounted,
                            closeVars, history
  <2>5. WireFits' /\ MaterialFits' /\ NoGarbage' /\ OneInHand'
    BY <1>2 DEF Publish, Inv, WireFits, Served, Acks, Datas, MaterialFits,
                NoGarbage, OneInHand, serverVars, history
  <2> QED
    BY <2>3, <2>4, <2>5 DEF Inv
<1>3. CASE PublishAbandoned
  <2>1. Len(held) = 1 /\ Len(held') = 0
    BY <1>0, <1>3 DEF PublishAbandoned, TypeOK, OneInHand
  <2>2. TypeOK'
    BY <1>0, <1>3 DEF PublishAbandoned, TypeOK, serverVars, closeVars
  <2>3. EveryMessageAccounted'
    BY <1>0, <1>3, <2>1 DEF PublishAbandoned, TypeOK, EveryMessageAccounted,
                            closeVars
  <2>4. WireFits' /\ MaterialFits' /\ NoGarbage' /\ OneInHand'
    BY <1>3 DEF PublishAbandoned, Inv, WireFits, Served, Acks, Datas,
                MaterialFits, NoGarbage, OneInHand, serverVars
  <2> QED
    BY <2>2, <2>3, <2>4 DEF Inv
<1>4. CASE Redial
  <2>1. TypeOK'
    BY <1>0, <1>4, EventStreamAssumption
       DEF Redial, TypeOK, Sessions, NoMaterial, closeVars
  <2>2. WireFits' /\ MaterialFits'
    BY <1>4 DEF Redial, WireFits, MaterialFits, NoMaterial
  <2>3. EveryMessageAccounted' /\ OneInHand' /\ NoGarbage'
    BY <1>4 DEF Redial, Inv, EveryMessageAccounted, OneInHand, NoGarbage,
                closeVars
  <2> QED
    BY <2>1, <2>2, <2>3 DEF Inv
<1>5. CASE Exit
  BY <1>5 DEF Exit, Inv, TypeOK, WireFits, Served, Acks, Datas, MaterialFits,
              OneInHand, EveryMessageAccounted, NoGarbage, serverVars,
              closeVars, history
<1>6. CASE CloseStep
  <2>1. /\ closed' \in BOOLEAN /\ done' \in BOOLEAN /\ cancelled' \in BOOLEAN
        /\ done => done'
        /\ UNCHANGED <<events, material, pending, dropped, runPc, held,
                       serverVars, asks, consumed, history>>
    BY <1>0, <1>6 DEF CloseStep, TypeOK
  <2>2. TypeOK'
    BY <1>0, <2>1 DEF TypeOK, serverVars, history
  <2> QED
    BY <2>1, <2>2 DEF Inv, WireFits, Served, Acks, Datas, MaterialFits,
                      OneInHand, EveryMessageAccounted, NoGarbage,
                      serverVars, history
<1> QED
  BY <1>1, <1>2, <1>3, <1>4, <1>5, <1>6 DEF Reader

\* The strengthened invariant holds in every reachable state.
LEMMA Invariance == Spec => []Inv
<1>1. Inv /\ UNCHANGED vars => Inv'
  BY DEF vars, closeVars, serverVars, history, Inv, TypeOK, WireFits, Served,
         Acks, Datas, MaterialFits, OneInHand, EveryMessageAccounted,
         NoGarbage
<1>2. Inv /\ Next => Inv'
  BY OutsideStep, ReadStep, OtherReaderStep DEF Next, Reader
<1> QED
  BY <1>1, <1>2, InitInv, PTL DEF Spec
-----------------------------------------------------------------------------
\* Every variable of EventStream keeps its type; the channel never holds more
\* than Buffer events.
THEOREM TypeCorrect == Spec => []TypeOK
<1>1. Inv => TypeOK
  BY DEF Inv
<1> QED
  BY <1>1, Invariance, PTL

\* No message read from a socket is lost without a count, however many
\* sessions, expired waiters and unusable ACKs there are.
THEOREM NothingIsLost == Spec => []EveryMessageAccounted
<1>1. Inv => EveryMessageAccounted
  BY DEF Inv
<1> QED
  BY <1>1, Invariance, PTL

\* No event is ever decrypted with the material of another session or
\* transaction (reconnect.go:85-86).
THEOREM NothingIsGarbage == Spec => []NoGarbage
<1>1. Inv => NoGarbage
  BY DEF Inv
<1> QED
  BY <1>1, Invariance, PTL

\* Only a message that is read can be dropped.
LEMMA OnlyReadsDrop ==
    ASSUME Next, ~Read
    PROVE  dropped' = dropped
BY DEF Next, Outside, Reader, Ask, Expire, Answer, Emit, EmitJunk, Refuse,
       Sends, LinkFails, Consume, ReadFails, Publish, PublishAbandoned,
       Redial, Exit, CloseStep

\* A sound message of a transaction whose material was read in the session
\* is never dropped (reader.go:221-232).
THEOREM KnownIsReadable == Spec => KnownStreamsDecrypt
<1> DEFINE m == Head(wire)
           sound == /\ wire # <<>> /\ wire' = Tail(wire) /\ m.kind = "data"
                    /\ (Sealed(m) => m.tr \in delivered)
                    /\ m.body # Damaged
<1>1. ASSUME Inv, Read, sound
      PROVE  dropped' = dropped
  <2>1. m \in Served
    BY <1>1 DEF Inv, WireFits
  <2>2. m.tr \in Trs /\ m.body \in {Plain, <<session, m.tr>>}
    BY <1>1, <2>1, ServedKinds
  <2>3. m.body # Plain =>
          material[m.tr] = <<session, m.tr>> /\ m.body = <<session, m.tr>>
    BY <1>1, <2>2 DEF Sealed, Inv, MaterialFits
  <2>4. <<session, m.tr>> # None
    BY <1>1, <2>2, EventStreamAssumption DEF Inv, TypeOK, Materials
  <2>5. Payloads(m) \subseteq {"good"}
    BY <1>1, <2>2, <2>3, <2>4 DEF Payloads
  <2>6. ReadData(m)
    BY <1>1 DEF Read, ReadAck, ReadJunk, ReadOccupied
  <2> QED
    BY <2>5, <2>6 DEF ReadData
<1>2. Inv /\ [Next]_vars => [sound => dropped' = dropped]_vars
  BY <1>1, OnlyReadsDrop DEF vars
<1> QED
  BY <1>2, Invariance, PTL DEF Spec, KnownStreamsDecrypt
-----------------------------------------------------------------------------
(* EventStream implements EventFifo.                                       *)

\* What leaves the channel, the reader and Close alone stutters.
LEMMA FifoStutter ==
    ASSUME UNCHANGED <<events, held, runPc, done>>
    PROVE  UNCHANGED Fifo!vars
BY DEF Fifo!vars, Phase

\* With nothing in the reader's hand the queue is the channel.
LEMMA QueueIsChannel ==
    ASSUME TypeOK
    PROVE  /\ held = <<>> => events \o held = events
           /\ \A n \in Numbers :
                 held = <<n>> => events \o held = Append(events, n)
<1>1. events \in Seq(Numbers)
  BY DEF TypeOK
<1> QED
  BY <1>1, ConcatEmptySeq, AppendIsConcat

\* Without its last element a sequence is what it was appended to.
LEMMA AllButLast ==
    ASSUME NEW S, NEW q \in Seq(S), NEW e \in S
    PROVE  /\ q = SubSeq(Append(q, e), 1, Len(Append(q, e)) - 1)
           /\ Append(q, e) # <<>>
<1> DEFINE a == Append(q, e)
           b == SubSeq(a, 1, Len(a) - 1)
<1>1. /\ a \in Seq(S) /\ a # <<>> /\ Len(a) = Len(q) + 1 /\ Len(q) \in Nat
      /\ \A i \in 1 .. Len(q) : a[i] = q[i]
  BY AppendProperties, LenProperties
<1> HIDE DEF a
<1>2. /\ Len(a) - 1 = Len(q) /\ 1 \in Int /\ Len(a) - 1 \in Int
      /\ \A i \in 1 .. Len(a) - 1 : a[i] \in S
  BY <1>1, ElementOfSeq
<1>3. /\ b \in Seq(S)
      /\ Len(b) = IF 1 <= Len(a) - 1 THEN Len(a) - 1 - 1 + 1 ELSE 0
      /\ \A i \in 1 .. Len(a) - 1 - 1 + 1 : b[i] = a[1 + i - 1]
  BY <1>1, <1>2, SubSeqProperties
<1> HIDE DEF b
<1>4. Len(b) = Len(q) /\ \A i \in 1 .. Len(q) : q[i] = b[i]
  BY <1>1, <1>2, <1>3
<1>5. q = b
  BY <1>3, <1>4, SeqEqual
<1> QED
  BY <1>1, <1>5 DEF a, b

\* A read offers an event, ends the queue or leaves it alone.
LEMMA ReadOffers ==
    ASSUME Inv, Read
    PROVE  Fifo!Next \/ UNCHANGED Fifo!vars
<1> DEFINE m == Head(wire)
<1>0. TypeOK /\ TypeOK' /\ held = <<>> /\ runPc = "read" /\ m \in Served
      /\ UNCHANGED <<events, done>>
  BY ReadStep DEF Inv, Read, OneInHand, WireFits, closeVars
<1> HIDE DEF m
<1>1. CASE UNCHANGED <<held, runPc>>
  BY <1>0, <1>1, FifoStutter
<1>2. CASE ReadOccupied(m)
  <2>1. held' = held /\ runPc' = "exit" /\ Phase # "ended"
        /\ Phase' = "ended"
    BY <1>0, <1>2 DEF ReadOccupied, Phase
  <2>2. Len(events \o held) <= Buffer
    BY <1>0, QueueIsChannel DEF TypeOK
  <2> QED
    BY <1>0, <2>1, <2>2 DEF Fifo!Next, Fifo!End
<1>3. CASE ReadData(m) /\ ~UNCHANGED <<held, runPc>>
  <2>1. held' = <<m.n>> /\ runPc' = "publish"
    BY <1>3 DEF ReadData
  <2>2. m.n \in Numbers
    BY <1>0, <1>3, ServedKinds DEF ReadData
  <2>3. events \o held = events /\ (events \o held)' = Append(events, m.n)
    BY <1>0, <2>1, <2>2, QueueIsChannel DEF TypeOK
  <2>4. Phase' = Phase /\ Phase # "ended"
    BY <1>0, <2>1 DEF Phase
  <2>5. Len(events \o held) <= Buffer
    BY <1>0, <2>3 DEF TypeOK
  <2> QED
    BY <2>2, <2>3, <2>4, <2>5 DEF Fifo!Next, Fifo!Offer
<1> QED
  BY <1>1, <1>2, <1>3 DEF Read, ReadAck, ReadJunk, m

\* So does every other step, or it is the consumer's or Close's.
LEMMA FifoStep ==
    ASSUME Inv, Next
    PROVE  Fifo!Next \/ UNCHANGED Fifo!vars
<1>0. TypeOK /\ OneInHand
  BY DEF Inv
<1>1. CASE Read
  BY <1>1, ReadOffers
<1>2. CASE Consume
  <2>1. (events \o held)' = Tail(events \o held) /\ events \o held # <<>>
    <3>1. events # <<>> /\ events' = Tail(events) /\ held' = held
      BY <1>2 DEF Consume
    <3> QED
      BY <1>0, <3>1 DEF TypeOK
  <2>2. Phase' = Phase
    BY <1>2 DEF Consume, Phase, closeVars
  <2> QED
    BY <2>1, <2>2 DEF Fifo!Next, Fifo!Take
<1>3. CASE Publish
  <2>1. events' = events \o held /\ held' = <<>> /\ TypeOK'
    BY <1>3, OtherReaderStep DEF Publish, Reader, Inv, Read
  <2>2. (events \o held)' = events \o held
    BY <2>1 DEF TypeOK
  <2>3. Phase' = Phase
    BY <1>3 DEF Publish, Phase, closeVars
  <2> QED
    BY <2>2, <2>3 DEF Fifo!vars
<1>4. CASE PublishAbandoned
  <2>1. PICK n \in Numbers : held = <<n>>
    BY <1>0, <1>4 DEF PublishAbandoned, TypeOK, OneInHand
  <2>2. events' = events /\ held' = <<>> /\ done /\ done' = done
        /\ runPc = "publish" /\ runPc' = "read"
    BY <1>4 DEF PublishAbandoned, closeVars
  <2>3. events \o held = Append(events, n) /\ (events \o held)' = events
    BY <1>0, <2>1, <2>2, QueueIsChannel, ConcatEmptySeq DEF TypeOK
  <2>4. events = SubSeq(Append(events, n), 1, Len(Append(events, n)) - 1)
        /\ Append(events, n) # <<>>
    BY <1>0, AllButLast DEF TypeOK
  <2>5. Phase = "closing" /\ Phase' = Phase
    BY <2>2 DEF Phase
  <2> QED
    BY <2>3, <2>4, <2>5 DEF Fifo!Next, Fifo!GiveUp
<1>5. CASE Exit
  <2>1. UNCHANGED <<events, held>> /\ held = <<>> /\ runPc = "failed"
        /\ runPc' = "exit"
    BY <1>0, <1>5 DEF Exit, OneInHand
  <2>2. Len(events \o held) <= Buffer
    BY <1>0, <2>1 DEF TypeOK
  <2>3. Phase # "ended" /\ Phase' = "ended"
    BY <2>1 DEF Phase
  <2> QED
    BY <2>1, <2>2, <2>3 DEF Fifo!Next, Fifo!End
<1>6. CASE CloseStep
  <2>1. UNCHANGED <<events, held, runPc>>
    BY <1>6 DEF CloseStep
  <2>2. Phase' = Phase \/ (Phase = "open" /\ Phase' = "closing")
    BY <1>6, <2>1 DEF CloseStep, Phase
  <2> QED
    BY <2>1, <2>2 DEF Fifo!Next, Fifo!BeginClosing, Fifo!vars
<1>7. CASE ReadFails \/ Redial
  <2>1. UNCHANGED <<events, held, done>> /\ runPc # "exit" /\ runPc' # "exit"
    BY <1>7 DEF ReadFails, Redial, closeVars
  <2> QED
    BY <2>1 DEF Fifo!vars, Phase
<1>8. CASE Outside /\ ~Consume
  BY <1>8, FifoStutter
     DEF Outside, Ask, Expire, Answer, Emit, EmitJunk, Refuse, Sends,
         LinkFails, closeVars
<1> QED
  BY <1>1, <1>2, <1>3, <1>4, <1>5, <1>6, <1>7, <1>8 DEF Next, Reader

\* The consumer sees a bounded FIFO that loses nothing while the connection
\* is open, for every size of the channel (doc.go, "Ordering and
\* backpressure").
THEOREM EventsAreAFifo == Spec => FifoSpec
<1>1. Init => Fifo!Init
  BY DEF Init, Fifo!Init, Phase
<1>2. Inv /\ [Next]_vars => [Fifo!Next]_(Fifo!vars)
  BY FifoStep, FifoStutter DEF vars, closeVars
<1> QED
  BY <1>1, <1>2, Invariance, PTL DEF Spec, FifoSpec, Fifo!Spec
=============================================================================
