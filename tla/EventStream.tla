----------------------------- MODULE EventStream ----------------------------
(***************************************************************************)
(* The way of a realtime message from the socket to Events(): handle,      *)
(* applyAck, publish and the decryption material of reader.go, with what   *)
(* redial, Subscribe and Close do to them.                                 *)
(*                                                                         *)
(* Data messages are numbered as the server sends them.  Material is named *)
(* by the session and the transaction it was issued for, and to decrypt    *)
(* with other material either fails or yields garbage.  A request is       *)
(* registered and written in one step here, and every ACK has a tr_id:     *)
(* Conn has the gap, and the ACKs without one.  A rejected approval key    *)
(* ends a session as a lost link does.                                     *)
(***************************************************************************)
EXTENDS Naturals, Sequences, FiniteSets, SequencesExt

CONSTANTS
    Trs,          \* transaction IDs
    Buffer,       \* Config.EventBuffer
    MaxSent,      \* bound: the messages the server sends, ACKs excepted
    MaxAsks,      \* bound: the requests
    MaxSessions,  \* bound: the sessions
    MaxWire,      \* bound: the messages on the wire
    None,         \* no material
    Unusable,     \* material of a wrong length
    Plain, Damaged  \* bodies that are not encrypted, or cannot be decrypted

Sessions == 1 .. MaxSessions
Numbers == 1 .. MaxSent
Materials == Sessions \X Trs

ASSUME EventStreamAssumption ==
    /\ Buffer \in Nat \ {0}
    /\ MaxSent \in Nat /\ MaxAsks \in Nat /\ MaxWire \in Nat
    /\ MaxSessions \in Nat \ {0}
    /\ Trs \cap Materials = {}
    /\ {None, Unusable, Plain, Damaged} \cap (Trs \cup Materials) = {}
    /\ Cardinality({None, Unusable, Plain, Damaged}) = 4

\* Messages.  An ACK that accepts may have no material, or unusable material;
\* the body of a data message is plain, encrypted with some material, or
\* damaged.
Ack(tr, material) == [kind |-> "ack", tr |-> tr, ok |-> TRUE, material |-> material]
Refusal(tr) == [kind |-> "ack", tr |-> tr, ok |-> FALSE, material |-> None]
Data(tr, n, body) == [kind |-> "data", tr |-> tr, n |-> n, body |-> body]
Junk == [kind |-> "junk"]
Occupied == [kind |-> "occupied"]

VARIABLES
    \* fields of Conn
    events,       \* the channel
    material,     \* the decryption material by transaction
    pending,      \* the transactions of the waiters
    closed, done, cancelled,  \* what Close has done so far
    dropped,      \* stats.DroppedFrames
    \* the reader
    runPc,        \* "read", "publish", "failed", "exit"
    held,         \* the event publish has in its hand
    \* outside: the server and its session; how many requests were made and
    \* how many events the consumer received
    session, linkUp, wire, asked, granted, sent, asks, consumed,
    \* history: the data messages read; how many useless messages were read
    \* and how many events given up; whether garbage was published; the
    \* transactions whose material was read in this session
    dataRead, useless, givenUp, garbage, delivered

serverVars == <<session, linkUp, wire, asked, granted, sent>>
closeVars == <<closed, done, cancelled>>
history == <<dataRead, useless, givenUp, garbage, delivered>>
vars == <<events, material, pending, closeVars, dropped, runPc, held, serverVars,
          asks, consumed, history>>

Init ==
    /\ events = <<>> /\ material = [tr \in Trs |-> None] /\ pending = <<>>
    /\ closed = FALSE /\ done = FALSE /\ cancelled = FALSE /\ dropped = 0
    /\ runPc = "read" /\ held = <<>>
    /\ session = 1 /\ linkUp = TRUE /\ wire = <<>> /\ asked = <<>> /\ granted = {}
    /\ sent = 0 /\ asks = 0 /\ consumed = 0
    /\ dataRead = 0 /\ useless = 0 /\ givenUp = 0 /\ garbage = FALSE
    /\ delivered = {}

-----------------------------------------------------------------------------
(* Outside.                                                                *)

\* A caller or a resubscribe pass asks for a stream of tr.
Ask(tr) ==
    /\ linkUp /\ runPc \in {"read", "publish"} /\ ~closed /\ asks < MaxAsks
    /\ asks' = asks + 1
    /\ pending' = Append(pending, tr)
    /\ asked' = Append(asked, tr)
    /\ UNCHANGED <<events, material, closeVars, dropped, runPc, held, session, linkUp,
                   wire, granted, sent, consumed, history>>

\* The context of a waiter expires: forget.
Expire(i) ==
    /\ i \in DOMAIN pending
    /\ pending' = RemoveAt(pending, i)
    /\ UNCHANGED <<events, material, closeVars, dropped, runPc, held, serverVars, asks,
                   consumed, history>>

\* The server sends m.
Sends(m) ==
    /\ linkUp /\ Len(wire) < MaxWire
    /\ wire' = Append(wire, m)
    /\ UNCHANGED <<events, material, pending, closeVars, dropped, runPc, held, session,
                   linkUp, asks, consumed, history>>

\* The server answers the oldest request; a grant names the material of the
\* transaction, or not, or in a form that cannot be used.
Answer ==
    /\ asked # <<>>
    /\ LET tr == Head(asked)
       IN \/ Sends(Refusal(tr)) /\ UNCHANGED granted
          \/ \E m \in {<<session, tr>>, None, Unusable} :
                Sends(Ack(tr, m)) /\ granted' = granted \cup {tr}
    /\ asked' = Tail(asked) /\ UNCHANGED sent

\* The server sends data of a stream it granted.
Emit ==
    /\ sent < MaxSent
    /\ \E tr \in granted : \E body \in {Plain, Damaged, <<session, tr>>} :
          Sends(Data(tr, sent + 1, body))
    /\ sent' = sent + 1 /\ UNCHANGED <<asked, granted>>

\* Something that is no message of the protocol.
EmitJunk ==
    /\ sent < MaxSent
    /\ Sends(Junk)
    /\ sent' = sent + 1 /\ UNCHANGED <<asked, granted>>

\* Another session holds the app key.
Refuse == Sends(Occupied) /\ UNCHANGED <<asked, granted, sent>>

LinkFails ==
    /\ linkUp /\ session < MaxSessions
    /\ linkUp' = FALSE
    /\ UNCHANGED <<events, material, pending, closeVars, dropped, runPc, held, session,
                   wire, asked, granted, sent, asks, consumed, history>>

\* The application receives from Events().
Consume ==
    /\ events # <<>>
    /\ consumed' = consumed + 1 /\ events' = Tail(events)
    /\ UNCHANGED <<material, pending, closeVars, dropped, runPc, held, serverVars, asks,
                   history>>

-----------------------------------------------------------------------------
(* The reader.                                                             *)

\* Mutant: a message is dropped without a count.
DropUnseen == UNCHANGED dropped

\* countDrop.
Drop == dropped' = dropped + 1

\* Mutant: the material of an ACK that nobody awaits is not stored.
StoredIfAwaited(tr, m) ==
    IF m \in Materials /\ tr \in ToSet(pending) THEN [material EXCEPT ![tr] = m]
                                                ELSE material

\* storeMaterial, for an ACK of tr that carries m.
Stored(tr, m) ==
    IF m \in Materials THEN [material EXCEPT ![tr] = m] ELSE material

\* takePending: the oldest waiter of tr, or 0.
Waiter(tr) == SelectInSeq(pending, LAMBDA w : w = tr)

\* applyAck.
ReadAck(m) ==
    /\ m.kind = "ack"
    /\ LET i == Waiter(m.tr)
           bad == m.ok /\ m.material = Unusable
       IN /\ pending' = IF i = 0 THEN pending ELSE RemoveAt(pending, i)
          /\ material' = IF m.ok THEN Stored(m.tr, m.material) ELSE material
          /\ delivered' = IF m.ok /\ m.material \in Materials
                           THEN delivered \cup {m.tr} ELSE delivered
          /\ IF bad THEN Drop /\ useless' = useless + 1
                    ELSE UNCHANGED <<dropped, useless>>
    /\ UNCHANGED <<runPc, held, dataRead, garbage>>

\* A frame that is no message of the protocol.
ReadJunk(m) ==
    /\ m.kind = "junk"
    /\ Drop /\ useless' = useless + 1
    /\ UNCHANGED <<pending, material, runPc, held, dataRead, garbage, delivered>>

Sealed(m) == m.body \notin {Plain, Damaged}

\* Whether the payload is readable, decrypts to garbage, or does not decrypt.
Payloads(m) ==
    IF m.body = Plain THEN {"good"}
    ELSE IF m.body = Damaged \/ material[m.tr] = None THEN {"none"}
    ELSE IF material[m.tr] = m.body THEN {"good"} ELSE {"none", "bad"}

\* publish, up to its select.
ReadData(m) ==
    /\ m.kind = "data"
    /\ dataRead' = dataRead + 1
    /\ \E p \in Payloads(m) :
          /\ garbage' = (garbage \/ p = "bad")
          /\ IF p = "none" THEN Drop /\ UNCHANGED <<runPc, held>>
                           ELSE /\ runPc' = "publish" /\ held' = <<m.n>>
                                /\ UNCHANGED dropped
    /\ UNCHANGED <<pending, material, useless, delivered>>

\* The verdict OPSP8996 ends the loop, which closes Events.
ReadOccupied(m) ==
    /\ m.kind = "occupied"
    /\ runPc' = "exit" /\ pending' = <<>>
    /\ UNCHANGED <<material, held, dropped, dataRead, useless, garbage, delivered>>

\* One message of the socket; what a lost link had delivered may be read.
Read ==
    /\ runPc = "read" /\ wire # <<>> /\ ~cancelled
    /\ LET m == Head(wire)
       IN ReadAck(m) \/ ReadJunk(m) \/ ReadData(m) \/ ReadOccupied(m)
    /\ wire' = Tail(wire)
    /\ UNCHANGED <<events, closeVars, session, linkUp, asked, granted, sent, asks,
                   consumed, givenUp>>

\* Read fails, and failPending.
ReadFails ==
    /\ runPc = "read" /\ (cancelled \/ ~linkUp)
    /\ runPc' = "failed" /\ pending' = <<>>
    /\ UNCHANGED <<events, material, closeVars, dropped, held, serverVars, asks,
                   consumed, history>>

\* Mutant: a full channel loses the event (select with a default).
PublishOrLose ==
    /\ runPc = "publish"
    /\ events' = IF Len(events) < Buffer THEN events \o held ELSE events
    /\ runPc' = "read" /\ held' = <<>>
    /\ UNCHANGED <<material, pending, closeVars, dropped, serverVars, asks, consumed,
                   history>>

\* The select of publish: both cases may be ready.
Publish ==
    /\ runPc = "publish" /\ Len(events) < Buffer
    /\ events' = events \o held
    /\ runPc' = "read" /\ held' = <<>>
    /\ UNCHANGED <<material, pending, closeVars, dropped, serverVars, asks, consumed,
                   history>>

PublishAbandoned ==
    /\ runPc = "publish" /\ done
    /\ runPc' = "read" /\ held' = <<>> /\ givenUp' = givenUp + 1
    /\ UNCHANGED <<events, material, pending, closeVars, dropped, serverVars, asks,
                   consumed, dataRead, useless, garbage, delivered>>

\* Mutant: redial keeps the material.
MaterialKept == material

NoMaterial == [tr \in Trs |-> None]

\* A redial installs the socket of a new session.
Redial ==
    /\ runPc = "failed" /\ ~closed /\ session < MaxSessions
    /\ runPc' = "read"
    /\ material' = NoMaterial /\ delivered' = {}
    /\ session' = session + 1 /\ linkUp' = TRUE
    /\ wire' = <<>> /\ asked' = <<>> /\ granted' = {}
    /\ UNCHANGED <<events, pending, closeVars, dropped, held, sent, asks, consumed,
                   dataRead, useless, givenUp, garbage>>

\* The loop finds the connection closed; Events is closed as it returns.
Exit ==
    /\ runPc = "failed" /\ closed
    /\ runPc' = "exit"
    /\ UNCHANGED <<events, material, pending, closeVars, dropped, held, serverVars, asks,
                   consumed, history>>

-----------------------------------------------------------------------------
(* Close, from closed = true to transport.Close.                           *)

CloseStep ==
    /\ \/ ~closed /\ closed' = TRUE /\ UNCHANGED <<done, cancelled>>
       \/ closed /\ ~done /\ done' = TRUE /\ UNCHANGED <<closed, cancelled>>
       \/ done /\ ~cancelled /\ cancelled' = TRUE /\ UNCHANGED <<closed, done>>
    /\ UNCHANGED <<events, material, pending, dropped, runPc, held, serverVars, asks,
                   consumed, history>>

Outside ==
    \/ \E tr \in Trs : Ask(tr)
    \/ \E i \in DOMAIN pending : Expire(i)
    \/ Answer \/ Emit \/ EmitJunk \/ Refuse \/ LinkFails \/ Consume

Reader ==
    Read \/ ReadFails \/ Publish \/ PublishAbandoned \/ Redial \/ Exit

Next == Outside \/ Reader \/ CloseStep

\* Nothing obliges the server, the link or the consumer; that Close ends a
\* reader blocked on the channel is Shutdown's.
Spec == Init /\ [][Next]_vars

-----------------------------------------------------------------------------
\* Every variable keeps its type; the channel holds at most Buffer events.
TypeOK ==
    /\ events \in Seq(Numbers) /\ Len(events) <= Buffer /\ consumed \in Nat
    /\ material \in [Trs -> Materials \cup {None}]
    /\ pending \in Seq(Trs) /\ asked \in Seq(Trs) /\ granted \subseteq Trs
    /\ closed \in BOOLEAN /\ done \in BOOLEAN /\ cancelled \in BOOLEAN
    /\ linkUp \in BOOLEAN /\ garbage \in BOOLEAN
    /\ runPc \in {"read", "publish", "failed", "exit"}
    /\ held \in {<<>>} \cup {<<n>> : n \in Numbers}
    /\ session \in Sessions /\ sent \in 0 .. MaxSent /\ asks \in 0 .. MaxAsks
    /\ dropped \in Nat /\ dataRead \in Nat /\ useless \in Nat /\ givenUp \in Nat
    /\ delivered \subseteq Trs

\* Every message read from the socket is consumed, in the channel, in the
\* reader's hand or counted as dropped, whatever fails meanwhile; only Close
\* makes the reader give one up (conn.go:98-106, reader.go:215-218).
EveryMessageAccounted ==
    /\ dataRead + useless
          = consumed + Len(events) + Len(held) + dropped + givenUp
    /\ givenUp > 0 => done

\* No event is garbage: material of one session, or of one transaction, never
\* decrypts the data of another (crypto.go:12-14, reconnect.go:85-86).
NoGarbage == ~garbage

\* Once the material of a transaction has been read in a session, no sound
\* message of it is dropped, though nobody awaits the ACK any more, another
\* ACK had no material, or one was unusable (reader.go:221-232).
KnownStreamsDecrypt ==
    [][wire # <<>> /\ wire' = Tail(wire) /\ Head(wire).kind = "data"
       /\ (Sealed(Head(wire)) => Head(wire).tr \in delivered)
       /\ Head(wire).body # Damaged
          => dropped' = dropped]_vars

\* The consumer sees a bounded FIFO that loses nothing while the connection
\* is open (doc.go, "Ordering and backpressure").
Phase == IF runPc = "exit" THEN "ended" ELSE IF done THEN "closing" ELSE "open"
Fifo == INSTANCE EventFifo WITH
           Events <- Numbers, Capacity <- Buffer, queue <- events \o held, phase <- Phase
FifoSpec == Fifo!Spec
=============================================================================
