------------------------------ MODULE Decisions ------------------------------
(***************************************************************************)
(* Frames and Requests judged over bounded inputs.  The state is one input *)
(* to one of their operators: inputs with a fixed shape are all initial    *)
(* states, payloads and plaintexts grow by one piece or byte at a time.    *)
(* Each property compares what the code's steps compute with what the wire *)
(* format or the caller would have it be, stated without those steps.      *)
(***************************************************************************)
EXTENDS Frames, Requests, FiniteSets, TLC

CONSTANTS
    MaxPieces,    \* bound: pieces of a payload
    MaxOdd,       \* bound: how many of them are empty or oddly separated
    MaxBytes,     \* bound: bytes of a plaintext
    Blocks,       \* the block sizes tried
    Optional      \* bound: the parameters a caller may leave blank

ASSUME DecisionsAssumption == Blocks \subseteq 1 .. 255

VARIABLES kind, input
vars == <<kind, input>>

-----------------------------------------------------------------------------
(* Inputs.                                                                 *)

\* The name of a field, or in the place of the side one of its codes.
Atoms(i) == IF i = idx.Side + 1 THEN {"01", "B", "x"} ELSE {"f" \o ToString(i)}

Lengths == 0 .. 50
Raws == [bytes : Lengths, decoded : {Undecodable}]
        \cup {[bytes |-> 4 * ((n + 2) \div 3), decoded |-> n] : n \in 0 .. 36}

Exchanges ==
    [do : {"answered", "redirected", "failed"},
     status : {101, 200, 204, 302, 304, 404, 500},
     size : {"fine", "broken", "huge"},
     body : {"empty", "list", "bare", "null", "0", "1"},
     fits : BOOLEAN, envelope : BOOLEAN, output : BOOLEAN]

Hosts == [clean : BOOLEAN, rest : {"", "/", "path"}, https : BOOLEAN,
          lower : BOOLEAN, name : {"openapivts", "openapi", "other"},
          port : {29443, 9443, 443}]
AHost == [clean |-> TRUE, rest |-> "", https |-> TRUE, lower |-> TRUE,
          name |-> "openapivts", port |-> 29443]
Standards(owner) ==
    [kind : {"standard"}, owner : {owner}, proxy : BOOLEAN, hooks : BOOLEAN,
     nextProto : BOOLEAN, tls : {"none", "strict", "weak"},
     roots : {"none", owner}]
AStandard == [kind |-> "standard", owner |-> "global", proxy |-> TRUE,
              hooks |-> FALSE, nextProto |-> TRUE, tls |-> "none",
              roots |-> "none"]
Configs ==
    [Host : Hosts, credentials : BOOLEAN, RequestTimeout : {-1, 0, 5},
     clientTimeout : {0, 7}, transport : {NoTransport},
     default : {AStandard}]
    \cup
    [Host : {AHost}, credentials : {TRUE}, RequestTimeout : {5},
     clientTimeout : {0},
     transport : {NoTransport, [kind |-> "fake"]} \cup Standards("caller"),
     default : {[kind |-> "fake"]} \cup Standards("global")]

Connects == [Endpoint : {"live", "vts", Blank, "elsewhere"}, Dialer : BOOLEAN,
             Approval : BOOLEAN, Client : BOOLEAN, keyOk : BOOLEAN,
             dialOk : BOOLEAN]

Parameters == {"CANO", "INQR_DVSN", "OVRS_EXCG_CD", "SORT_SQN", "ORD_DT",
               "PDNO", "ODNO", "SLL_BUY_DVSN", "CCLD_NCCS_DVSN",
               "CTX_AREA_FK", "CTX_AREA_NK"}
Callings == [mode : {"mock", "live", "neither"}, path : Paths,
             blanks : SUBSET (Parameters \cap Optional)]
Request(c) == [f \in Parameters |-> IF f \in c.blanks THEN Blank ELSE Given]

Init ==
    \/ kind = "payload" /\ input \in {<<[sep |-> s, atom |-> a]>> :
                                      s \in {Bar, Caret}, a \in {Empty, "f1"}}
    \/ kind = "bytes" /\ input = <<>>
    \/ kind = "material" /\ input \in Raws \X Raws
    \/ kind = "exchange" /\ input \in Exchanges
    \/ kind = "config" /\ input \in Configs
    \/ kind = "connect" /\ input \in Connects
    \/ kind = "calling" /\ input \in Callings

\* A piece is odd if it is empty or not separated as the first one says.
Odd(payload) ==
    {i \in DOMAIN payload : payload[i].atom = Empty
                            \/ payload[i].sep # payload[1].sep}

MorePayload ==
    /\ kind = "payload" /\ Len(input) < MaxPieces
    /\ \E s \in {Bar, Caret}, a \in {Empty} \cup Atoms(Len(input) + 1) :
          input' = Append(input, [sep |-> s, atom |-> a])
    /\ Cardinality(Odd(input')) <= MaxOdd

MoreBytes ==
    /\ kind = "bytes" /\ Len(input) < MaxBytes
    /\ \E b \in 0 .. 4 : input' = Append(input, b)

Next == (MorePayload \/ MoreBytes) /\ UNCHANGED kind

Spec == Init /\ [][Next]_vars

-----------------------------------------------------------------------------
(* Frames.                                                                 *)

Carets(payload) == {i \in 2 .. Len(payload) : payload[i].sep = Caret}

\* What the wire says is in the place of a field: the atoms with so many
\* carets before them.
OnTheWire(payload, index) ==
    {i \in DOMAIN payload :
        Cardinality({j \in Carets(payload) : j <= i}) = index}
WireField(payload, index) ==
    LET w == Ascending(OnTheWire(payload, index))
    IN  [k \in DOMAIN w |-> payload[w[k]].atom]

Notice(payload) ==
    EventOf(parseRealtime([brace |-> FALSE,
                           parts |-> <<"0", "H0STCNI0", 1, payload>>])).Execution

\* An execution is read from exactly the records with fourteen fields, and
\* each of its fields from its documented place on the wire, also when other
\* fields are empty or hold a '|'.  A record without a '^' is separated by
\* '|', and its empty segments do not count (frame.go:59-70,
\* execution.go:102-115).
ExecutionsAreExact ==
    kind = "payload"
       => LET e == Notice(input)
              filled == {i \in DOMAIN input : input[i].atom # Empty}
              fields == IF Carets(input) # {} THEN Cardinality(Carets(input)) + 1
                        ELSE Cardinality(filled)
          IN  /\ e # NoExecution <=> fields = 14
              /\ e # NoExecution /\ Carets(input) # {} =>
                    /\ \A f \in DOMAIN idx \ {"Side"} :
                          e[f] = WireField(input, idx[f])
                    /\ e.Side = parseSide(WireField(input, idx.Side))

\* Whatever the material of an ACK, what is kept of it has the lengths that
\* the cipher takes: NewCBCDecrypter panics at any other IV, and the reader
\* with it (crypto.go:40-73, 89).
CipherTakesIt ==
    kind = "material" /\ newMaterial(input[1], input[2]) # NoMaterial
       => LET m == newMaterial(input[1], input[2])
          IN  m.key.length \in {16, 24, 32} /\ m.iv.length = BlockSize

\* Padding comes off again, and nothing but padding is taken for it: the
\* plaintext of a payload is the one text whose padding it is
\* (crypto.go:99-115).
PaddingRoundTrips ==
    kind = "bytes"
       => \A b \in Blocks :
             /\ unpadPKCS7(PadPKCS7(input, b), b) = input
             /\ unpadPKCS7(input, b) # Rejected
                   => PadPKCS7(unpadPKCS7(input, b), b) = input

-----------------------------------------------------------------------------
(* Requests.                                                               *)

\* Each of the four functions asks, in either mode, for a transaction that
\* its path allows and that no other mode asks for, and in no mode that is
\* neither for any at all (types.go:12-21, request.go:43-56, 80).
QueriesAreAllowed ==
    kind = "calling"
       => LET tr(mode) == TransactionOf(input.path, mode)
              sent(mode) == Read(input.path, tr(mode)) = "sent"
          IN  /\ sent("mock") /\ sent("live") /\ ~sent("neither")
              /\ {tr("mock"), tr("live")} = supportedReads[input.path]
              /\ tr("mock") # tr("live")

\* What the caller gave reaches the server, except what the mock server has
\* fixed for an order history; the account and the cursor of the next page
\* always do: a query without its cursor gives the first page for ever
\* (domestic.go:48-51, 95-97, overseas.go:41-49, 93-104).
WhatIsGivenIsSent ==
    kind = "calling"
       => LET r == Request(input)
              q == Query(input.path, r, input.mode)
              fixed == IF input.path = "OverseasHistory"
                       THEN {"ORD_DT"} \cup (IF input.mode = "mock"
                                             THEN DOMAIN MockFixed ELSE {})
                       ELSE {}
          IN  /\ \A f \in Parameters \ fixed : r[f] # Blank => q[f] = r[f]
              /\ \A f \in {"CANO", "CTX_AREA_FK", "CTX_AREA_NK"} : q[f] = r[f]

\* An account query is one the client lets through, and says what the caller
\* said.
QueriesAreRight == QueriesAreAllowed /\ WhatIsGivenIsSent

\* Success means that the server accepted the request: a 2xx answer that was
\* read to its end, whose envelope says "0", and that filled the output
\* (request.go:119-155).
SuccessIsGenuine ==
    kind = "exchange"
       => (Outcome(input) = "ok" <=>
             /\ input.do = "answered" /\ input.status \in 200 .. 299
             /\ input.size = "fine"
             /\ input.envelope => input.body = "0"
             /\ input.output => input.fits \/ input.body = "empty")

\* The transport of a client is its own down to the roots it trusts, uses no
\* proxy and verifies its peer, or is the caller's fake (client.go:102-145).
TransportIsOwned ==
    kind = "config" /\ NewClient(input) # NoClient
       => LET t == NewClient(input).transport
          IN  t.kind = "standard" =>
                 /\ t.owner = "client" /\ t.roots \in {"none", "client"}
                 /\ ~t.proxy /\ ~Unsafe(t)

\* A client that was made can reach its host: the host is in the one form
\* that pinningTransport lets through, its requests have a timer, and its
\* rate is that of its host (client.go:71-100, 158-189).
ClientsCanSend ==
    kind = "config" /\ NewClient(input) # NoClient
       => LET c == NewClient(input)
          IN  /\ Pinned(c.host) /\ c.timeout > 0
              /\ c.interval = 500 <=> input.Host.name = "openapivts"

\* A client owns its transport and can use it.
ClientsAreSound == TransportIsOwned /\ ClientsCanSend

\* A connection that fails to begin leaves no socket open, and one that is
\* configured wrongly asks for no key either: each key and each socket counts
\* against the app key (conn.go:158-192, websocket.go:55-71).
FailedBeginsLeaveNothing ==
    kind = "connect"
       => \A r \in {Dial(input), ConnectWS(input)} :
             /\ r.err # "none" => ~r.open
             /\ r.err \in {"endpoint", "dialer", "no provider"}
                   => ~r.asked /\ ~r.dialled

=============================================================================
