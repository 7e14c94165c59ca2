---------------------------- MODULE FramesProofs ----------------------------
(***************************************************************************)
(* Proofs about the parts without state, judged by Decisions: padding and  *)
(* material for texts of every length, the fields of executions for        *)
(* payloads of every length, and the decisions of Requests, which are      *)
(* those of the input they are made about (Judged).                        *)
(***************************************************************************)
EXTENDS Decisions, SeqLemmas

Byte == 0 .. 255

\* The remainder of a whole number of blocks and r bytes.
LEMMA Remainder ==
    ASSUME NEW b \in 1 .. 255, NEW k \in Nat
    PROVE  /\ (b * k) % b = 0
           /\ \A r \in 0 .. b - 1 : ((b * k) + r) % b = r
<1>1. ASSUME NEW r \in 0 .. b - 1
      PROVE  ((b * k) + r) % b = r
  <2> DEFINE n == (b * k) + r
             q == n \div b
             m == n % b
  <2>1. b * k \in Nat
    OBVIOUS
  <2>2. n \in Nat
    BY <2>1
  <2>3. q \in Int /\ m \in 0 .. b - 1 /\ n = (b * q) + m
    <3> HIDE DEF n
    <3> QED
      BY <2>2
  <2>4. (b * k) + r = (b * q) + m
    BY <2>3
  <2> HIDE DEF n, q, m
  <2>5. q = k
    <3>1. ~(q >= k + 1)
      <4> SUFFICES ASSUME q >= k + 1 PROVE FALSE
        OBVIOUS
      <4>1. b * q >= (b * k) + b
        BY <2>3
      <4> QED
        BY <2>1, <2>3, <2>4, <4>1
    <3>2. ~(k >= q + 1)
      <4> SUFFICES ASSUME k >= q + 1 PROVE FALSE
        OBVIOUS
      <4>1. b * k >= (b * q) + b
        BY <2>3
      <4> QED
        BY <2>1, <2>3, <2>4, <4>1
    <3> QED
      BY <2>3, <3>1, <3>2
  <2>6. m = r
    BY <2>1, <2>3, <2>4, <2>5
  <2> QED
    BY <2>6 DEF m, n
<1>2. ((b * k) + 0) % b = 0 /\ (b * k) + 0 = b * k
  BY <1>1
<1> QED
  BY <1>1, <1>2

\* How much padding a text of n bytes needs to fill its last block.
LEMMA PadLength ==
    ASSUME NEW n \in Nat, NEW b \in 1 .. 255
    PROVE  /\ b - (n % b) \in 1 .. b
           /\ (n + (b - (n % b))) % b = 0
<1>1. /\ n = b * (n \div b) + (n % b)
      /\ n % b \in 0 .. b - 1 /\ n \div b \in Nat
  OBVIOUS
<1>2. n + (b - (n % b)) = b * ((n \div b) + 1)
  BY <1>1
<1> QED
  BY <1>1, <1>2, Remainder

\* What the server sends is the text and as many bytes as each of them says.
LEMMA PadShape ==
    ASSUME NEW text \in Seq(Byte), NEW b \in 1 .. 255
    PROVE  LET p == b - (Len(text) % b)
               data == PadPKCS7(text, b)
           IN  /\ p \in 1 .. b /\ data \in Seq(Byte)
               /\ Len(data) = Len(text) + p /\ Len(data) % b = 0
               /\ \A i \in 1 .. Len(text) : data[i] = text[i]
               /\ \A i \in Len(text) + 1 .. Len(data) : data[i] = p
<1> DEFINE p == b - (Len(text) % b)
           data == PadPKCS7(text, b)
           pad == [i \in 1 .. p |-> p]
<1>1. Len(text) \in Nat
  BY LenProperties
<1>2. p \in 1 .. b /\ (Len(text) + p) % b = 0
  BY <1>1, PadLength
<1>3. data = text \o pad
  BY DEF PadPKCS7
<1> HIDE DEF p, data
<1>4. pad \in Seq(Byte) /\ Len(pad) = p /\ \A i \in 1 .. p : pad[i] = p
  <2>1. p \in Nat /\ p \in Byte
    BY <1>2 DEF Byte
  <2> QED
    BY <2>1, IsASeq
<1> HIDE DEF pad
<1>5. /\ data \in Seq(Byte) /\ Len(data) = Len(text) + p
      /\ \A i \in 1 .. Len(text) + p :
            data[i] = IF i <= Len(text) THEN text[i] ELSE pad[i - Len(text)]
  BY <1>3, <1>4, ConcatProperties
<1>6. \A i \in 1 .. Len(text) : data[i] = text[i]
  BY <1>1, <1>2, <1>5
<1>7. ASSUME NEW i \in Len(text) + 1 .. Len(data)
      PROVE  data[i] = p
  <2>1. i - Len(text) \in 1 .. p /\ i \in 1 .. Len(text) + p
        /\ ~(i <= Len(text))
    BY <1>1, <1>2, <1>5
  <2> QED
    BY <1>4, <1>5, <2>1
<1> QED
  BY <1>2, <1>5, <1>6, <1>7 DEF p, data

\* The first n elements of a sequence are those of another of that length.
LEMMA FrontIs ==
    ASSUME NEW S, NEW s \in Seq(S), NEW t \in Seq(S), Len(t) <= Len(s),
           \A i \in 1 .. Len(t) : s[i] = t[i]
    PROVE  SubSeq(s, 1, Len(t)) = t
<1> DEFINE f == SubSeq(s, 1, Len(t))
<1>1. Len(t) \in Nat /\ Len(s) \in Nat
  BY LenProperties
<1>2. \A i \in 1 .. Len(t) : s[i] \in S
  BY <1>1, ElementOfSeq
<1>3. /\ f \in Seq(S)
      /\ Len(f) = IF 1 <= Len(t) THEN Len(t) - 1 + 1 ELSE 0
      /\ \A i \in 1 .. Len(t) - 1 + 1 : f[i] = s[1 + i - 1]
  BY <1>1, <1>2, SubSeqProperties
<1> HIDE DEF f
<1>4. Len(f) = Len(t) /\ \A i \in 1 .. Len(f) : f[i] = t[i]
  BY <1>1, <1>3
<1>5. f = t
  BY <1>3, <1>4, SeqEqual
<1> QED
  BY <1>5 DEF f

\* For every block size below 256, of which AES's is one, and every text the
\* padding comes off again (crypto.go:99-115).
THEOREM PaddingComesOff ==
    ASSUME NEW b \in 1 .. 255, NEW text \in Seq(Byte)
    PROVE  unpadPKCS7(PadPKCS7(text, b), b) = text
<1> DEFINE p == b - (Len(text) % b)
           data == PadPKCS7(text, b)
<1>1. /\ p \in 1 .. b /\ data \in Seq(Byte)
      /\ Len(data) = Len(text) + p /\ Len(data) % b = 0
      /\ \A i \in 1 .. Len(text) : data[i] = text[i]
      /\ \A i \in Len(text) + 1 .. Len(data) : data[i] = p
      /\ Len(text) \in Nat
  BY PadShape, LenProperties
<1> HIDE DEF p, data
<1>2. data[Len(data)] = p
  BY <1>1
<1>3. Padded(data, p, b)
  BY <1>1 DEF Padded
<1>4. SubSeq(data, 1, Len(text)) = text
  BY <1>1, FrontIs
<1>5. Len(data) # 0 /\ Len(data) - p = Len(text)
  BY <1>1
<1> QED
  BY <1>1, <1>2, <1>3, <1>4, <1>5 DEF unpadPKCS7, data

\* What is taken for a plaintext is the one text whose padding the data is,
\* so that damaged data is not cut short (crypto.go:104-113).
THEOREM OnlyPaddingComesOff ==
    ASSUME NEW b \in 1 .. 255, NEW data \in Seq(Byte),
           unpadPKCS7(data, b) # Rejected
    PROVE  PadPKCS7(unpadPKCS7(data, b), b) = data
<1> DEFINE q == data[Len(data)]
           text == SubSeq(data, 1, Len(data) - q)
           p == b - (Len(text) % b)
           again == PadPKCS7(text, b)
<1>1. /\ Len(data) \in Nat \ {0} /\ Len(data) % b = 0
      /\ Padded(data, q, b) /\ unpadPKCS7(data, b) = text
  BY LenProperties DEF unpadPKCS7
<1>2. q \in Byte /\ \A i \in 1 .. Len(data) : data[i] \in Byte
  BY <1>1, ElementOfSeq
<1>3. /\ q \in 1 .. b /\ q <= Len(data)
      /\ \A i \in Len(data) - q + 1 .. Len(data) : data[i] = q
  <2>1. /\ q # 0 /\ q <= b /\ q <= Len(data)
        /\ \A i \in Len(data) - q + 1 .. Len(data) : data[i] = q
    BY <1>1 DEF Padded
  <2>2. q \in Byte /\ Byte \subseteq Nat
    BY <1>2 DEF Byte
  <2> HIDE DEF q
  <2> QED
    BY <2>1, <2>2
<1> HIDE DEF q
<1>4. /\ text \in Seq(Byte) /\ Len(text) = Len(data) - q
      /\ \A i \in 1 .. Len(text) : text[i] = data[i]
  <2> DEFINE n == Len(data) - q
  <2>1. n \in Nat /\ n <= Len(data) /\ 1 \in Int
    BY <1>1, <1>3
  <2>2. \A i \in 1 .. n : data[i] \in Byte
    BY <1>1, <1>2, <2>1
  <2> HIDE DEF n
  <2>3. /\ SubSeq(data, 1, n) \in Seq(Byte)
        /\ Len(SubSeq(data, 1, n)) = IF 1 <= n THEN n - 1 + 1 ELSE 0
        /\ \A i \in 1 .. n - 1 + 1 :
              SubSeq(data, 1, n)[i] = data[1 + i - 1]
    BY <2>1, <2>2, SubSeqProperties
  <2> QED
    BY <2>1, <2>3 DEF n
<1> HIDE DEF text
<1>5. p = q
  <2>1. PICK k \in Nat : Len(data) = b * k
    <3>1. Len(data) = b * (Len(data) \div b) /\ Len(data) \div b \in Nat
      BY <1>1
    <3> QED
      BY <3>1
  <2>2. k - 1 \in Nat /\ b * k = b * (k - 1) + b
    BY <1>1, <2>1
  <2>3. CASE q = b
    <3>1. Len(text) = b * (k - 1)
      BY <1>4, <2>1, <2>2, <2>3
    <3>2. Len(text) % b = 0
      BY <2>2, <3>1, Remainder
    <3> QED
      BY <1>3, <2>3, <3>2
  <2>4. CASE q # b
    <3>1. Len(text) = b * (k - 1) + (b - q) /\ b - q \in 0 .. b - 1
      BY <1>3, <1>4, <2>1, <2>2, <2>4
    <3>2. Len(text) % b = b - q
      BY <2>2, <3>1, Remainder
    <3> QED
      BY <1>3, <3>2
  <2> QED
    BY <2>3, <2>4
<1>6. /\ again \in Seq(Byte) /\ Len(again) = Len(text) + p
      /\ \A i \in 1 .. Len(text) : again[i] = text[i]
      /\ \A i \in Len(text) + 1 .. Len(again) : again[i] = p
  BY <1>4, PadShape
<1> HIDE DEF p, again
<1>7. Len(again) = Len(data)
  BY <1>1, <1>3, <1>4, <1>5, <1>6
<1>8. ASSUME NEW i \in 1 .. Len(again)
      PROVE  again[i] = data[i]
  <2>1. CASE i <= Len(text)
    BY <1>1, <1>3, <1>4, <1>6, <2>1
  <2>2. CASE ~(i <= Len(text))
    BY <1>1, <1>3, <1>4, <1>5, <1>6, <1>7, <2>2
  <2> QED
    BY <2>1, <2>2
<1>9. again = data
  BY <1>6, <1>7, <1>8, SeqEqual
<1> QED
  BY <1>1, <1>9 DEF again

-----------------------------------------------------------------------------
\* The bytes that the runs pad are bytes.
LEMMA BytesStayBytes == Spec => [](kind = "bytes" => input \in Seq(Byte))
<1> DEFINE Q == kind = "bytes" => input \in Seq(Byte)
<1>1. Init => Q
  BY DEF Init
<1>2. Q /\ [Next]_vars => Q'
  <2> SUFFICES ASSUME Q, [Next]_vars, kind' = "bytes"
               PROVE  input' \in Seq(Byte)
    OBVIOUS
  <2>1. CASE MoreBytes
    <3>1. PICK n \in 0 .. 4 : input' = Append(input, n)
      BY <2>1 DEF MoreBytes
    <3>2. n \in Byte /\ input \in Seq(Byte)
      BY <2>1, <3>1 DEF MoreBytes, Byte
    <3> QED
      BY <3>1, <3>2
  <2>2. CASE UNCHANGED vars
    BY <2>2 DEF vars
  <2> QED
    BY <2>1, <2>2 DEF Next, MorePayload
<1> QED
  BY <1>1, <1>2, PTL DEF Spec

\* Both facts for every set of block sizes and any length of the plaintext.
THEOREM PaddingIsSound == Spec => []PaddingRoundTrips
<1>1. (kind = "bytes" => input \in Seq(Byte)) => PaddingRoundTrips
  BY PaddingComesOff, OnlyPaddingComesOff, DecisionsAssumption
     DEF PaddingRoundTrips
<1> QED
  BY <1>1, BytesStayBytes, PTL

-----------------------------------------------------------------------------
(* Material.                                                               *)

\* Whatever lengths the two fields of an ACK have and decode to, what is kept
\* of them is a key and an IV the cipher takes (crypto.go:40-73).
LEMMA MaterialFits ==
    ASSUME NEW rawKey, NEW rawIV, newMaterial(rawKey, rawIV) # NoMaterial
    PROVE  LET m == newMaterial(rawKey, rawIV)
           IN  m.key.length \in {16, 24, 32} /\ m.iv.length = BlockSize
<1> DEFINE key == decodeMaterial(rawKey, KeyLengths)
           iv == decodeMaterial(rawIV, IvLengths)
<1>1. \A raw, want : \/ decodeMaterial(raw, want) = NoMaterial
                     \/ decodeMaterial(raw, want).length \in want
  BY DEF decodeMaterial
<1>2. /\ key # NoMaterial /\ iv # NoMaterial
      /\ newMaterial(rawKey, rawIV) = [read |-> "pair", key |-> key, iv |-> iv]
  BY DEF newMaterial
<1>3. key.length \in KeyLengths /\ iv.length \in IvLengths
  BY <1>1, <1>2
<1> HIDE DEF key, iv
<1> QED
  BY <1>2, <1>3 DEF KeyLengths, IvLengths, BlockSize

\* NewCBCDecrypter is never called with a key or an IV at which it panics,
\* and the reader with it.
THEOREM MaterialIsUsable == Spec => []CipherTakesIt
<1>1. CipherTakesIt
  BY MaterialFits DEF CipherTakesIt
<1> QED
  BY <1>1, PTL

-----------------------------------------------------------------------------
(* Requests.  Each fact is about inputs of any size, of which the runs try *)
(* some; a step of Spec changes payloads and plaintexts only.              *)

\* An answer of any status, and any body.
IsExchange(x) ==
    /\ x.do \in {"answered", "redirected", "failed"} /\ x.status \in Nat
    /\ x.size \in {"fine", "broken", "huge"}
    /\ x.fits \in BOOLEAN /\ x.envelope \in BOOLEAN /\ x.output \in BOOLEAN

AnyStandard == [kind : {"standard"}, owner : {"caller", "global"},
                proxy : BOOLEAN, hooks : BOOLEAN, nextProto : BOOLEAN,
                tls : {"none", "strict", "weak"},
                roots : {"none", "caller", "global"}]
AnyTransport == {NoTransport, [kind |-> "fake"]} \cup AnyStandard

\* A configuration with any host and timeouts, and any pair of transports.
IsConfig(c) ==
    /\ c.RequestTimeout \in Int /\ c.clientTimeout \in Int
    /\ c.transport \in AnyTransport /\ c.default \in AnyTransport

AnyCalling == [mode : {"mock", "live", "neither"}, path : Paths,
               blanks : SUBSET Parameters]

\* The inputs that are judged are among these.
Judged ==
    /\ kind = "exchange" => IsExchange(input)
    /\ kind = "config" => IsConfig(input)
    /\ kind = "calling" => input \in AnyCalling
    /\ kind = "connect" => input \in Connects

\* What is judged does not change.
LEMMA JudgedStays == Spec => []Judged
<1>1. Init => Judged
  <2>1. \A x \in Exchanges : IsExchange(x)
    BY DEF Exchanges, IsExchange
  <2>2. ASSUME NEW c \in Configs PROVE IsConfig(c)
    <3>1. \A o \in {"caller", "global"} : Standards(o) \subseteq AnyStandard
      BY DEF Standards, AnyStandard
    <3>2. AStandard \in AnyStandard
      BY DEF AStandard, AnyStandard
    <3>3. /\ c.RequestTimeout \in {-1, 0, 5} /\ c.clientTimeout \in {0, 7}
          /\ c.transport \in {NoTransport, [kind |-> "fake"]}
                              \cup Standards("caller")
          /\ c.default \in {AStandard, [kind |-> "fake"]}
                            \cup Standards("global")
      BY DEF Configs
    <3> QED
      BY <3>1, <3>2, <3>3 DEF IsConfig, AnyTransport
  <2>3. Callings \subseteq AnyCalling
    BY DEF Callings, AnyCalling
  <2> QED
    BY <2>1, <2>2, <2>3 DEF Init, Judged
<1>2. Judged /\ [Next]_vars => Judged'
  BY DEF Judged, Next, MorePayload, MoreBytes, vars
<1> QED
  BY <1>1, <1>2, PTL DEF Spec

\* Whatever status, size and body an answer has, success is what the server
\* accepted (request.go:119-155).
LEMMA OutcomeIsGenuine ==
    ASSUME NEW x, IsExchange(x)
    PROVE  Outcome(x) = "ok" <=>
             /\ x.do = "answered" /\ x.status \in 200 .. 299
             /\ x.size = "fine"
             /\ x.envelope => x.body = "0"
             /\ x.output => x.fits \/ x.body = "empty"
BY DEF IsExchange, Outcome, Failing, Unaccepted

\* No answer but an accepted one is a success.
THEOREM SuccessStaysGenuine == Spec => []SuccessIsGenuine
<1>1. Judged => SuccessIsGenuine
  BY OutcomeIsGenuine DEF Judged, SuccessIsGenuine
<1> QED
  BY <1>1, JudgedStays, PTL

\* Whichever transports the caller and the process have, the client's is its
\* own and verifies its peer (client.go:102-145).
LEMMA TransportOwned ==
    ASSUME NEW given \in AnyTransport, NEW default \in AnyTransport,
           safeTransport(given, default).kind = "standard"
    PROVE  LET t == safeTransport(given, default)
           IN  /\ t.owner = "client" /\ t.roots \in {"none", "client"}
               /\ ~t.proxy /\ ~Unsafe(t)
<1>1. ASSUME NEW t \in AnyStandard, NEW implicit \in BOOLEAN,
             ownedStandardTransport(t, implicit).kind = "standard"
      PROVE  LET o == ownedStandardTransport(t, implicit)
             IN  /\ o.owner = "client" /\ o.roots \in {"none", "client"}
                 /\ ~o.proxy /\ ~Unsafe(o)
  <2>1. ownedStandardTransport(t, implicit) = Clone(t, implicit)
    BY <1>1 DEF ownedStandardTransport, NoTransport
  <2>2. ~Unsafe(Clone(t, implicit))
    BY <1>1 DEF ownedStandardTransport, NoTransport
  <2>3. /\ Clone(t, implicit).owner = "client"
        /\ Clone(t, implicit).roots \in {"none", "client"}
        /\ ~Clone(t, implicit).proxy
    BY DEF Clone, AnyStandard
  <2> QED
    BY <2>1, <2>2, <2>3
<1>2. /\ NewTransport.owner = "client" /\ NewTransport.roots = "none"
      /\ ~NewTransport.proxy /\ ~Unsafe(NewTransport)
  BY DEF NewTransport, Unsafe
<1>3. \A t \in AnyTransport :
         /\ t.kind \in {"none", "fake", "standard"}
         /\ t.kind = "standard" => t \in AnyStandard
  BY DEF AnyTransport, AnyStandard, NoTransport
<1>4. CASE given.kind = "none"
  <2>1. CASE default.kind = "standard"
    BY <1>1, <1>3, <1>4, <2>1 DEF safeTransport
  <2>2. CASE default.kind # "standard"
    BY <1>2, <1>4, <2>2 DEF safeTransport
  <2> QED
    BY <2>1, <2>2
<1>5. CASE given.kind = "standard"
  BY <1>1, <1>3, <1>5 DEF safeTransport
<1>6. CASE given.kind = "fake"
  BY <1>6 DEF safeTransport
<1> QED
  BY <1>3, <1>4, <1>5, <1>6

\* Whatever a caller configures, a client that is made owns its transport,
\* reaches its host and limits its requests (client.go:71-189).
LEMMA ClientSound ==
    ASSUME NEW config, IsConfig(config), NewClient(config) # NoClient
    PROVE  LET c == NewClient(config)
           IN  /\ c.transport.kind = "standard" =>
                     /\ c.transport.owner = "client"
                     /\ c.transport.roots \in {"none", "client"}
                     /\ ~c.transport.proxy /\ ~Unsafe(c.transport)
               /\ Pinned(c.host) /\ c.timeout > 0
               /\ c.interval = 500 <=> config.Host.name = "openapivts"
<1> DEFINE host == normalizeHost(config.Host)
           transport == safeTransport(config.transport, config.default)
<1>1. /\ host # NoHost /\ ~(Timeout(config) <= 0)
      /\ NewClient(config) =
            [host |-> host, timeout |-> Timeout(config),
             interval |-> IF host = HostVTS THEN 500 ELSE 50,
             transport |-> transport]
  BY DEF NewClient
<1>2. Timeout(config) > 0
  BY <1>1 DEF Timeout, IsConfig
<1>3. Pinned(host) /\ (host = HostVTS <=> config.Host.name = "openapivts")
  <2>1. Allowed(config.Host)
    BY <1>1 DEF normalizeHost
  <2>2. HostVTS # HostLive
    BY DEF HostVTS, HostLive
  <2> QED
    BY <1>1, <2>1, <2>2 DEF normalizeHost, Pinned, Allowed
<1>4. config.transport \in AnyTransport /\ config.default \in AnyTransport
  BY DEF IsConfig
<1>5. transport.kind = "standard" =>
         /\ transport.owner = "client"
         /\ transport.roots \in {"none", "client"}
         /\ ~transport.proxy /\ ~Unsafe(transport)
  BY <1>4, TransportOwned
<1> HIDE DEF host, transport
<1> QED
  BY <1>1, <1>2, <1>3, <1>5

\* Every client that is made is sound.
THEOREM ClientsStaySound == Spec => []ClientsAreSound
<1>1. Judged => ClientsAreSound
  BY ClientSound DEF Judged, ClientsAreSound, TransportIsOwned, ClientsCanSend
<1> QED
  BY <1>1, JudgedStays, PTL

\* Neither of the two ways to begin a connection leaves a socket behind when
\* it fails, or asks for a key it cannot use.
THEOREM FailedBeginsAreClean == Spec => []FailedBeginsLeaveNothing
<1>1. Judged => FailedBeginsLeaveNothing
  <2>1. \A keyOk \in BOOLEAN, dialOk \in BOOLEAN :
           LET r == Begun(keyOk, dialOk)
           IN  /\ r.err # "none" => ~r.open
               /\ r.err \notin {"endpoint", "dialer", "no provider"}
    BY DEF Begun
  <2>2. \A why : /\ ~Refusal(why).open
                 /\ ~Refusal(why).asked /\ ~Refusal(why).dialled
    BY DEF Refusal
  <2>3. \A c \in Connects : /\ c.keyOk \in BOOLEAN /\ c.dialOk \in BOOLEAN
                            /\ c.Dialer \in BOOLEAN /\ c.Client \in BOOLEAN
                            /\ c.Approval \in BOOLEAN
    BY DEF Connects
  <2>4. \A c \in Connects : \A r \in {Dial(c), ConnectWS(c)} :
           r = Begun(c.keyOk, c.dialOk) \/ \E why : r = Refusal(why)
    BY DEF Dial, ConnectWS
  <2> QED
    BY <2>1, <2>2, <2>3, <2>4 DEF Judged, FailedBeginsLeaveNothing
<1> QED
  BY <1>1, JudgedStays, PTL

\* Each query asks for a transaction of its path and mode.
LEMMA QueryAllowed ==
    ASSUME NEW path \in Paths
    PROVE  LET tr(mode) == TransactionOf(path, mode)
               sent(mode) == Read(path, tr(mode)) = "sent"
           IN  /\ sent("mock") /\ sent("live") /\ ~sent("neither")
               /\ {tr("mock"), tr("live")} = supportedReads[path]
               /\ tr("mock") # tr("live")
BY DEF Paths, supportedReads, TransactionOf, TransactionID, ErrInvalidMode,
       Read

\* A default replaces only what was left blank, and never the account or the
\* cursor.
LEMMA FilledKeeps ==
    ASSUME NEW r, NEW defaults
    PROVE  \A f \in DOMAIN r :
              r[f] # Blank \/ f \notin DOMAIN defaults
                 => Filled(r, defaults)[f] = r[f]
BY DEF Filled, value

\* Whatever the caller leaves blank, what it gave is sent.
LEMMA GivenSent ==
    ASSUME NEW c \in AnyCalling
    PROVE  LET r == Request(c)
               q == Query(c.path, r, c.mode)
               fixed == IF c.path = "OverseasHistory"
                        THEN {"ORD_DT"} \cup (IF c.mode = "mock"
                                              THEN DOMAIN MockFixed ELSE {})
                        ELSE {}
           IN  /\ \A f \in Parameters \ fixed : r[f] # Blank => q[f] = r[f]
               /\ \A f \in {"CANO", "CTX_AREA_FK", "CTX_AREA_NK"} : q[f] = r[f]
<1> DEFINE r == Request(c)
           always == {"CANO", "CTX_AREA_FK", "CTX_AREA_NK"}
           domestic == Filled(r, DomesticDefaults)
           overseas == Filled(r, OverseasDefaults)
           history == [overseas EXCEPT !.ORD_DT = Blank]
<1>1. DOMAIN r = Parameters /\ always \subseteq Parameters
  BY DEF Request, Parameters
<1>2. /\ always \cap DOMAIN DomesticDefaults = {}
      /\ always \cap DOMAIN OverseasDefaults = {}
      /\ always \cap DOMAIN MockFixed = {}
      /\ "ORD_DT" \notin always
  BY DEF DomesticDefaults, OverseasDefaults, MockFixed
<1>3. /\ DOMAIN domestic = Parameters /\ DOMAIN overseas = Parameters
      /\ DOMAIN history = Parameters
  BY <1>1 DEF Filled
<1>4. /\ \A f \in Parameters : r[f] # Blank => /\ domestic[f] = r[f]
                                               /\ overseas[f] = r[f]
      /\ \A f \in always : domestic[f] = r[f] /\ overseas[f] = r[f]
  BY <1>1, <1>2, FilledKeeps
<1> HIDE DEF domestic, overseas, r
<1>5. \A f \in Parameters \ {"ORD_DT"} : history[f] = overseas[f]
  BY <1>3
<1>6. \A f \in Parameters \ DOMAIN MockFixed :
         AsMock(history)[f] = history[f]
  BY <1>3 DEF AsMock
<1> HIDE DEF history
<1>7. CASE c.path \in {"DomesticBalance", "DomesticHistory"}
  <2>1. Query(c.path, r, c.mode) = domestic
    BY <1>7 DEF Query, domestic
  <2> QED
    BY <1>4, <1>7, <2>1 DEF r
<1>8. CASE c.path = "OverseasBalance"
  <2>1. Query(c.path, r, c.mode) = overseas
    BY <1>8 DEF Query, overseas
  <2> QED
    BY <1>4, <1>8, <2>1 DEF r
<1>9. CASE c.path = "OverseasHistory"
  <2>1. Query(c.path, r, c.mode) =
           IF c.mode = "mock" THEN AsMock(history) ELSE history
    BY <1>9 DEF Query, history, overseas
  <2> QED
    BY <1>1, <1>2, <1>4, <1>5, <1>6, <1>9, <2>1 DEF r
<1> QED
  BY <1>7, <1>8, <1>9 DEF AnyCalling, Paths, supportedReads

\* Every account query is let through and says what the caller said.
THEOREM QueriesStayRight == Spec => []QueriesAreRight
<1>1. Judged => QueriesAreAllowed
  BY QueryAllowed DEF Judged, QueriesAreAllowed, AnyCalling
<1>2. Judged => WhatIsGivenIsSent
  BY GivenSent DEF Judged, WhatIsGivenIsSent
<1> QED
  BY <1>1, <1>2, JudgedStays, PTL DEF QueriesAreRight

-----------------------------------------------------------------------------
(* Executions.                                                             *)

\* How many numbers of T are at most i.
Rank(T, i) == Cardinality({j \in T : j <= i})

\* The rank counts a finite set, one number at a time.
LEMMA RankStep ==
    ASSUME NEW n \in Nat, NEW T \in SUBSET (1 .. n)
    PROVE  /\ IsFiniteSet(T) /\ Cardinality(T) \in Nat
           /\ Rank(T, 0) = 0 /\ Rank(T, n) = Cardinality(T)
           /\ \A i \in Nat :
                 /\ Rank(T, i) \in Nat
                 /\ Rank(T, i + 1) = IF i + 1 \in T THEN Rank(T, i) + 1
                                                    ELSE Rank(T, i)
<1> DEFINE Upto(i) == {j \in T : j <= i}
<1>1. IsFiniteSet(T) /\ Cardinality(T) \in Nat
  <2>1. IsFiniteSet(1 .. n)
    BY FS_Interval
  <2>2. IsFiniteSet(T)
    BY <2>1, FS_Subset
  <2> QED
    BY <2>2, FS_CardinalityType
<1>2. ASSUME NEW i PROVE IsFiniteSet(Upto(i)) /\ Cardinality(Upto(i)) \in Nat
  <2>1. Upto(i) \in SUBSET T
    OBVIOUS
  <2> HIDE DEF Upto
  <2>2. IsFiniteSet(Upto(i))
    BY <1>1, <2>1, FS_Subset
  <2> QED
    BY <2>2, FS_CardinalityType
<1>3. \A j \in T : j \in Nat /\ 1 <= j /\ j <= n
  OBVIOUS
<1>4. Upto(0) = {} /\ Upto(n) = T
  <2>1. \A j \in T : ~(j <= 0) /\ j <= n
    BY <1>3
  <2> QED
    BY <2>1
<1>5. ASSUME NEW i \in Nat
      PROVE  /\ Upto(i + 1) = IF i + 1 \in T THEN Upto(i) \cup {i + 1}
                                             ELSE Upto(i)
             /\ i + 1 \notin Upto(i)
  <2>1. \A j \in T : j <= i + 1 <=> j <= i \/ j = i + 1
    BY <1>3
  <2>2. ~(i + 1 <= i)
    OBVIOUS
  <2> QED
    BY <2>1, <2>2
<1> HIDE DEF Upto
<1>6. ASSUME NEW i \in Nat
      PROVE  Cardinality(Upto(i + 1)) = IF i + 1 \in T
                                        THEN Cardinality(Upto(i)) + 1
                                        ELSE Cardinality(Upto(i))
  BY <1>2, <1>5, FS_AddElement
<1> QED
  BY <1>1, <1>2, <1>4, <1>6, FS_EmptySet DEF Rank, Upto

\* It never falls, and grows at every number of T.
LEMMA RankGrows ==
    ASSUME NEW n \in Nat, NEW T \in SUBSET (1 .. n),
           NEW i \in Nat, NEW j \in Nat, i < j
    PROVE  /\ Rank(T, i) <= Rank(T, j)
           /\ j \in T => Rank(T, i) < Rank(T, j)
<1>1. ASSUME NEW m \in Nat, i <= m PROVE Rank(T, i) <= Rank(T, m)
  <2> DEFINE Upto(k) == {l \in T : l <= k}
  <2>1. Upto(m) \in SUBSET T /\ Upto(i) \in SUBSET Upto(m)
    <3>1. \A l \in T : l \in Nat
      OBVIOUS
    <3>2. \A l \in T : l <= i => l <= m
      BY <1>1, <3>1
    <3> QED
      BY <3>2
  <2> HIDE DEF Upto
  <2>2. IsFiniteSet(Upto(m))
    BY <2>1, RankStep, FS_Subset
  <2>3. Cardinality(Upto(i)) <= Cardinality(Upto(m))
    BY <2>1, <2>2, FS_Subset
  <2> QED
    BY <2>3 DEF Upto, Rank
<1>2. j - 1 \in Nat /\ i <= j - 1 /\ (j - 1) + 1 = j /\ i <= j
  OBVIOUS
<1>3. \A k \in Nat : /\ Rank(T, k) \in Nat
                     /\ k + 1 \in T => Rank(T, k + 1) = Rank(T, k) + 1
  BY RankStep
<1>4. /\ j \in T => Rank(T, j) = Rank(T, j - 1) + 1
      /\ Rank(T, j - 1) \in Nat /\ Rank(T, i) \in Nat
  BY <1>2, <1>3
<1> QED
  BY <1>1, <1>2, <1>4

\* It orders them: what is before a number of T has a lower rank than it.
LEMMA RankOrders ==
    ASSUME NEW n \in Nat, NEW T \in SUBSET (1 .. n),
           NEW s \in T, NEW i \in 1 .. n
    PROVE  /\ s \in 1 .. n /\ Rank(T, i) \in Nat /\ Rank(T, s) \in Nat
           /\ Rank(T, i) < Rank(T, s) <=> i < s
           /\ Rank(T, i) <= Cardinality(T)
<1>1. s \in 1 .. n /\ s \in Nat /\ i \in Nat /\ i <= n
  OBVIOUS
<1>2. /\ Rank(T, i) \in Nat /\ Rank(T, s) \in Nat
      /\ Rank(T, n) = Cardinality(T)
  BY <1>1, RankStep
<1>3. i < s => Rank(T, i) < Rank(T, s)
  BY <1>1, RankGrows
<1>4. s < i => Rank(T, s) <= Rank(T, i)
  BY <1>1, RankGrows
<1>5. i < n => Rank(T, i) <= Rank(T, n)
  BY <1>1, RankGrows
<1>6. i < s \/ i = s \/ s < i
  BY <1>1
<1>7. i < n \/ i = n
  BY <1>1
<1>8. Rank(T, i) <= Cardinality(T)
  BY <1>2, <1>5, <1>7
<1>9. Rank(T, i) < Rank(T, s) <=> i < s
  BY <1>1, <1>2, <1>3, <1>4, <1>6
<1> QED
  BY <1>1, <1>2, <1>8, <1>9

\* The numbers of T in their order: as many as there are, each once, in the
\* place of its rank.
LEMMA AscendingShape ==
    ASSUME NEW n \in Nat, NEW T \in SUBSET (1 .. n)
    PROVE  /\ Len(Ascending(T)) = Cardinality(T) /\ Cardinality(T) \in Nat
           /\ DOMAIN Ascending(T) = 1 .. Cardinality(T)
           /\ \A k \in 1 .. Cardinality(T) :
                 /\ Ascending(T)[k] \in T
                 /\ Rank(T, Ascending(T)[k]) = k
<1>1. Cardinality(T) \in Nat
  BY RankStep
<1>2. Len(Ascending(T)) = Cardinality(T) /\ DOMAIN Ascending(T) = 1 .. Cardinality(T)
  BY <1>1 DEF Ascending
<1>3. ASSUME NEW k \in 1 .. Cardinality(T)
      PROVE  \E i \in T : Rank(T, i) = k
  <2> DEFINE High == {i \in Nat : Rank(T, i) >= k}
  <2>1. n \in High
    BY <1>1, <1>3, RankStep
  <2>2. PICK i \in High : \A j \in High : i <= j
    <3>1. High \in SUBSET Nat /\ High # {}
      BY <2>1
    <3> HIDE DEF High
    <3> QED
      BY <3>1, MinIsLeast
  <2>3. i \in Nat /\ Rank(T, i) >= k /\ i # 0
    BY <2>2, RankStep
  <2>4. i - 1 \in Nat /\ (i - 1) + 1 = i /\ ~(i <= i - 1)
    BY <2>3
  <2>5. ~(Rank(T, i - 1) >= k)
    BY <2>2, <2>4
  <2>6. /\ Rank(T, i - 1) \in Nat
        /\ Rank(T, i) = IF i \in T THEN Rank(T, i - 1) + 1 ELSE Rank(T, i - 1)
    BY <2>4, RankStep
  <2> QED
    BY <2>3, <2>5, <2>6
<1>4. ASSUME NEW k \in 1 .. Cardinality(T)
      PROVE  Ascending(T)[k] \in T /\ Rank(T, Ascending(T)[k]) = k
  <2>1. Ascending(T)[k] = CHOOSE i \in T : Rank(T, i) = k
    BY DEF Ascending, Rank
  <2> QED
    BY <1>3, <2>1
<1> QED
  BY <1>1, <1>2, <1>4

\* Those of an interval.
LEMMA AscendingInterval ==
    ASSUME NEW a \in Nat \ {0}, NEW b \in Nat, a <= b
    PROVE  Ascending(a .. b) = [m \in 1 .. b - a + 1 |-> a + m - 1]
<1> DEFINE r == Ascending(a .. b)
<1>1. a .. b \in SUBSET (1 .. b)
  OBVIOUS
<1>2. Cardinality(a .. b) = b - a + 1
  BY FS_Interval
<1>3. ASSUME NEW i \in a .. b PROVE Rank(a .. b, i) = i - a + 1
  <2>1. {j \in a .. b : j <= i} = a .. i
    OBVIOUS
  <2>2. Cardinality(a .. i) = i - a + 1
    BY FS_Interval
  <2> QED
    BY <2>1, <2>2 DEF Rank
<1>4. /\ DOMAIN r = 1 .. b - a + 1
      /\ \A m \in 1 .. b - a + 1 : r[m] \in a .. b /\ Rank(a .. b, r[m]) = m
  BY <1>1, <1>2, AscendingShape
<1>5. ASSUME NEW m \in 1 .. b - a + 1 PROVE r[m] = a + m - 1
  BY <1>3, <1>4
<1>6. r = [m \in 1 .. Cardinality(a .. b) |-> r[m]]
  <2> DEFINE g(m) == CHOOSE i \in a .. b :
                        Cardinality({j \in a .. b : j <= i}) = m
  <2>1. r = [m \in 1 .. Cardinality(a .. b) |-> g(m)]
    BY DEF Ascending
  <2> HIDE DEF r, g
  <2> QED
    BY <2>1
<1> HIDE DEF r
<1>7. r = [m \in 1 .. b - a + 1 |-> a + m - 1]
  BY <1>2, <1>5, <1>6
<1> QED
  BY <1>7 DEF r

\* A payload is not empty.
Pieces == [sep : {Bar, Caret}, atom : {Empty, "f1"} \cup UNION {Atoms(i) : i \in Nat}]
IsPayload(p) == p \in Seq(Pieces) /\ p # <<>>

Starts(payload) == {i \in DOMAIN payload : i = 1 \/ payload[i].sep = Caret}

\* A field begins at the first piece and at every caret.
LEMMA StartsAreCarets ==
    ASSUME NEW payload, IsPayload(payload)
    PROVE  /\ Len(payload) \in Nat \ {0} /\ DOMAIN payload = 1 .. Len(payload)
           /\ Starts(payload) \in SUBSET (1 .. Len(payload))
           /\ \A i \in 1 .. Len(payload) :
                 /\ Cardinality({j \in Carets(payload) : j <= i}) \in Nat
                 /\ Rank(Starts(payload), i)
                       = Cardinality({j \in Carets(payload) : j <= i}) + 1
           /\ Cardinality(Carets(payload)) \in Nat
           /\ Cardinality(Starts(payload)) = Cardinality(Carets(payload)) + 1
<1>1. /\ Len(payload) \in Nat \ {0} /\ DOMAIN payload = 1 .. Len(payload)
      /\ Starts(payload) \in SUBSET (1 .. Len(payload))
  BY LenProperties, EmptySeq DEF IsPayload, Starts
<1>2. Carets(payload) \in SUBSET (1 .. Len(payload)) /\ 1 \notin Carets(payload)
  BY <1>1 DEF Carets
<1>3. Starts(payload) = Carets(payload) \cup {1}
  BY <1>1 DEF Starts, Carets
<1>4. ASSUME NEW i \in 1 .. Len(payload)
      PROVE  /\ Rank(Carets(payload), i) \in Nat
             /\ Rank(Starts(payload), i) = Rank(Carets(payload), i) + 1
  <2> DEFINE C == {j \in Carets(payload) : j <= i}
  <2>1. {j \in Starts(payload) : j <= i} = C \cup {1} /\ 1 \notin C
    BY <1>2, <1>3
  <2>2. C \in SUBSET Carets(payload) /\ IsFiniteSet(Carets(payload))
    BY <1>1, <1>2, RankStep
  <2> HIDE DEF C
  <2>3. IsFiniteSet(C)
    BY <2>2, FS_Subset
  <2>4. Cardinality(C \cup {1}) = Cardinality(C) + 1 /\ Cardinality(C) \in Nat
    BY <2>1, <2>3, FS_AddElement, FS_CardinalityType
  <2> QED
    BY <2>1, <2>4 DEF C, Rank
<1>5. /\ Cardinality(Carets(payload)) = Rank(Carets(payload), Len(payload))
      /\ Cardinality(Starts(payload)) = Rank(Starts(payload), Len(payload))
  BY <1>1, <1>2, RankStep
<1> QED
  BY <1>1, <1>4, <1>5 DEF Rank

\* Split at its carets, a payload has a field before each of them and one
\* behind the last, and each is what the wire has there.
LEMMA FieldsAtCarets ==
    ASSUME NEW payload, IsPayload(payload)
    PROVE  /\ Len(AtCarets(payload)) = Cardinality(Carets(payload)) + 1
           /\ Cardinality(Carets(payload)) \in Nat
           /\ \A k \in 1 .. Cardinality(Carets(payload)) + 1 :
                 AtCarets(payload)[k] = WireField(payload, k - 1)
<1> DEFINE n == Len(payload)
           T == Starts(payload)
           starts == Ascending(T)
           end(k) == IF k = Len(starts) THEN n ELSE starts[k + 1] - 1
           last == Cardinality(Carets(payload)) + 1
<1>1. /\ n \in Nat \ {0} /\ DOMAIN payload = 1 .. n
      /\ T \in SUBSET (1 .. n)
      /\ last \in Nat /\ Cardinality(T) = last
      /\ Cardinality(Carets(payload)) \in Nat
      /\ \A i \in 1 .. n :
            /\ Cardinality({j \in Carets(payload) : j <= i}) \in Nat
            /\ Rank(T, i) = Cardinality({j \in Carets(payload) : j <= i}) + 1
  BY StartsAreCarets
<1> HIDE DEF T, n, last
<1>2. /\ Len(starts) = last /\ DOMAIN starts = 1 .. last
      /\ \A k \in 1 .. last : starts[k] \in T /\ Rank(T, starts[k]) = k
  BY <1>1, AscendingShape
<1> HIDE DEF starts
<1>3. AtCarets(payload) =
         [k \in 1 .. last |-> [j \in 1 .. end(k) - starts[k] + 1 |->
                                  payload[starts[k] + j - 1].atom]]
  BY <1>2 DEF AtCarets, FieldStarts, starts, T, Starts, n
<1>4. ASSUME NEW k \in 1 .. last
      PROVE  /\ starts[k] \in 1 .. n /\ end(k) \in 1 .. n /\ starts[k] <= end(k)
             /\ OnTheWire(payload, k - 1) = starts[k] .. end(k)
  <2>1. OnTheWire(payload, k - 1) = {i \in 1 .. n : Rank(T, i) = k}
    BY <1>1 DEF OnTheWire
  <2>2. starts[k] \in 1 .. n /\ starts[k] \in T /\ Rank(T, starts[k]) = k
    BY <1>1, <1>2
  <2>3. ASSUME NEW i \in 1 .. n
        PROVE  /\ Rank(T, i) \in Nat /\ Rank(T, i) <= last
               /\ Rank(T, i) < k <=> i < starts[k]
    BY <1>1, <2>2, RankOrders
  <2>4. CASE k = last
    <3>1. end(k) = n
      BY <1>2, <2>4
    <3>2. {i \in 1 .. n : Rank(T, i) = k} = starts[k] .. n
      <4>1. \A i \in 1 .. n : Rank(T, i) = k <=> starts[k] <= i
        BY <1>1, <2>2, <2>3, <2>4
      <4> QED
        BY <1>1, <2>2, <4>1
    <3>3. starts[k] <= n /\ n \in 1 .. n
      BY <1>1, <2>2
    <3> QED
      BY <2>1, <2>2, <3>1, <3>2, <3>3
  <2>5. CASE k # last
    <3> DEFINE next == starts[k + 1]
    <3>1. k + 1 \in 1 .. last /\ end(k) = next - 1
      BY <1>1, <1>2, <2>5
    <3>2. next \in 1 .. n /\ next \in T /\ Rank(T, next) = k + 1
      BY <1>1, <1>2, <3>1
    <3> HIDE DEF next
    <3>3. ASSUME NEW i \in 1 .. n
          PROVE  Rank(T, i) < k + 1 <=> i < next
      BY <1>1, <3>2, RankOrders
    <3>4. starts[k] < next
      BY <2>2, <3>3
    <3>5. {i \in 1 .. n : Rank(T, i) = k} = starts[k] .. next - 1
      <4>1. \A i \in 1 .. n : Rank(T, i) = k <=> starts[k] <= i /\ i < next
        BY <1>1, <2>2, <2>3, <3>2, <3>3
      <4>2. \A i \in starts[k] .. next - 1 : i \in 1 .. n /\ i < next
        BY <1>1, <2>2, <3>2
      <4> QED
        BY <1>1, <2>2, <3>2, <4>1, <4>2
    <3>6. starts[k] <= next - 1 /\ next - 1 \in 1 .. n
      BY <1>1, <2>2, <3>2, <3>4
    <3> QED
      BY <2>1, <2>2, <3>1, <3>5, <3>6
  <2> QED
    BY <2>4, <2>5
<1> HIDE DEF end
<1>5. ASSUME NEW k \in 1 .. last
      PROVE  AtCarets(payload)[k] = WireField(payload, k - 1)
  <2> DEFINE a == starts[k]
             b == end(k)
             w == Ascending(OnTheWire(payload, k - 1))
  <2>1. a \in Nat \ {0} /\ b \in Nat /\ a <= b
    BY <1>1, <1>4
  <2>2. w = [m \in 1 .. b - a + 1 |-> a + m - 1]
    BY <1>4, <2>1, AscendingInterval
  <2>3. AtCarets(payload)[k] = [j \in 1 .. b - a + 1 |-> payload[a + j - 1].atom]
    BY <1>3
  <2>4. WireField(payload, k - 1) = [m \in DOMAIN w |-> payload[w[m]].atom]
    BY DEF WireField
  <2> HIDE DEF a, b, w
  <2>5. [m \in DOMAIN w |-> payload[w[m]].atom]
           = [j \in 1 .. b - a + 1 |-> payload[a + j - 1].atom]
    BY <2>2
  <2> QED
    BY <2>3, <2>4, <2>5
<1>6. Len(AtCarets(payload)) = last
  BY <1>1, <1>3
<1> QED
  BY <1>1, <1>5, <1>6 DEF last

\* Split at its bars, a payload has a field for every piece that is filled.
LEMMA FieldsAtBars ==
    ASSUME NEW payload, IsPayload(payload)
    PROVE  Len(AtBars(payload))
              = Cardinality({i \in DOMAIN payload : payload[i].atom # Empty})
<1> DEFINE T == {i \in DOMAIN payload : payload[i].atom # Empty}
<1>1. Len(payload) \in Nat /\ T \in SUBSET (1 .. Len(payload))
  BY StartsAreCarets
<1> HIDE DEF T
<1>2. Cardinality(T) \in Nat /\ DOMAIN Ascending(T) = 1 .. Cardinality(T)
  BY <1>1, AscendingShape
<1>3. AtBars(payload) = [k \in 1 .. Cardinality(T) |-> <<payload[Ascending(T)[k]].atom>>]
  BY <1>2 DEF AtBars, T
<1> QED
  BY <1>2, <1>3 DEF T

\* Payloads stay payloads, whichever piece comes next.
LEMMA PayloadsStay == Spec => [](kind = "payload" => IsPayload(input))
<1> DEFINE Q == kind = "payload" => IsPayload(input)
<1>1. Init => Q
  <2> SUFFICES ASSUME NEW s \in {Bar, Caret}, NEW a \in {Empty, "f1"},
                      input = <<[sep |-> s, atom |-> a]>>
               PROVE  IsPayload(input)
    BY DEF Init
  <2>1. [sep |-> s, atom |-> a] \in Pieces
    BY DEF Pieces
  <2> HIDE DEF Pieces
  <2> QED
    BY <2>1 DEF IsPayload
<1>2. Q /\ [Next]_vars => Q'
  <2> SUFFICES ASSUME Q, [Next]_vars, kind' = "payload"
               PROVE  IsPayload(input')
    OBVIOUS
  <2>1. CASE MorePayload
    <3>1. PICK s \in {Bar, Caret}, a \in {Empty} \cup Atoms(Len(input) + 1) :
             input' = Append(input, [sep |-> s, atom |-> a])
      BY <2>1 DEF MorePayload
    <3>2. input \in Seq(Pieces) /\ Len(input) + 1 \in Nat
      BY <2>1, LenProperties DEF MorePayload, IsPayload
    <3>3. [sep |-> s, atom |-> a] \in Pieces
      BY <3>2 DEF Pieces
    <3> HIDE DEF Pieces
    <3> QED
      BY <3>1, <3>2, <3>3, AppendProperties DEF IsPayload
  <2>2. CASE UNCHANGED vars
    BY <2>2 DEF vars
  <2> QED
    BY <2>1, <2>2 DEF Next, MoreBytes
<1> QED
  BY <1>1, <1>2, PTL DEF Spec

\* However long a payload is and whichever of its fields are empty or hold a
\* '|', each field of an execution comes from its place on the wire.
THEOREM ExecutionsStayExact == Spec => []ExecutionsAreExact
<1>1. ASSUME kind = "payload", IsPayload(input) PROVE ExecutionsAreExact
  <2> DEFINE e == Notice(input)
             fields == splitFields(input)
             carets == Cardinality(Carets(input))
  <2>1. e = parseExecution(fields)
    BY DEF Notice, parseRealtime, EventOf, IsExecution, Empty
  <2>2. /\ e # NoExecution <=> Len(fields) = 14
        /\ e # NoExecution =>
              /\ \A f \in DOMAIN idx \ {"Side"} : e[f] = Field(fields, idx[f])
              /\ e.Side = parseSide(Field(fields, idx.Side))
    <3>1. CASE Len(fields) = 14
      <4>1. e = [f \in DOMAIN idx |->
                    IF f = "Side" THEN parseSide(Field(fields, idx.Side))
                    ELSE Field(fields, idx[f])]
        BY <2>1, <3>1 DEF parseExecution, WellShaped, ExecutionFieldCount
      <4>2. "Side" \in DOMAIN idx /\ "Qty" \in DOMAIN idx
        BY DEF idx
      <4>3. e # NoExecution
        BY <4>1, <4>2 DEF NoExecution
      <4> QED
        BY <3>1, <4>1, <4>2, <4>3
    <3>2. CASE Len(fields) # 14
      BY <2>1, <3>2 DEF parseExecution, WellShaped, ExecutionFieldCount
    <3> QED
      BY <3>1, <3>2
  <2>3. CASE Carets(input) # {}
    <3>1. fields = AtCarets(input)
      BY <2>3 DEF splitFields, Carets
    <3>2. /\ carets \in Nat /\ Len(fields) = carets + 1
          /\ \A k \in 1 .. carets + 1 : fields[k] = WireField(input, k - 1)
      BY <1>1, <3>1, FieldsAtCarets
    <3>3. ASSUME Len(fields) = 14, NEW i \in 0 .. 13
          PROVE  Field(fields, i) = WireField(input, i)
      <4> HIDE DEF fields, carets
      <4>1. carets \in Nat /\ carets + 1 = 14
        BY <3>2, <3>3
      <4>2. i \in Int /\ (i + 1) - 1 = i /\ i < Len(fields)
        BY <3>3
      <4>3. i + 1 \in 1 .. carets + 1
        BY <4>1
      <4>4. fields[i + 1] = WireField(input, i)
        BY <3>2, <4>2, <4>3
      <4> QED
        BY <4>2, <4>4 DEF Field
    <3>4. \A f \in DOMAIN idx : idx[f] \in 0 .. 13
      BY DEF idx
    <3> HIDE DEF e, fields, carets
    <3>5. "Side" \in DOMAIN idx
      BY DEF idx
    <3> QED
      BY <2>2, <2>3, <3>2, <3>3, <3>4, <3>5 DEF ExecutionsAreExact, e, carets
  <2>4. CASE Carets(input) = {}
    <3>1. fields = AtBars(input)
      BY <2>4 DEF splitFields, Carets
    <3>2. Len(fields) = Cardinality({i \in DOMAIN input : input[i].atom # Empty})
      BY <1>1, <3>1, FieldsAtBars
    <3> HIDE DEF fields
    <3> QED
      BY <2>2, <2>4, <3>2 DEF ExecutionsAreExact
  <2> QED
    BY <2>3, <2>4
<1>2. (kind = "payload" => IsPayload(input)) => ExecutionsAreExact
  BY <1>1 DEF ExecutionsAreExact
<1> QED
  BY <1>2, PayloadsStay, PTL

=============================================================================
