-------------------------------- MODULE Frames --------------------------------
(***************************************************************************)
(* What one message of the realtime socket means: frame.go splits it,      *)
(* crypto.go turns an ACK's material into keys and a payload into its      *)
(* plaintext, execution.go reads the record of an execution notice.        *)
(*                                                                         *)
(* Text is cut where the code cuts it.  A payload is a sequence of pieces, *)
(* each with the separator in front of it (the first has none that counts) *)
(* and an atom, the text up to the next separator; a field is the sequence *)
(* of atoms between two separators that were split at.  A key or IV is its *)
(* length and what it decodes to, a block of plaintext its bytes.          *)
(***************************************************************************)
EXTENDS Naturals, Sequences, FiniteSets

Empty == ""
Bar == "|"
Caret == "^"

-----------------------------------------------------------------------------
(* frame.go                                                                *)

NoFrame == [tr |-> Empty]

\* A raw message: whether it begins with '{', its parts up to the third '|',
\* and the payload behind that, if there is one.
parseRealtime(raw) ==
    LET parts == raw.parts
    IN  IF /\ ~raw.brace /\ Len(parts) = 4
           /\ parts[1] \in {"0", "1"}
           /\ parts[2] # Empty /\ parts[3] \in Nat
        THEN [encrypted |-> parts[1] = "1", tr |-> parts[2],
              count |-> parts[3], payload |-> parts[4]]
        ELSE NoFrame

\* The numbers of a finite set in their order.
Ascending(T) ==
    [k \in 1 .. Cardinality(T) |->
        CHOOSE i \in T : Cardinality({j \in T : j <= i}) = k]

\* The places where a field begins when the payload is split at '^'.
FieldStarts(payload) ==
    Ascending({i \in DOMAIN payload : i = 1 \/ payload[i].sep = Caret})

AtCarets(payload) ==
    LET starts == FieldStarts(payload)
        end(k) == IF k = Len(starts) THEN Len(payload) ELSE starts[k + 1] - 1
    IN  [k \in DOMAIN starts |->
            [j \in 1 .. end(k) - starts[k] + 1 |->
                payload[starts[k] + j - 1].atom]]

AtBars(payload) ==
    LET filled == Ascending({i \in DOMAIN payload : payload[i].atom # Empty})
    IN  [k \in DOMAIN filled |-> <<payload[filled[k]].atom>>]

\* Mutant: empty segments are dropped whatever the separator.
SplitDropping(payload) ==
    IF \E i \in 2 .. Len(payload) : payload[i].sep = Caret
    THEN SelectSeq(AtCarets(payload), LAMBDA f : f # <<Empty>>)
    ELSE AtBars(payload)

splitFields(payload) ==
    IF \E i \in 2 .. Len(payload) : payload[i].sep = Caret
    THEN AtCarets(payload) ELSE AtBars(payload)

\* Indices count from 0, as in the code.
Field(fields, index) ==
    IF index < Len(fields) THEN fields[index + 1] ELSE <<Empty>>

-----------------------------------------------------------------------------
(* execution.go                                                            *)

ExecutionFieldCount == 14
idx == [OrderNo |-> 2, Side |-> 4, Symbol |-> 8, Qty |-> 9, Price |-> 10,
        FilledAt |-> 11, Filled |-> 13]

parseSide(code) ==
    CASE code \in {<<"01">>, <<"1">>, <<"S">>} -> "sell"
      [] code \in {<<"02">>, <<"2">>, <<"B">>} -> "buy"
      [] OTHER -> "unknown"

WellShaped(fields) == Len(fields) = ExecutionFieldCount

NoExecution == [Side |-> "none"]

parseExecution(fields) ==
    IF ~WellShaped(fields) THEN NoExecution
    ELSE [f \in DOMAIN idx |->
             IF f = "Side" THEN parseSide(Field(fields, idx.Side))
             ELSE Field(fields, idx[f])]

IsExecution(tr) == tr \in {"H0STCNI0", "H0STCNI9"}

\* publish, once the payload is readable.
EventOf(frame) ==
    LET fields == splitFields(frame.payload)
    IN  [TR |-> frame.tr, Key |-> Field(fields, 0), Fields |-> fields,
         Execution |-> IF IsExecution(frame.tr) THEN parseExecution(fields)
                       ELSE NoExecution]

-----------------------------------------------------------------------------
(* crypto.go: material.  A field of an ACK is the number of its bytes and  *)
(* the number it decodes to as strict base64, or Undecodable.              *)

BlockSize == 16                      \* of AES
Undecodable == 999
KeyLengths == {16, 24, 32}
IvLengths == {16}
NoMaterial == [read |-> "none", length |-> 0]

\* Mutant: what decodes is taken without looking at its length.
DecodedAnyhow(raw, want) ==
    IF raw.bytes \in want THEN [read |-> "literal", length |-> raw.bytes]
    ELSE IF raw.decoded # Undecodable
         THEN [read |-> "decoded", length |-> raw.decoded] ELSE NoMaterial

decodeMaterial(raw, want) ==
    IF raw.bytes \in want THEN [read |-> "literal", length |-> raw.bytes]
    ELSE IF raw.decoded \in want
         THEN [read |-> "decoded", length |-> raw.decoded] ELSE NoMaterial

newMaterial(rawKey, rawIV) ==
    LET key == decodeMaterial(rawKey, KeyLengths)
        iv == decodeMaterial(rawIV, IvLengths)
    IN  IF NoMaterial \in {key, iv} THEN NoMaterial
        ELSE [read |-> "pair", key |-> key, iv |-> iv]

-----------------------------------------------------------------------------
(* crypto.go: plaintext.                                                   *)

Rejected == <<256>>                  \* not a byte

\* Mutant: padding of no bytes is taken for none.
ZeroPadded(data, padLen, blockSize) ==
    /\ padLen <= blockSize /\ padLen <= Len(data)
    /\ \A i \in Len(data) - padLen + 1 .. Len(data) : data[i] = padLen

Padded(data, padLen, blockSize) ==
    /\ padLen # 0 /\ padLen <= blockSize /\ padLen <= Len(data)
    /\ \A i \in Len(data) - padLen + 1 .. Len(data) : data[i] = padLen

unpadPKCS7(data, blockSize) ==
    IF Len(data) = 0 \/ Len(data) % blockSize # 0 THEN Rejected
    ELSE LET padLen == data[Len(data)]
         IN  IF Padded(data, padLen, blockSize)
             THEN SubSeq(data, 1, Len(data) - padLen) ELSE Rejected

\* A payload is whether it is base64 and what CBC makes of it with the
\* material of its transaction; it is as long as that.
decrypt(payload, blockSize) ==
    IF payload.base64 THEN unpadPKCS7(payload.plain, blockSize) ELSE Rejected

\* What the server does to a payload before it encrypts it.
PadPKCS7(text, blockSize) ==
    LET padLen == blockSize - (Len(text) % blockSize)
    IN  text \o [i \in 1 .. padLen |-> padLen]

=============================================================================
