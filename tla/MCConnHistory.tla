--------------------------- MODULE MCConnHistory ----------------------------
(* Instances of ConnHistory for TLC.                                       *)
EXTENDS ConnHistory

CONSTANTS c1, c2, A, B, T, U

TwoStreams == {A, B}
SameTr == [s \in TwoStreams |-> T]
OwnTr == [s \in TwoStreams |-> IF s = A THEN T ELSE U]
CallsOne == {c1} \X {"sub", "unsub"} \X {A, B}
CallsTwo == {<<c1, "sub", A>>, <<c2, "sub", B>>}
=============================================================================
