------------------------------- MODULE MCConn -------------------------------
(* Instances of Conn for TLC.                                              *)
EXTENDS Conn

CONSTANTS c1, c2, A, B, T, U

TwoCallers == {c1, c2}
OneCaller == {c1}
TwoStreams == {A, B}

\* Two keys of one transaction, as in two issue codes of one quote feed.
SameTr == [s \in TwoStreams |-> T]
\* One transaction per stream.
OwnTr == [s \in TwoStreams |-> IF s = A THEN T ELSE U]

\* c1 uses both streams, c2 shares the second.
Shared == {<<c1, "sub", A>>, <<c1, "unsub", A>>, <<c1, "sub", B>>,
           <<c2, "sub", B>>, <<c2, "unsub", B>>}
\* c1 subscribes to both streams, c2 to one of them as well.
OnlySub == {<<c1, "sub", A>>, <<c1, "sub", B>>, <<c2, "sub", B>>}

\* One subscription, for the runs that check liveness.
OneSub == {<<c1, "sub", A>>}

Usable == {"ok", "refused"}
AllVerdicts == {"ok", "refused", "occupied", "rejected"}
=============================================================================
