----------------------------- MODULE EventFifo ------------------------------
(***************************************************************************)
(* What Events() promises its consumer (doc.go, "Ordering and              *)
(* backpressure"): a bounded queue that takes what is read in order and    *)
(* loses nothing while the connection is open.  Once it is closing, what   *)
(* is offered may be given up; when the queue has ended nothing is added   *)
(* and the rest can still be taken.                                        *)
(***************************************************************************)
EXTENDS Naturals, Sequences

CONSTANTS
    Events,
    Capacity           \* of the channel

VARIABLES
    queue,             \* offered and not yet taken
    phase              \* "open", "closing" or "ended"

vars == <<queue, phase>>

Init == queue = <<>> /\ phase = "open"

\* One event more than the channel holds may be in the reader's hand.
Offer ==
    /\ phase # "ended" /\ Len(queue) <= Capacity
    /\ \E e \in Events : queue' = Append(queue, e)
    /\ UNCHANGED phase

Take == queue # <<>> /\ queue' = Tail(queue) /\ UNCHANGED phase

GiveUp ==
    /\ phase = "closing" /\ queue # <<>>
    /\ queue' = SubSeq(queue, 1, Len(queue) - 1)
    /\ UNCHANGED phase

BeginClosing == phase = "open" /\ phase' = "closing" /\ UNCHANGED queue

\* The reader has put down what it held.
End ==
    /\ phase # "ended" /\ Len(queue) <= Capacity
    /\ phase' = "ended" /\ UNCHANGED queue

Next == Offer \/ Take \/ GiveUp \/ BeginClosing \/ End

Spec == Init /\ [][Next]_vars
=============================================================================
