------------------------------- MODULE Backoff -------------------------------
(***************************************************************************)
(* The pacing of reconnects: backoff.go.  Durations are whole units and    *)
(* Factor a whole number; Jitter counts Parts of the delay.  The random    *)
(* float in [0, 1) is r of Grain, for any r below Grain.  The code takes   *)
(* the power in floating point, where it cannot wrap.                      *)
(***************************************************************************)
EXTENDS Integers

CONSTANTS
    Parts,        \* Jitter = Parts is the whole delay
    Grain,        \* the resolution of the random float
    Defaults      \* the values of a BackoffConfig left at zero

Configs == [min : Int, max : Int, factor : Int, jitter : Int]

ASSUME BackoffAssumption ==
    /\ Parts \in Nat \ {0} /\ Grain \in Nat \ {0}
    /\ Defaults \in Configs
    /\ Defaults.min > 0 /\ Defaults.max >= Defaults.min
    /\ Defaults.factor >= 1 /\ Defaults.jitter \in 1 .. Parts

\* BackoffConfig.normalized.  A negative Jitter is kept: it means none.
Normalized(b) ==
    LET min == IF b.min <= 0 THEN Defaults.min ELSE b.min
        max == IF b.max <= 0 THEN Defaults.max ELSE b.max
        jitter == IF b.jitter = 0 THEN Defaults.jitter ELSE b.jitter
    IN [min |-> min,
        max |-> IF max < min THEN min ELSE max,
        factor |-> IF b.factor < 1 THEN Defaults.factor ELSE b.factor,
        jitter |-> IF jitter > Parts THEN Parts ELSE jitter]

\* The growth, which the cap at Max follows.
Grown(b, attempt) ==
    b.min * b.factor ^ (IF attempt < 1 THEN 0 ELSE attempt - 1)

Capped(b, d) == IF d > b.max THEN b.max ELSE d

\* What the jitter takes off; the result is truncated to a Duration.
Shaken(b, d, r) ==
    IF b.jitter > 0 THEN (d * (Parts * Grain - b.jitter * r)) \div (Parts * Grain)
                    ELSE d

\* Mutant: the floor under the jitter is lost.
Unfloored(b, d) == d

Floored(b, d) == IF d < b.min THEN b.min ELSE d

\* BackoffConfig.delay for one value of the random float, and for any.
Delay(b, attempt, r) == Floored(b, Shaken(b, Capped(b, Grown(b, attempt)), r))
Delays(b, attempt) == {Delay(b, attempt, r) : r \in 0 .. Grain - 1}
=============================================================================
