------------------------------ MODULE MCRunLoop ------------------------------
(* Instances of RunLoop for TLC.                                           *)
EXTENDS RunLoop

Config(min, max, factor, jitter) ==
    [min |-> min, max |-> max, factor |-> factor, jitter |-> jitter]

\* 500 ms, 30 s, 2, 0.2, in units of 100 ms and tenths.
Documented == Config(5, 300, 2, 2)

\* Nothing given; every value odd in one way; a Max below Min; all jitter.
Various == {Config(0, 0, 0, 0), Config(-1, 0, -3, -1), Config(10, 4, 3, 5),
            Config(1, 50, 1, 40), Config(2, 7, 3, 10)}
=============================================================================
