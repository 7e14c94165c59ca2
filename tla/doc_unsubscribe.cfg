SPECIFICATION HistorySpec
CONSTANTS
    c1 = c1  c2 = c2  A = A  B = B  T = T  U = U
    Callers = {c1}
    Streams <- TwoStreams
    TrOf <- OwnTr
    Calls <- CallsOne
    Impatient = {}
    Verdicts = {"ok"}
    BlankAcks = FALSE
    Closes = FALSE
    MaxOps = 2
    MaxFaults = 1
    Closer = Closer
    Nil = Nil
INVARIANT UnsubscribeStays
CHECK_DEADLOCK FALSE
