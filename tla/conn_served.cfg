SPECIFICATION Spec
CONSTANTS
    c1 = c1  c2 = c2  A = A  B = B  T = T  U = U
    Callers <- TwoCallers
    Streams <- TwoStreams
    TrOf <- OwnTr
    Calls <- OnlySub
    Impatient = {}
    Verdicts <- Usable
    BlankAcks = FALSE
    Closes = FALSE
    MaxOps = 2
    MaxFaults = 2
    Closer = Closer
    Nil = Nil
INVARIANTS
    RegisteredIsServed

    
CHECK_DEADLOCK FALSE
