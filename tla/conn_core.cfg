SPECIFICATION Spec
CONSTANTS
    c1 = c1  c2 = c2  A = A  B = B  T = T  U = U
    Callers <- TwoCallers
    Streams <- TwoStreams
    TrOf <- SameTr
    Calls <- Shared
    Impatient = {c1}
    Verdicts <- AllVerdicts
    BlankAcks = TRUE
    Closes = TRUE
    MaxOps = 2
    MaxFaults = 1
    Closer = Closer
    Nil = Nil
INVARIANTS
    TypeOK
    WaitersAreKnown
    SubsAreSound
PROPERTIES
    OrderKept
CHECK_DEADLOCK FALSE
