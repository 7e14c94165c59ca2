SPECIFICATION FairSpec
CONSTANTS
    c1 = c1  c2 = c2  A = A  B = B  T = T  U = U
    Callers <- OneCaller
    Streams <- TwoStreams
    TrOf <- SameTr
    Calls <- OneSub
    Impatient = {}
    Verdicts <- AllVerdicts
    BlankAcks = FALSE
    Closes = TRUE
    MaxOps = 1
    MaxFaults = 2
    Closer = Closer
    Nil = Nil
INVARIANTS
    OneSession
    NothingLeftOpen
    CloseIsComplete
PROPERTIES
    EndReleasesAll
    Recovers
    ImplementsSession
    OccupiedIsFinal
CHECK_DEADLOCK FALSE
