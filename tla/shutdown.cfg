SPECIFICATION Spec
CONSTANTS
    Callers = {user, consumer}
    Consumer = consumer
    Bounded = {consumer}
    Reader = reader
    Closer = closer
    Nobody = Nobody
    Capacity = 1
    Active = 1
    StallsEnd = TRUE
    MaxCalls = 3
    MaxMessages = 3
    MaxFaults = 2
INVARIANTS TypeOK
PROPERTIES CloseReturns BoundedCallsReturn
CHECK_DEADLOCK FALSE
