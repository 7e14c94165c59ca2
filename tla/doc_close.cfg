SPECIFICATION Spec
CONSTANTS
    Callers = {consumer}
    Consumer = consumer
    Bounded = {consumer}
    Reader = reader
    Closer = closer
    Nobody = Nobody
    Capacity = 1
    Active = 1
    StallsEnd = FALSE
    MaxCalls = 1
    MaxMessages = 2
    MaxFaults = 1
PROPERTIES CloseReturns
CHECK_DEADLOCK FALSE
