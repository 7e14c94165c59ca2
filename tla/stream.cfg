SPECIFICATION Spec
CONSTANTS
    a = a
    b = b
    Trs = {a, b}
    Buffer = 1
    MaxSent = 2
    MaxAsks = 2
    MaxSessions = 2
    MaxWire = 2
    None = None
    Unusable = Unusable
    Plain = Plain
    Damaged = Damaged
INVARIANTS EveryMessageAccounted NoGarbage
PROPERTIES KnownStreamsDecrypt FifoSpec
CHECK_DEADLOCK FALSE
