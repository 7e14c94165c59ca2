SPECIFICATION Spec
CONSTANTS
    c1 = c1  c2 = c2  c3 = c3
    Callers <- TwoCallers
    Impatient = {c1}
    Interval = 2
    Timeout = 2
    Margin = 4
    Lives = {2, 6}
    MaxNow = 6
    Nil = Nil
INVARIANTS SlotsApart RateBound TokenMuIsReleased
PROPERTIES NoExpiredTokenSent TokensAreKept
CHECK_DEADLOCK FALSE
