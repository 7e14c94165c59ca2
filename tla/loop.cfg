SPECIFICATION Spec
CONSTANTS
    Parts = 10
    Grain = 4
    Defaults <- Documented
    Settings <- Various
    MaxKeys = 4
    MaxAttempts = 4
    NoKey = NoKey
INVARIANTS ReissuedOnce  OccupiedNeverChurns 
CHECK_DEADLOCK FALSE
