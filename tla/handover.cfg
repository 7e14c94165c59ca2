SPECIFICATION Spec
CONSTANTS
    Processes = {old, new, third}
    Nobody = Nobody
    MaxLosses = 3
INVARIANTS NobodyRefused SomebodyGoesOn
PROPERTIES  KeyIsUsed
CHECK_DEADLOCK FALSE
