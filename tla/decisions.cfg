SPECIFICATION Spec
CONSTANTS
    MaxPieces = 16
    MaxOdd = 3
    MaxBytes = 6
    Blocks = {1, 2, 3}
    Optional = {"OVRS_EXCG_CD", "SORT_SQN", "PDNO", "INQR_DVSN",
                "CTX_AREA_NK"}
INVARIANTS
     CipherTakesIt PaddingRoundTrips QueriesAreRight
    SuccessIsGenuine ClientsAreSound 
CHECK_DEADLOCK FALSE
