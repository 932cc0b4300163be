CONSTANTS
    LenWidth = 3
    Threads = {t1}
    Names = {a, b}
    Options <- MCOptions
    Encode <- EncodeKvs
    Decode <- FromKvs
    TreeOf <- TreeConfig
    MaxKeyspaces = 3
    MaxStops = 3
    MaxFailures = 0
SPECIFICATION Spec
INVARIANTS DeletedDataGone
CHECK_DEADLOCK FALSE
