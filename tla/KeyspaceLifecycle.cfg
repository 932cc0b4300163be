CONSTANTS
    LenWidth = 3
    Threads = {t1, t2}
    Names = {a, b}
    Options <- MCOptions
    Encode <- EncodeKvs
    Decode <- FromKvs
    TreeOf <- TreeConfig
    MaxKeyspaces = 2
    MaxStops = 3
    MaxFailures = 1
SPECIFICATION Spec
INVARIANTS TypeOK MetaMatchesDictionary DataKept OwnId OptionsSurvive  
SYMMETRY Symmetry
CHECK_DEADLOCK FALSE
