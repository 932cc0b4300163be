SPECIFICATION Spec
CONSTANTS
    Tx = {t1, t2, t3}
    Key = {1, 2}
    Workloads <- ThreeTxOrRanges
    MaxSeqno = 3
    MaxKeys = 1
SYMMETRY TxSymmetry
INVARIANTS
    NoSpuriousConflict
    ReadsCurrentAtCommit
    Serializable
CHECK_DEADLOCK FALSE
