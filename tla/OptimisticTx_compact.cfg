SPECIFICATION SpecCollect
CONSTANTS
    Tx = {t1, t2}
    Key = {1}
    Workloads <- TwoTx
    MaxSeqno = 3
    MaxKeys = 3
SYMMETRY TxSymmetry
INVARIANT
    Serializable
CHECK_DEADLOCK FALSE
