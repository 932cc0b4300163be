SPECIFICATION FairSpecDdl
CONSTANTS
    Writer = {w1, w2}
    Snap = {s1}
    Key = {k1, k2}
    MaxSeqno = 3
INVARIANT
    TypeOK
PROPERTY
    OperationsReturn
