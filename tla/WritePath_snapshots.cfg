SPECIFICATION Spec
CONSTANTS
    Writer = {w1, w2}
    Snap = {s1, s2}
    Key = {k1, k2}
    MaxSeqno = 4
SYMMETRY WriterKeySymmetry
INVARIANTS
    SnapshotStable
    NothingHalfApplied
PROPERTY
    ImplementsSnapshotStore
