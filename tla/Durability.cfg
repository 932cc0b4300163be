SPECIFICATION Spec
CONSTANTS
    Keyspace = {a, b}
    Worker = {w1, w2}
    MaxOps = 3
    MaxJournals = 3
    Workloads <- SyncedAndBulk
SYMMETRY KeyspaceSymmetry
CHECK_DEADLOCK FALSE
INVARIANTS
    RecoveredExactly
    NothingDurableLost
    RecoveryCompletes
    NewestWins
