SPECIFICATION FairSpec
CONSTANTS
    Keyspaces = {a, b}
    Droppable = {a}
    Users = {u1}
    PoolSize = 2
    QueueCap = 3
    MemtableLimit = 0
    SealedLimit = 1
    L0Halt = 1
    L0Trigger = 1
    JournalLimit = 1
    MaxJournals = 1
    MaxWrites = 2
    MaxRestored = 1
    MaxDrops = 1
    MaxFailures = 1
CHECK_DEADLOCK FALSE
INVARIANTS
    TypeOK
    FlushScheduled
    BufferCovers
PROPERTIES
    WritesReturn
    OldestEvicted
    CloseEnds
