SPECIFICATION FairSpec
CONSTANTS
    MaxWrites = 3
    MaxItems = 2
    MaxFiles = 2
    MaxCrashes = 2
    MaxFailures = 1
CHECK_DEADLOCK FALSE
INVARIANTS
    ReadsWholeBatches
    
    TailTolerated
PROPERTY
    RecoveryEnds
