SPECIFICATION FairSpec
CONSTANTS
    Nonce = {n1, n2, n3}
    FirstSeqno = 1
    MaxSeqno = 3
    GcPeriod = 2
INVARIANTS
    TypeOK
    CountMatches
    WatermarkBelowOpen
PROPERTIES
    WatermarkNeverFalls
    WatermarkAdvances
