SPECIFICATION Spec
CONSTANTS
    Tomb = Tomb
    Absent = Absent
    None = None
    s1 = s1
    s2 = s2
    Sessions <- MCSessions
    Early <- MCEarly
    Permissions <- MCPermissions
    Labels <- MCLabels
    Configs <- MCConfigs
    Texts <- MCTexts
    Cells <- MCCells
    Timestamps <- MCTimestamps
    Queries <- MCQueries
    Retention <- MCRetention
    ByteBase = 16
    MaxKeyLen = 14
CHECK_DEADLOCK FALSE
INVARIANTS
    TypeOK
    VisibilityMeaning
    ReadsExact
    
    Mediated
    CommittedReadsCurrent
