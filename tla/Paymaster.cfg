CONSTANTS
    s1 = s1
    s2 = s2
    s3 = s3
    k1 = k1
    k2 = k2
    t1 = t1
    Senders = {s1, s2, s3}
    Self = Self
    Other = Other
    Keys = {k1, k2}
    NoKey = NoKey
    Targets = {t1}
    NoTarget = NoTarget
    Scale = 1
    StartTime = 2
    InitPeriod = 2
    InitMaxGas = 4
    InitThreshold = 3
    FirstVerifier = k1
    Scenes <- MCScenes
    Late = 7
    Fees = {1}
    InitUsers <- MCUsers
    MaxBundle = 2
    MaxOps = 3
    MaxChanges = 1
SPECIFICATION Spec
CHECK_DEADLOCK FALSE
INVARIANTS
    TypeOK
    LossExplained
    GasWindows
