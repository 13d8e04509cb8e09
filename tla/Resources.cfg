CONSTANTS
    c1 = c1
    c2 = c2
    c3 = c3
    c4 = c4
    c5 = c5
    k1 = k1
    k2 = k2
    None = None
    Clients = {c1, c2, c3, c4, c5}
    Keys = {k1, k2}
    KeyOf <- Asked
    Slots = 2
    WaitCapacity = 2
    MaxClips = 1
    MaxLocks = 1
    Tx = {t1, t2, t3, t4}
    NoTx = NoTx
    Limit = 2
    LastDay = 1
SPECIFICATION ResourcesSpec
INVARIANTS
    OnlyWholeClips
    NoDoubleWork
    QuotaHolds
PROPERTIES
    SentAwayOnlyWhenFull
    PruningSparesOwn
    EveryClipRequestEnds
    EveryCallEnds
CHECK_DEADLOCK FALSE
