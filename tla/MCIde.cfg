SPECIFICATION FairSpec
CONSTANTS
    t1 = t1
    t2 = t2
    NULL = NULL
    Tasks = {t1, t2}
    MaxOp = 2
    Counts <- MCCounts
    SectorSize = 4
    Channel = 0
    TickMod = 3
    Spurious = {39, 47}
    TimeLimit = 3
    MayHang = TRUE
    MayFlicker = TRUE
CHECK_DEADLOCK FALSE
INVARIANTS
    ChannelInv
PROPERTIES
    SleepEnds
    BusyWaitEnds
    SleepLongEnough
