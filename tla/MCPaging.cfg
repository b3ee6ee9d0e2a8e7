SPECIFICATION Spec
CONSTANTS
    E = 4
    K = 1
    LowPages = 3
    KernelFrames = {10, 11, 12, 13, 14}
    UserFrames = {20, 21}
    MaxDirs = 2
    Dirty = FALSE
    NONE = NONE
CHECK_DEADLOCK FALSE
INVARIANTS
    KernelHalfShared
    PtePtrReachesThePte
    UserHalfPrivate
