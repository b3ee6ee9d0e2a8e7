SPECIFICATION FairSpec
CONSTANTS
    main = main
    t1 = t1
    t2 = t2
    mem_lock = mem_lock
    console_lock = console_lock
    NULL = NULL
    Threads = {main, t1, t2}
    MainThread = main
    Locks = {mem_lock, console_lock}
    PriorityArg <- MCPriority
    MaxRepeat = 2
INVARIANTS
    MutualExclusion
    NoPanic
    SchedulerInv
    LockInv
PROPERTIES
    LockRefinement
    NoStarvation
    FreeLockIsTaken
