SPECIFICATION Spec
CONSTANTS
    main = main
    t1 = t1
    t2 = t2
    Threads = {main, t1, t2}
    MainThread = main
    MaxSwitches = 3
CHECK_DEADLOCK FALSE
INVARIANTS
    ResumesWhereItStopped
