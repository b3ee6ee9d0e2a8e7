SPECIFICATION FairSpec
CONSTANTS
    NULL = NULL
    MaxTasks = 3
    Creators = {0, 1}
    Kinds = {"thread", "process"}
    Pages = 6
    ThreadsLater = FALSE
CHECK_DEADLOCK FALSE
INVARIANTS
    TasksInv
    PidsGrow
    OwnSpaceAndStack
PROPERTIES
    QueueRefinement
    NewTaskRuns
