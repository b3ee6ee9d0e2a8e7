SPECIFICATION Spec
CONSTANTS
    p1 = p1
    p2 = p2
    k1 = k1
    k2 = k2
    kernel = kernel
    NULL = NULL
    ByteBits = 3
    Procs = {p1, p2}
    KThreads = {k1, k2}
    KernelBytes = 1
    UserBytes = 1
    VaddrBytes = 1
    TablePages = 2
    KernelReq = {1}
    TlbPages = {0}
    UserReq = {2}
CHECK_DEADLOCK FALSE
CONSTRAINT BeforeCollision
SYMMETRY Interchangeable
INVARIANTS
    PagesInv
    LockOutlivesOnlyFailure
