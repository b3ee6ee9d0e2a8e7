SPECIFICATION Spec
CONSTANTS
    p1 = p1
    p2 = p2
    c1 = c1
    c2 = c2
    a = a
    b = b
    NULL = NULL
    Tasks = {p1, p2, c1, c2}
    Role <- MCRole
    bufsize = 3
    Char = {a, b}
CHECK_DEADLOCK FALSE
INVARIANTS
    QueueInv
PROPERTIES
    FifoRefinement
