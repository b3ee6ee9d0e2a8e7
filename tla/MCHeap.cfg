SPECIFICATION Spec
CONSTANTS
    PG_SIZE = 64
    ArenaSize = 12
    MinBlock = 16
    DESC_CNT = 2
    NPages = 3
    Sizes = {16, 17, 52, 53}
INVARIANTS
    HeapInv
    AllComesBack
CHECK_DEADLOCK FALSE
