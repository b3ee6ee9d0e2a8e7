SPECIFICATION ScanSpec
CONSTANTS
    Layouts <- Regular
    channel_cnt = 2
    TableSize = 4
    MaxPrimary = 4
    MaxLogic = 8
CHECK_DEADLOCK FALSE
INVARIANTS
    AllPartitionsFound
    ScanInv
PROPERTIES
    ScanEnds
