SPECIFICATION Spec
CONSTANTS
    ByteBits = 4
    bytes = 2
    MaxCnt = 4
    Bios <- BiosSmall
    WordSize = 256
    HexDigits = 2
    Formats <- FormatsAll
    Texts <- TextsAll
    Tss <- TssAddress
    Buffers = {"zero", "junk"}
CHECK_DEADLOCK FALSE
INVARIANTS
    ScanSound
    PoolsSound
    FewPagesLost
    OutputRight
    EntryInv
    SegmentsInv
