SPECIFICATION KbdSpec
CONSTANTS
    reader = reader
    NULL = NULL
    Tasks = {reader}
    Role <- MCRole
    bufsize = 3
    Char <- MCChar
    Keys <- MCKeys
    MaxPort = 2
INVARIANTS
    KeyboardInv
    ModifiersAgree
PROPERTIES
    OldestIsRead
