SPECIFICATION Spec
CONSTANTS
    Rows = 3
    Cols = 2
    Limit = 8
    Strings <- MCStrings
    Keys = {"k", "BS"}
    color = 15
    IfOn = FALSE
CHECK_DEADLOCK FALSE
INVARIANTS
    CursorOnScreen
PROPERTIES
    TerminalRefinement
