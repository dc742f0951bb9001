SPECIFICATION Spec
CONSTANTS
    NUM_ROWS = 2
    NUM_COLS = 3
    SavedRows = 6
    SavedTail = 1
    Text = {"x", " "}
    Colors = 3
    FirstFont = 2
    WORD = 64
    Scrolls <- MCScrolls
    MaxRow = 3
INVARIANTS
    Mirror
    HardwareCursor
    BlankAhead
PROPERTIES
    TextKept
    ImplementsViewport
