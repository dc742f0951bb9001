SPECIFICATION PanicSpec
CONSTANTS
    NUM_ROWS = 3
    NUM_COLS = 4
    SavedRows = 12
    SavedTail = 0
    Text = {"a"}
    Colors = 2
    FirstFont = 1
    WORD = 64
    Scrolls <- MCScrolls
    MaxRow = 4
    HexWidth = 2
    Banner <- MCBanner
    FirstRow = 1
    MessageRow = 0
    MessageCol = 0
    Messages <- MCMessages
    FaultFormat <- MCFault
    MaxOps = 6
INVARIANT
    NumbersRead
PROPERTY
    PanicVisible
