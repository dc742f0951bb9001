SPECIFICATION Spec
CONSTANTS
    NUM_ROWS = 2
    NUM_COLS = 2
    SavedRows = 2
    SavedTail = 1
    Text = {"x", " "}
    Colors = 3
    FirstFont = 2
    WORD = 64
    Scrolls <- MCScrolls
    MaxRow = 3
INVARIANT
    KernelImageKept
