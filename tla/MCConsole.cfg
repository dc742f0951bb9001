SPECIFICATION Spec
CONSTANTS
    TypedSize = 3
    LineLimit = 1
    ReadCnt = 2
    Printable = {"l", "L"}
    LetterL = "l"
    CharKeys <- MCCharKeys
    chars <- MCchars
    shift_chars <- MCshift_chars
    Ctrls = {"lctrl"}
    Shifts = {"lshift"}
    NUM_ROWS = 2
    NUM_COLS = 4
    SavedRows = 8
    SavedTail = 0
    Text = {"l", "L", ">", "="}
    Colors = 1
    FirstFont = 0
    WORD = 64
    Scrolls <- MCScrolls
    MaxRow = 3
    Prompt <- MCPrompt
    Label <- MCLabel
INVARIANTS
    OutputUnbroken
    LineOnScreen
    EraseStaysInRow
