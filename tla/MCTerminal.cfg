SPECIFICATION FairSpec
CONSTANTS
    TypedSize = 4
    LineLimit = 2
    ReadCnt = 3
    Printable = {"l", "L"}
    LetterL = "l"
    CharKeys <- MCCharKeys
    chars <- MCchars
    shift_chars <- MCshift_chars
    Ctrls = {"lctrl"}
    Shifts = {"lshift"}
INVARIANTS
    TypeOK
    CopyStops
    ScreenExclusion
    CtrlIsHeld
    ReadReturnsEcho
    OnlyRaceHangs
PROPERTIES
    LineStableWhileCopied
    ReadReturns
