SPECIFICATION Spec
CONSTANTS
    NumCells = 6
    NumSlots = 5
    WORD = 65536
    Columns = 2
    Offset = 1
    FrameLength = 2
    Texts0 <- MCTexts0
    Texts1 <- MCTexts1
    Extra <- MCExtra
    Locations <- MCLocations
    MaxCalls = 2
INVARIANTS
    PoolSound
    FramesListed
PROPERTY
    ImplementsBlinkers
CHECK_DEADLOCK FALSE
