SPECIFICATION FairSpec
CONSTANTS
    Counts <- MCCounts
    MaxAlarms = 1
INVARIANTS
    NoCrossWrite
    RateWritten
PROPERTIES
    ReadSawTick
    WriteAcked
    ReadReturns
    WriteReturns
CHECK_DEADLOCK FALSE
