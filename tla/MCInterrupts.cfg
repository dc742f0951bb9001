SPECIFICATION FairSpec
CONSTANTS
    MaxDepth = 3
    Dirs = 4
    Pages = 8
    DirPage = 1
    TablePage = 2
    VideoPage = 4
    SavedPage = 6
INVARIANTS
    InterruptsReady
    HandlersExclusive
    InServiceMatches
    DeviceHeard
    KernelMapped
PROPERTY
    KeyServed
