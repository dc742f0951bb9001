SPECIFICATION Spec
CONSTANTS
    BUFSIZE = 3
    Patterns <- MCPatterns
    Directories <- MCDirectories
INVARIANTS
    GrepFinds
    WholeFileRead
