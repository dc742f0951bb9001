SPECIFICATION Spec
CONSTANTS
    BlockSize = 3
    InodeWords = 3
    WORD = 7
    Dir <- MCDir
    num_inodes = 3
    image <- MCimage
    Names <- MCNames
    Buffers = {0, 1}
    Sizes = {1, 4}
    Content <- MCContent
    NameSize = 2
INVARIANTS
    StreamIntact
    ShortMeansEnd
    
    ListedInOrder
    LoadWhole
