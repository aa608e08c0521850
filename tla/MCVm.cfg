CONSTANTS
    FREE <- MCFREE
    Dev <- MCDev
    HEAP = 2
    VPAGES = 3
    TPAGES = 4
    SIZES = {1, 2}
    MAXSPACES = 2
    NULL = NULL
SPECIFICATION FairSpec
INVARIANTS FramesOnce RegionsSound
PROPERTIES OperationsEnd
