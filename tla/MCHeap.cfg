CONSTANTS
    PAGE = 12
    HDR = 3
    ALIGN = 2
    WORD = 64
    SIZES <- MCSIZES
    FRAMES = 2
    NULL = NULL
SPECIFICATION FairSpec
INVARIANTS BlocksSound
PROPERTIES CopyFits KmallocReturns
