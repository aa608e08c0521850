CONSTANTS
    COLS = 2
    ROWS = 3
    Chars = {32, 97}
    Space = 32
    Colours = {1, 2}
    DefFg = 1
    DefBg = 2
    Margins <- MCMargins
    MaxOps = 4
    POOL = 873000
    SmallPool = 40000
SPECIFICATION MCSpec
INVARIANTS BackendSound PixelsExact PoolSound
PROPERTIES ImplementsScreen PoolSuffices
CHECK_DEADLOCK FALSE
