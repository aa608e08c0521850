CONSTANTS
    COLS = 3
    ROWS = 3
    Chars <- MCChars
    Space = 32
    Colours <- MCColours
    DefFg <- MCDefFg
    DefBg <- MCDefBg
    Writes <- MCWrites
    MaxWrites = 6
    Api = TRUE
    MAXVALS = 5
    VALUEMAX = 1999
    OSCBUF = 4
    Cp437 <- MCCp437
    Width <- MCWidth
    BUF = 9
    Levels <- MCLevels
    Texts <- MCTexts
    PanicTexts <- MCPanicTexts
    Registers <- MCRegisters
    MaxLogs = 2
    MaxPanics = 2
SPECIFICATION MCSpec
INVARIANTS StateSound ReverseExact
PROPERTIES EditExact TextExact LogExact
CHECK_DEADLOCK FALSE
