CONSTANTS
    WORD = 1073741824
    TOTALS <- MCTOTALS
    RESERVED = 1
    FATS = 2
    ROOTSECTORS = 32
    CLUSTER = 8
    PERSECTOR = 256
    MINCLUSTERS = 4085
    MAXCLUSTERS = 65525
    Port = {p1, p2}
SPECIFICATION MCSpec
INVARIANTS LayoutFits VolumesSound
PROPERTIES FormatSafe FatSizeReturns
