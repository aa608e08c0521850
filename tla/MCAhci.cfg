CONSTANTS
    SLOTS = 2
    MAXPRDT = 2
    MAXSPIN = 1
    PRDT <- MCPRDT
    Sector = {x}
    Data = {d1, d2}
    Buf = {b1}
    MAXCALLS = 3
    None = None
SPECIFICATION MCSpec
INVARIANTS SuccessRanOnce HbaApart FoundExact WritesConfined
PROPERTIES TransfersExact PortReturns ScanEnds
