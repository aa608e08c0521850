CONSTANTS
    LEVELS = 3
    IDX = 2
    Frame <- MCFrame
    Boot = 100
    Page <- MCPage
    Phys = {1, 5}
    LENGTHS = {2}
    BOOTPAGES = 1
    NP = NP
    Junk = Junk
SPECIFICATION Spec
INVARIANTS TlbCoherent TablesSound
PROPERTIES OthersUntouched
