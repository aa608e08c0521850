CONSTANTS
    SIZE = 4
    Byte = {0, 2}
SPECIFICATION MCSpec
INVARIANTS MoveExact DirectivesExact
PROPERTIES CompareExact
