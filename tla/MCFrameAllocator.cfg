CONSTANTS
    Junk = 9
    Frame <- MCFrame
    MemMap <- MCMemMap
SPECIFICATION Spec
INVARIANTS FreeListExact
PROPERTIES ImplementsPool
