SPECIFICATION Spec
CONSTANTS
    Procs = {p1, p2}
    NPAGES = 5
    NV = 2
    PG = 2
    WRAP = 3
    NULL = NULL
SYMMETRY Symmetry
INVARIANTS
    Exclusive
    HeapMapped
PROPERTIES
    PrivateSpec
    ContentsKept
CHECK_DEADLOCK FALSE
