SPECIFICATION Spec
CONSTANTS
    Procs = {p1, p2}
    NM = 3
    MAX_STRAYED = 1
    N_MMAP = 7
    NULL = NULL
SYMMETRY Symmetry
INVARIANTS
    ListExact
    NodesExact
    FitsIfRoom
CHECK_DEADLOCK FALSE
