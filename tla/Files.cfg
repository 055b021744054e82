SPECIFICATION Spec
CONSTANTS
    Procs = {p1, p2}
    N_FILE = 3
    FILE_PER_PROC = 2
    Inodes = {console, i1}
    Console = console
    Pipes = {x1}
    WRAP = 6
    MAX_LEAKED = 1
    NULL = NULL
SYMMETRY Symmetry
INVARIANTS
    RefExact
    InodeRefs
    EndsOpen
CHECK_DEADLOCK FALSE
