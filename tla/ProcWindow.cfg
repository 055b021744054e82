SPECIFICATION WindowSpec
CONSTANTS
    CPUs = {c1, c2}
    NPROC = 3
    NULL = NULL
SYMMETRY Symmetry
INVARIANT RunningOrLeaving
CHECK_DEADLOCK FALSE
