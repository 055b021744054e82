SPECIFICATION Spec
CONSTANTS
    CPUs = {c1, c2}
    NPROC = 3
    NULL = NULL
SYMMETRY Symmetry
INVARIANT ChildLockNoDeadlock
CHECK_DEADLOCK FALSE
