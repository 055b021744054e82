SPECIFICATION Spec
CONSTANTS
    CPUs = {c1, c2}
    NPROC = 3
    NULL = NULL
SYMMETRY Symmetry
INVARIANTS
    TypeOK
    OneCpu
    RunningOrLeaving
    FreedOffStack
    NoLostExit
    ParentAlive
CHECK_DEADLOCK FALSE
PROPERTY LifecycleSpec
