SPECIFICATION FairSpec
CONSTANTS
    NPROC = 2
    NULL = NULL
    SIZE = 2
    WRAP = 8
    NAME = 5
    Bytes = {b0, b1}
    MaxLen = 3
    MaxBytes = 4
INVARIANTS
    TypeOK
    NoLostWakeup
    FreedAfterUse
PROPERTIES
    FifoSpec
    CloseReleases
CHECK_DEADLOCK FALSE
