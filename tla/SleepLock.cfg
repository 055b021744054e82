SPECIFICATION LockFairSpec
CONSTANTS
    NPROC = 3
    NULL = NULL
INVARIANTS
    HolderConfirmed
    NoLostRelease
PROPERTIES
    MutexSpec
    Progress
