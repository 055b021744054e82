SPECIFICATION FairSpec
CONSTANTS
    NUM = 8
    WRAP = 16
    Procs = {p1, p2, p3}
    NULL = NULL
INVARIANTS
    DescsAccounted
    RingsLive
    OwnTransfer
    NoLostWakeup
PROPERTIES
    ServedUnlessMissed
