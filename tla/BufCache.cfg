SPECIFICATION Spec
CONSTANTS
    Bufs = {b1, b2}
    Blocks = {k1, k2, k3}
    Vals = {v1, v2}
    Sessions = {s1, s2, s3}
    WRAP = 5
    NULL = NULL
SYMMETRY Symmetry
INVARIANTS
    Owned
    UsedFirst
    Coherent
CHECK_DEADLOCK FALSE
