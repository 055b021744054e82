SPECIFICATION DataSpec
CONSTANTS
    f1 = f1
    f2 = f2
    Files = {f1, f2}
    NB = 4
    N_ADDRS_1 = 1
    N_ADDRS_2 = 1
    N_ADDRS_3 = 1
    ENTRY_PER_BLOCK = 2
    Vals = {1, 9}
    Offsets = {0, 1, 3, 5}
    MAX_LEN = 2
SYMMETRY FilesSymmetry
CHECK_DEADLOCK FALSE
INVARIANTS
    Exclusive
    ReadsBack
