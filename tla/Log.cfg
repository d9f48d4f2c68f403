SPECIFICATION Spec
CONSTANTS
    Procs = {p1, p2, p3}
    Blocks = {b1, b2, b3}
    Data = {d0, d1}
    Torn = torn
    Absent = absent
    MAX_OP_BLOCKS = 4
    LOG_SIZE = 8
    LogLen = 8
    OpBlocks = 2
    Leaks = TRUE
SYMMETRY MCSymmetry
INVARIANTS
    OneCommitter
    
    PinsMatchLog
PROPERTY
    ImplementsAtomicDisk
