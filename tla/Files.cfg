SPECIFICATION Spec
CONSTANTS
    Procs = {p1, p2}
    FirstProc = p1
    Root = root
    Others = {i1, i2}
    Names = {a, b}
    NUM_FILES = 1
    MaxFds = 2
    MaxOps = 2
    Nil = Nil
SYMMETRY Symmetry
CHECK_DEADLOCK FALSE
INVARIANTS FileRefsExact InodeRefsExact FreeInodesUnused SleepersHoldNothing OperationsCounted
