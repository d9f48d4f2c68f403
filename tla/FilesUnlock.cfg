SPECIFICATION Spec
CONSTANTS
    Procs = {p1, p2}
    FirstProc = p1
    Root = root
    Others = {i1, i2}
    Names = {a, b}
    NUM_FILES = 1
    MaxFds = 2
    MaxOps = 2
    Nil = Nil
CHECK_DEADLOCK FALSE
INVARIANTS UnlocksWhatItLocked
