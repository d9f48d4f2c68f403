SPECIFICATION Spec
CONSTANTS
    Procs = {p0, p1}
    InitProc = p0
    PAGE_SIZE = 2
    NumFrames = 6
    MaxPages = 2
    MaxSegments = 2
INVARIANT MapNeverRemaps
CHECK_DEADLOCK FALSE
