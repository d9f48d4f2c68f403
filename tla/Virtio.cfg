SPECIFICATION FairSpec
CONSTANTS
    Procs = {p1, p2, p3}
    Handler = handler
    Nil = nil
    NUM_DESCS = 7
    IndexMod = 7
INVARIANTS
    DescriptorsAccounted
    NeverOutOfDescriptors
    NoLostWakeup
    HandlerFindsCompletion
PROPERTIES
    ReturnsAfterTransfer
    RequestReturns
CHECK_DEADLOCK FALSE
