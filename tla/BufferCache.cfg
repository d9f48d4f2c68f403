SPECIFICATION FairSpec
CONSTANTS
    Readers = {r1}
    Writers = {w1, w2}
    Blocks = {b1, b2}
    Data = {d0, d1}
    MAX_OP_BLOCKS = 3
    LOG_SIZE = 6
    OpBlocks = 1
    REF_MOD = 16
    First = d0
    Nil = Nil
CHECK_DEADLOCK FALSE
INVARIANTS  OneBuffer RefsExact
PROPERTY SleepersWake
