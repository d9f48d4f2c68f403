SPECIFICATION FairSpec
CONSTANTS
    Readers = {r1, r2}
    None = None
    BUF_SIZE = 3
    Plain <- MCPlain
    Lens <- MCLens
    MaxInput = 5
INVARIANTS
    CursorsOrdered
    FullBufferIsReadable
    NoSleepOverInput
PROPERTIES
    ImplementsLineQueue
    InputIsConsumed
CHECK_DEADLOCK FALSE
