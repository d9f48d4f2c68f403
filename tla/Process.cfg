SPECIFICATION FairSpec
CONSTANTS
    NumProcs = 3
    Nil = nil
    DoesIo <- MCInitOnly
    MaxSleeps = 2
INVARIANTS
    ReadyIsQueued
    
    NoSleepOverEvent
    CopiesBounded
PROPERTIES
    ZombieStays
    ReadyRuns
    WaitReturns
