SPECIFICATION MutexSpec
CONSTANTS
    Threads = {p1, p2}
    Mutexes = {m1}
    Sched = Sched
INVARIANTS NeverSpins InterruptsRight RescheduleAsserts
