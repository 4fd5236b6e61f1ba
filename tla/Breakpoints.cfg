SPECIFICATION Spec
CONSTANTS
    t1 = t1
    t2 = t2
    MaxAddr = 3
    WordSize = 2
    Threads <- TwoThreads
    BreakAddrs <- Three
    Scenarios <- Scripts
INVARIANTS Armed OriginalExecuted ListConsistent
PROPERTIES RestoredAtStop HitAttributed
CHECK_DEADLOCK FALSE
