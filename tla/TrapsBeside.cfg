CONSTANTS
    b1 = b1
    b2 = b2
    b3 = b3
    b4 = b4
    t1 = t1
    t2 = t2
    None = None
    AMD64_DBREGS_COUNT = 2
    Bps <- FourBps
    Address <- Places
    InstructionPointers <- Around
    Execute <- OnlyB1
    Refused <- OnlyB4
    Threads <- TwoThreads
    Main = t1
    Scenarios <- BesideScripts
SPECIFICATION Spec
CHECK_DEADLOCK FALSE
INVARIANT HitsCounted
