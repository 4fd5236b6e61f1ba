CONSTANTS
    int = int
    usr1 = usr1
    t1 = t1
    t2 = t2
    NoSig = NoSig
    SIGTRAP = SIGTRAP
    SIGSTOP = SIGSTOP
    SYSCALL_SIGTRAP = SYSCALL_SIGTRAP
    NoCallback = NoCallback
    Signals <- TwoSignals
    Threads <- TwoThreads
    Scenarios <- MCScenarios
SPECIFICATION Spec
SYMMETRY ThreadSymmetry
CHECK_DEADLOCK FALSE
INVARIANTS ListAgrees CaughtStops
PROPERTY ForwardedExactly LoopExact
