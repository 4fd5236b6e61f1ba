CONSTANTS
    read = read
    write = write
    t1 = t1
    t2 = t2
    None = None
    Syscalls <- TwoSyscalls
    Threads <- TwoThreads
    Scenarios <- Shared
SPECIFICATION Spec
CHECK_DEADLOCK FALSE
INVARIANT InPhase
