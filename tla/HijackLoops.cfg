CONSTANTS
    t1 = t1
    int = int
    sigpipe = sigpipe
    read = read
    write = write
    None = None
    NoSig = NoSig
    SIGTRAP = SIGTRAP
    SIGSTOP = SIGSTOP
    SYSCALL_SIGTRAP = SYSCALL_SIGTRAP
    NoCallback = NoCallback
    Signals <- TwoSignals
    Threads <- OneThread
    Scenarios <- OnlyHijacks
SPECIFICATION LoopsSpec
CHECK_DEADLOCK FALSE
PROPERTY HijackLoopsRaise
