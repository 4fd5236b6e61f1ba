SPECIFICATION CallsSpec
CONSTANTS
    Calls <- Started
    AutoInterrupt = FALSE
    EscapeAntidebug = TRUE
    CallbacksRaise = TRUE
    RunFails = TRUE
    ExternalKill = TRUE
    MaxBacklog = 1
    Bytes <- TwoBytes
    delims <- Double
    Timeouts <- Short
    Numbs <- ZeroTo3
    Occurences <- Twice
    MaxBytes = 4
    d1 = d1
    d2 = d2
    o1 = o1
    h1 = h1
    h2 = h2
    Debuggers <- TwoDebuggers
    Script = Script
    Owned <- OneOwned
    Handlers <- TwoHandlers
    Addresses = {1, 2}
    None = None
    Scenarios = {{}, {"equal"}, {"raises"}}
INVARIANTS QueueAccounting ResponseMatched StoppedAccess SyncReturn UntilExact RecvExact LinkedRight GlobalRight
PROPERTIES ServiceSpec InterruptsReturn CallsReturn
