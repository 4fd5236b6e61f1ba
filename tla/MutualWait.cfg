SPECIFICATION Spec
CONSTANTS
    Calls <- Basics
    AutoInterrupt = FALSE
    EscapeAntidebug = FALSE
    CallbacksRaise = FALSE
    RunFails = FALSE
    ExternalKill = TRUE
    MaxBacklog = 1
INVARIANT NoMutualWait
CHECK_DEADLOCK FALSE
