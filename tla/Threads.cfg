SPECIFICATION Spec
CONSTANTS
    m = m
    a = a
    b = b
    Threads <- MCThreads
    Main = m
    NoThread = none
    Scenarios <- MCScenarios
SYMMETRY MCSymmetry
INVARIANTS ListsAgree AllStopped WaitsAnswered NoStaleWrite NothingRaises
CHECK_DEADLOCK FALSE
