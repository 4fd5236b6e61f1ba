CONSTANTS
    Maps <- TwoMaps
    Binary = "bin"
    Space <- MemorySpace
    unit_size = 4
    Keys <- AllKeys
    Data <- Strings
    Level = 3
    MaxWrites = 1
    Match <- FileNames
    Pie = {"bin", "libc", "libm"}
    Tables <- SymbolTables
    Nowhere = Nowhere
    Unknown = Unknown
    Layouts <- TwoPrograms
    Queries <- Asked
    Levels <- ThreeLevels
    Scenarios <- AddressScenarios
SPECIFICATION ViewsSpec
INVARIANTS ReadExact WriteExact AnswersCurrent NamesResolve FinishReturns UnwindExact StepsExact
CHECK_DEADLOCK FALSE
