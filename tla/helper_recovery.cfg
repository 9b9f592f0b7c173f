SPECIFICATION Spec
CONSTANTS
    Previous = previous
    Update = update
    NoTree = noTree
    NoData = noData
    MaxOps = 3
    MaxWork = 2
    MaxCrash = 2
    MaxFail = 2
INVARIANTS
    Recoverable
    EndsWhole
PROPERTIES
    SwapEnds
CHECK_DEADLOCK FALSE
