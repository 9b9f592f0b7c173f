SPECIFICATION Spec
CONSTANTS
    Callers = {c1, c2}
    Providers = {"api", "gpu"}
    Offered = {"cpu", "dir"}
    MaxSerial = 2
    MaxProcs = 2
    ExpiredLimit = 1
SYMMETRY CallerSymmetry
INVARIANTS
    RepliesFit
    StatusIsTrue
PROPERTIES
    CancelIsFinal
CHECK_DEADLOCK FALSE
