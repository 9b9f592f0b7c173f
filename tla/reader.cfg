SPECIFICATION Spec
CONSTANTS
    a1 = a1
    a2 = a2
    Accounts = {a1, a2}
    Procs = {p1, p2}
    Tasks = {t1, t2}
    Saved <- MCSaved
    Shards <- MCShards
    Shared <- MCShared
    Pins <- MCPins
    MaxAnchors = 1
    MaxScans = 2
    MaxMoves = 3
    None = None
INVARIANTS
    AccountsStayApart
    DeliveredIsBound
SYMMETRY ReaderSymmetry
CONSTRAINT Serving
CHECK_DEADLOCK FALSE
