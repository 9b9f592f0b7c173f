SPECIFICATION PortraitSpec
CONSTANTS
    Messages <- MCMessages
    Long <- MCLong
    Theirs <- MCTheirs
    Present <- MCPresent
    PageSize = 1
    Budgets = {1, 2}
    None = None
    MaxMoves = 2
    MaxJobs = 3
    MaxFaults = 1
INVARIANTS
    PaidOnce
    CompleteIsTrue
    ErasedStaysErased
CHECK_DEADLOCK FALSE
CONSTRAINT Bounded
