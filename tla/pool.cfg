SPECIFICATION FairSpec
CONSTANTS
    Clients = {c1, c2}
    MaxWorkers = 3
    RateStreak = 2
    Recover = 2
    Dedicated = {"probe"}
    MaxGeneration = 1
INVARIANTS
    Accounting
    TurnsFollowGeneration
PROPERTIES
    ImplementsBoundedLeases
    PoolSettles
