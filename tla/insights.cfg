SPECIFICATION GuidanceFairSpec
CONSTANTS
    Jobs = {j1, j2}
    Guidances = {g1, g2}
    Msgs = {m1}
    Sources = {api}
    NoJob = NoJob
    Local = local
    Plain = plain
    RetryMax = 1
    ModelRetryMax = 1
    MaxSwitch = 1
    MaxClear = 1
    MaxReset = 1
    MaxDrain = 1
    MaxEdit = 1
CONSTRAINT OneDisturbance
CHECK_DEADLOCK FALSE
INVARIANTS
    NothingLeftByEither
    NothingFromBeforeClear
PROPERTIES
    NewestResultWins
    WorkersOfBothSettle
    GuidanceInOrder
