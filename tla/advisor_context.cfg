SPECIFICATION FairContextSpec
CONSTANTS
    Nothing = Nothing
    Silent = {2}
    PageSize = 1
    Window = 2
    MaxRebind = 2
    MaxLen = 3
    MaxEdit = 1
INVARIANTS
    ReadyIsWhole
PROPERTIES
    ReadersAreSafe
    ImportsEnd
CHECK_DEADLOCK FALSE
