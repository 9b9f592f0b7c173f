SPECIFICATION Spec
CONSTANTS
    Instances = {main, other}
    Default = main
    Launchers = {l1, l2}
    Bridges = {b1, b2}
    MaxFaults = 1
    MaxStarts = 3
    None = None
INVARIANTS
    UpdateIsAlone
    ClearedStaysDown
    RecordsOutliveProcesses
SYMMETRY StartSymmetry
CHECK_DEADLOCK FALSE
