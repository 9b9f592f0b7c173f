SPECIFICATION RemovalSpec
CONSTANTS
    Bridges = {b1, b2}
    Contact = TRUE
    MaxVersion = 2
    MaxLogins = 2
    MaxFaults = 1
    MaxRemovals = 2
    Absent = Absent
INVARIANTS
    StampIsHonest
    FailureLeavesNoMark
PROPERTY
    EntryGoesLast
CONSTRAINT
    LeaseCovers
SYMMETRY RemovalSymmetry
CHECK_DEADLOCK FALSE
