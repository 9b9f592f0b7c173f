SPECIFICATION Spec
CONSTANTS
    Runs = {r1, r2}
    Threads = {t1, t2}
    Settings = {s1, s2}
    None = None
    MaxSwitch = 1
    MaxReset = 1
    MaxMemory = 1
SYMMETRY AdvisorSymmetry
INVARIANTS
    ReportedIsSaved
    ClosedAccountIsQuiet
PROPERTIES
    AnswersAreCurrent
CHECK_DEADLOCK FALSE
