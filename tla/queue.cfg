SPECIFICATION FairSpec
CONSTANTS
    Keys = {"a"}
    Workers = {0, 1}
    Requests = {"recent", "history", "incremental", "member", "message"}
    MaxJobs = 2
    MaxPages = 1
    MaxDisturb = 1
    Disturbances = {"clear", "reset", "source", "pause", "limit", "fail", "unbound"}
INVARIANTS
    ErasedAlone
    JobIsDriven
    DoneCoversRequest
CONSTRAINT OvertakenScan
CHECK_DEADLOCK FALSE
PROPERTIES
    JobsSettle
