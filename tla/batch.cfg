SPECIFICATION ScanSpec
CONSTANTS
    None = None
    Chats <- MCChats
    Judge <- MCJudge
    PageSize = 3
    RecentLimit = 2
    MaxChanges = 2
INVARIANTS
    StatisticsMatchEvidence
    NothingSkipped
    ClaimsAreTrue
    ResumesUnlessLost
CONSTRAINT ResetFirst
CHECK_DEADLOCK FALSE
