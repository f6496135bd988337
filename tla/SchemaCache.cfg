CONSTANTS
    s1 = s1
    s2 = s2
    Names <- TwoNames
    Existing <- OneTable
    Sessions <- TwoSessions
    Priority <- PriorityTables
    Limit = 1
    FetchMayFail = TRUE
    MaxVersion <- TwoVersions
SPECIFICATION FairSpec
INVARIANT StaleOnlyIfOverlapped
INVARIANT IndexStaleOnlyIfOverlapped
PROPERTY CacheHeals
