CONSTANTS
    k1 = k1
    k2 = k2
    r1 = r1
    r2 = r2
    Keys <- TwoKeys
    Handled <- OneKey
    Runners <- TwoRunners
    MaxAttempts = 1
    MaxPayloads = 3
    MaxCrashes = 1
    MaxRaises = 1
SPECIFICATION FairSpec
INVARIANT PendingIsSaved
INVARIANT SettledIsNotRecovered
INVARIANT RunsBounded
INVARIANT LeavesCounted
PROPERTY EveryEffectLeaves
CHECK_DEADLOCK FALSE
