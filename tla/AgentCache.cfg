CONSTANTS
    c1 = c1
    c2 = c2
    h1 = h1
    h2 = h2
    NoThread = NoThread
    Callers <- TwoCallers
    Threads <- TwoThreads
    MaxBuilds = 3
    MaxCancels = 1
    MaxClears = 1
SPECIFICATION FairSpec
INVARIANT PendingHasCreator
INVARIANT BuildersBounded
INVARIANT OneAgent
INVARIANT SyncBuildsBounded
INVARIANT KeyErrorNeedsClear
PROPERTY CallsEnd
