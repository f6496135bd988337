CONSTANTS
    t1 = t1
    t2 = t2
    w1 = w1
    w2 = w2
    Threads <- TwoThreads
    Workers <- TwoWorkers
    Keep = 1
    MaxDay = 2
    MaxCleanups = 3
    MaxTurns <- TwoTurnsOrOne
SYMMETRY WorkerSymmetry
SPECIFICATION Spec
INVARIANT YoungThreadIsWhole
INVARIANT TurnsFollow
INVARIANT LeftoverNeedsTurn
INVARIANT NoneOldLeft
CHECK_DEADLOCK FALSE
