CONSTANTS
    k1 = k1
    k2 = k2
    k3 = k3
    k4 = k4
    k5 = k5
    Keys <- FiveKeys
    MaxEntries = 3
    TTL = 2
    MaxTime = 4
    MaxBack = 1
SYMMETRY Symmetry
SPECIFICATION Spec
INVARIANT Bounded
INVARIANT SameKeys
INVARIANT RecentIsKept
