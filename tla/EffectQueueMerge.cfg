CONSTANTS
    k1 = k1
    k2 = k2
    r1 = r1
    r2 = r2
    Keys <- OneKey
    Handled <- OneKey
    Runners <- OneRunner
    MaxAttempts = 1
    MaxPayloads = 2
    MaxCrashes = 0
    MaxRaises = 0
SPECIFICATION Spec
INVARIANT AcceptedIsPending
CHECK_DEADLOCK FALSE
