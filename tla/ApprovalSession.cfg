CONSTANTS
    h1 = h1
    h2 = h2
    Handlers <- TwoHandlers
    Durable = TRUE
    MaxTurns = 2
    MaxCalls = 2
    MaxCrashes = 2
    MaxLost = 2
SYMMETRY Symmetry
SPECIFICATION Spec
INVARIANT RunsNeedApproval
INVARIANT RunOnce
INVARIANT RejectRunsNothing
INVARIANT LoggedApprovalRan
