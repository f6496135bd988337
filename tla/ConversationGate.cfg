CONSTANTS
    sales = sales
    Admission = TRUE
    Router = TRUE
    Allowlist = FALSE
    Keys = {}
    InfoReply = FALSE
    Tables <- TwoTables
    Requests <- SomeRequests
    Asks <- SomeAsks
    Results <- SomeResults
    MaxRows = 20
    MaxCell = 200
    MaxLen = 8000
    MaxTurns = 2
    MaxAsks = 2
    MaxBreaks = 1
SPECIFICATION Spec
INVARIANT GateAnswers
CHECK_DEADLOCK FALSE
