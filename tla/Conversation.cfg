CONSTANTS
    sales = sales
    Admission = FALSE
    Router = TRUE
    Allowlist = FALSE
    Keys = {}
    InfoReply = FALSE
    Tables <- TwoTables
    Requests <- SomeRequests
    Asks <- SomeAsks
    Results <- SomeResults
    MaxRows = 20
    MaxCell = 30
    MaxLen = 967
    MaxTurns = 3
    MaxAsks = 2
    MaxBreaks = 1
SPECIFICATION Spec
INVARIANT CutIsTold
INVARIANT RewritingSettles
INVARIANT TablesAndTextsAreBounded
INVARIANT StaleOnlyIfNothingNew
INVARIANT AnsweredUnlessAbandoned
INVARIANT ShownIsLogged
CHECK_DEADLOCK FALSE
