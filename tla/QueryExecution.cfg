CONSTANTS
    c1 = c1
    c2 = c2
    Calls <- TwoCalls
    Statements <- HeadedStatements
    EnableWrite = TRUE
    SystemTables = {"checkpoints"}
    KnownTables = {"sales", "orders"}
    PoolSize = 1
    QueueRetries = 1
    ToolRetries = 2
SPECIFICATION FairSpec
CHECK_DEADLOCK FALSE
INVARIANT ExecutionsBounded
INVARIANT AppliedIsGuarded
PROPERTY KeepsPromise
PROPERTY CallsEnd
