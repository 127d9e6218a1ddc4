SPECIFICATION TransactSpec
CONSTANTS
    NBatches = 2
    MaxItems = 1
    MaxPlain = 1
    Helpers = {"statement"}
    CallerCommits = FALSE
    LateScan = TRUE
    Drivers = {"pgx", "mssql"}
    transactMaxAttempts = 2
INVARIANT NoPartialCommit
PROPERTIES RetryAfterRollback ImplementsAtomic
