SPECIFICATION FairTransactSpec
CONSTANTS
    NBatches = 1
    MaxItems = 2
    MaxPlain = 1
    Helpers = {"watchdog"}
    CallerCommits = FALSE
    LateScan = FALSE
    Drivers = {"pgx", "mssql", "other"}
    transactMaxAttempts = 2
INVARIANTS BatchInOrder NothingOutside
PROPERTY TransactReturns
