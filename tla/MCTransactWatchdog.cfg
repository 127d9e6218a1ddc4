SPECIFICATION TransactSpec
CONSTANTS
    NBatches = 1
    MaxItems = 1
    MaxPlain = 1
    Helpers = {"watchdog"}
    CallerCommits = FALSE
    LateScan = FALSE
    Drivers = {"other"}
    transactMaxAttempts = 1
INVARIANT NoPartialCommit
