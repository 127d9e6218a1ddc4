SPECIFICATION Spec
CONSTANTS
    older = older
    Runners = {older, newer}
    FilesOf <- Releases
    NStmts = 2
    Lease = 3
    Timely = FALSE
    MaxFaults = 0
    MaxCalls = 1
CHECK_DEADLOCK FALSE
INVARIANT OneRunnerAtATime
