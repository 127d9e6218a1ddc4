SPECIFICATION FairSpec
CONSTANTS
    older = older
    Runners = {older, newer}
    FilesOf <- Releases
    NStmts = 2
    Lease = 3
    Timely = TRUE
    MaxFaults = 2
    MaxCalls = 2
CHECK_DEADLOCK FALSE
INVARIANTS OneRunnerAtATime CompletedRan ErrorHasCause
PROPERTIES RunsInOrder ImplementsLog CallsReturn
