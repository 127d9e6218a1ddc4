SPECIFICATION Spec
CONSTANTS
    NBatches = 2
    MaxItems = 2
    MaxPlain = 1
    Helpers = {}
    CallerCommits = TRUE
    LateScan = FALSE
INVARIANT CloseEndsBatch
PROPERTIES BatchOwnsTransaction CommitDropsNothing
