SPECIFICATION FairSpec
CONSTANTS
    Users = {u1, u2}
    Nil = Nil
    Seed = {"SELECT"}
    Verbs = {"VACUUM", "GRANT"}
    Junk = {"1"}
    Setters = {"logger"}
    operationLabelCap = 2
    MaxPools = 2
    MaxRegistrations = 3
CHECK_DEADLOCK FALSE
INVARIANTS OneCallback NoClosedPoolRead LabelsStable
PROPERTIES SettersKept CapWarned CallsReturn
