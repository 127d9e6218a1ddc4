SPECIFICATION Spec
CONSTANTS
    Users = {u1, u2, u3}
    Nil = Nil
    Engines = {"server", "sqlite"}
    MaxCalls = 2
CHECK_DEADLOCK FALSE
INVARIANTS RefsCountHandles PoolFollowsOpeners SQLiteLasts SelfCleaning
PROPERTY ProvisionedOnce
