SPECIFICATION Spec
CONSTANTS
    Users = {u1, u2}
    Nil = Nil
    Engines = {"server"}
    MaxCalls = 2
CHECK_DEADLOCK FALSE
PROPERTY DropsOnlyClosed
