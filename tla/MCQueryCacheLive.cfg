SPECIFICATION FairSpec
CONSTANTS
    Lookups = {t1, t2}
    Registrars = {r1}
    Keys = {k1, k2}
    Names = {n1}
    Nil = Nil
    Capacities = {1}
    MaxVersion = 2
PROPERTY CallsReturn
