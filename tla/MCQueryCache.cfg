SPECIFICATION Spec
CONSTANTS
    Lookups = {t1, t2}
    Registrars = {r1, r2}
    Keys = {k1, k2, k3}
    Names = {n1, n2}
    Nil = Nil
    Capacities = {0, 1, 2}
    MaxVersion = 2
SYMMETRY Symmetry
INVARIANTS NoStaleEntry FreshResult RingMatchesEntries
PROPERTIES ImplementsRegistry NoLostRegistration
