SPECIFICATION Spec
CONSTANTS
    Tenant = {t1, t2}
    Call = {c1, c2}
    CacheLimit = 1
    Staleness = 1
    PageMax = 1
    None = None
    MaxTime = 2
    MaxChanges = 2
    MaxTroubles = 1
    MaxTorn = 0
SYMMETRY Alike
INVARIANTS
    KeepsItsWrites
PROPERTIES
    PrimeIsFresh
CHECK_DEADLOCK FALSE
