SPECIFICATION Spec
CONSTANTS
    None = None
    e1 = e1
    e2 = e2
    d1 = d1
    d2 = d2
    x1 = x1
    x2 = x2
    t0 = t0
    lost = lost
    k1 = k1
    k2 = k2
SYMMETRY Perms
INVARIANTS
    
    RecoveryExact
    CacheIsMap
CHECK_DEADLOCK FALSE
