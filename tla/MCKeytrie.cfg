SPECIFICATION Spec
CONSTANTS
    u1 = u1
    u2 = u2
    w1 = w1
    w2 = w2
    w3 = w3
    h1 = h1
    Nobody = Nobody
INVARIANTS
    
    LeavesAccounted
    OrderedReadsExact
    ArenaSound
CHECK_DEADLOCK FALSE
