SPECIFICATION Spec
CONSTANTS
    None = None
    Root = Root
    e1 = e1
    e2 = e2
    e3 = e3
    d1 = d1
    d2 = d2
    t1 = t1
    t2 = t2
SYMMETRY Symmetry
INVARIANTS
    WalksExact
    
    ClockEvidenceTrue
    AlgorithmsExact
CHECK_DEADLOCK FALSE
