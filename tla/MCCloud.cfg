SPECIFICATION Spec
CONSTANTS
    None = None
    r1 = r1
    r2 = r2
INVARIANTS
    UploadsWhole
    
PROPERTY CloudCatchesUp
CHECK_DEADLOCK FALSE
