SPECIFICATION CallsSpec
CONSTANTS
    None = None
    p1 = p1
    p2 = p2
    q = q
PROPERTIES
    
    UpIsAlive
CHECK_DEADLOCK FALSE
