SPECIFICATION Spec
CONSTANTS
    None = None
    p1 = p1
    p2 = p2
    q = q
SYMMETRY Perms
INVARIANTS
    
    
    LinksFollowMembers
    
CHECK_DEADLOCK FALSE
