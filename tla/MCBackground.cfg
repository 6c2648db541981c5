SPECIFICATION Spec
CONSTANTS
    None = None
    NoGroup = NoGroup
    NoTimer = NoTimer
    Gov = Gov
    a = a
    g1 = g1
    g2 = g2
    k1 = k1
    k2 = k2
    l1 = l1
    o1 = o1
    o2 = o2
    p = p
    pin = pin
    r1 = r1
    rd = rd
    t1 = t1
    x1 = x1
    x2 = x2
PROPERTIES
    HorizonClears
    UnreferencedIsReclaimed
    EvictionSound
    CapacitySettles
CHECK_DEADLOCK FALSE
