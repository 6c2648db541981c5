SPECIFICATION Spec
CONSTANTS
    a = a
    s = s
    k1 = k1
    k2 = k2
    Tips = {a, s}
    SystemTips = {s}
    Keys = {k1, k2}
    KeysOf <- MCKeysOf
    Pins = {p1}
    Objs = {o1, o2, o3}
    Threads = {t1, t2}
    Gov = Gov
    None = None
    Mirrored = TRUE
    MaxQueue = 3
SYMMETRY Symmetric
INVARIANTS
    HoldersCounted
    ReclaimAccounted
    OwnedIsResident
    RecordIsResident
PROPERTY Implements
