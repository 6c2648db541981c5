SPECIFICATION MCSpec
CONSTANTS
    A = A
    B = B
    k1 = k1
    k2 = k2
    x = x
    y = y
    w = w
    Nodes = {A, B}
    Keys = {k1}
    Txns = {x, y}
    Writes = {}
    Origin <- Remote
    KeysOf <- OnK1
    KeyOrder <- K1
    Hashes <- XFirst
INVARIANTS
    OneCommits
    CommitsAreRead
    
CONSTRAINT UntilWindow
CHECK_DEADLOCK FALSE
