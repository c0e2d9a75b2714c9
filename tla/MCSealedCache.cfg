CONSTANTS
    p1 = p1
    p2 = p2
    p3 = p3
    f1 = f1
    Earlier = Earlier
    None = None
    Process = {p1, p2, p3}
    Foreign = {f1}
    Legacy = {f1}
    MaxCall = 3
    MaxGeneration = 3
    MaxDeath = 1
SYMMETRY MCSymmetry
SPECIFICATION Spec
INVARIANTS LiveLockKept MergesUntilCrash
PROPERTIES LatestKept ImplementsStore
CHECK_DEADLOCK FALSE
