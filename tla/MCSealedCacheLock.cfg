CONSTANTS
    p1 = p1
    p2 = p2
    p3 = p3
    f1 = f1
    Earlier = Earlier
    None = None
    Process = {p1, p2, p3}
    Foreign = {}
    Legacy = {}
    MaxCall = 3
    MaxGeneration = 3
    MaxDeath = 1
SYMMETRY MCSymmetry
SPECIFICATION Spec
INVARIANT MutualExclusion
CHECK_DEADLOCK FALSE
