CONSTANTS
    s1 = s1
    s2 = s2
    w1 = w1
    w2 = w2
    Session = {s1, s2}
    Socket = {w1, w2}
    MaxRuns = 2
    MaxLines = 2
    MaxUpdates = 1
    None = None
SPECIFICATION Spec
INVARIANT
    OneExecution
