SPECIFICATION FairSpecAny
CONSTANTS
    t1 = t1
    p1 = p1
    None = None
    Key = {k1}
    Tag = {t1, t2}
    Call = {c1, c2}
    Invalidation = {i1}
    Process = {p1}
    Host <- MCHost
    TagChoice <- MCTagChoice
    MaxVersion = 1
    MemoryKey = {k1, k2, k3}
    MaxEntries = 2
INVARIANTS
    IndexesCover
    NothingRevoked
PROPERTIES
    StaleExpires
    Answered
