CONSTANTS
    p1 = p1
    p2 = p2
    r1 = r1
    r2 = r2
    i1 = i1
    i2 = i2
    in1 = in1
    e1 = e1
    e2 = e2
    ok = ok
    huge = huge
    q1 = q1
    q2 = q2
    polA = polA
    polB = polB
    None = None
    Run = {r1, r2}
    Invocation = {i1, i2}
    Event = {e1, e2}
    Input = {in1}
    Clock = {0, 1}
    Started = {0}
    Result = {ok, huge}
    Oversized = {huge}
    ReceiptId = {q1, q2}
    Process = {p1, p2}
    Policy = {polA, polB}
    Capacity <- MCCapacity
SYMMETRY MCSymmetry
SPECIFICATION Spec
INVARIANTS
    AdmissionLimits
    DeliveryPerOutcome
    ToldIsDurable
PROPERTIES
    HistoryKept
    ObservationOrder
    ImplementsLedger
