CONSTANTS
    f1 = f1
    f2 = f2
    f3 = f3
    Plain = plain
    Flow = {f1, f2, f3}
    Bodies <- MCBodies
    MaxDepth = 2
    MaxEdit = 1
    a = a
    b = b
    c = c
    rule = rule
    default = default
    FlowNode <- MCNode
    NameOrder <- MCNameOrder
    Router = {a}
    Speaker = {b}
    Handle <- MCHandle
    Flows <- MCFlows
    Entry = entry
    End = end
    w1 = w1
    Socket = {w1, w2, w3}
    Request = {r1, r2}
    MaxTimers = 2
    MaxChallenge = 2
    MaxDelay = 30
    None = None
    Subject = {"subflows", "single", "legacy", "runner"}
SPECIFICATION SpecAny
INVARIANTS ValidationExact NoNodeSkipped OnePath CallsBounded OneLink
PROPERTIES SubflowsEnd SettlesAndRedials
CHECK_DEADLOCK FALSE
