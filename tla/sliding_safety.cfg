SPECIFICATION Spec
CONSTANTS
    Workers = 2
    Requests = {r1, r2, r3}
    r1 = r1
    r2 = r2
    r3 = r3
    e1 = e1
    e2 = e2
    Endpoints = {e1, e2}
    Endpoint <- TwoEndpoints
    Depth = 2
    PerEndpoint = {1}
    Length <- Lengths
    Limit <- Limits
    Buffer = 0
    Horizon = 2
    MaxFaults = 1
SYMMETRY Symmetry
INVARIANTS
    WindowBound
    NoEarlyRefusal
CHECK_DEADLOCK FALSE
