SPECIFICATION Spec
CONSTANTS
    Workers = {w1}
    Requests = {r1, r2}
    Limit = 1
    NoWorker = NoWorker
SYMMETRY Symmetry
INVARIANT RerunOnlyOnLimiterError
CHECK_DEADLOCK FALSE
