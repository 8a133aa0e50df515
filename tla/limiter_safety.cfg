SPECIFICATION Spec
CONSTANTS
    Workers = {w1, w2}
    Requests = {r1, r2, r3}
    Limit = 1
    NoWorker = NoWorker
SYMMETRY Symmetry
INVARIANTS
    CounterCovers
    ConcurrencyBound
CHECK_DEADLOCK FALSE
