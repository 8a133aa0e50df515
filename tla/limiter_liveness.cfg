SPECIFICATION FairSpec
CONSTANTS
    Workers = {w1, w2}
    Requests = {r1, r2}
    Limit = 1
    NoWorker = NoWorker
PROPERTY EveryRequestEnds
CHECK_DEADLOCK FALSE
