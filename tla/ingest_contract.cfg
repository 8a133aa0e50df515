SPECIFICATION Spec
CONSTANTS
    p1 = p1  p2 = p2
    fa = fa  fb = fb
    j1 = j1  j2 = j2
    NoPath = NoPath  NoCheckpoint = NoCheckpoint  NoRepo = NoRepo  NoJob = NoJob
    Repos <- TwoRepos
    Files <- TwoFiles
    FilesIn <- FilesOfTwo
    WithSymbols <- TwoFiles
    FlakyFiles <- None
    JobIds = {j1, j2}
    IdsOf <- OwnIds
    Runs = {r1, r2}
    Workspaces = {w1, w2}
SYMMETRY SwapSymmetry
INVARIANTS
    ResultMatchesRepo
PROPERTIES
    ImplementsContract
CHECK_DEADLOCK FALSE
