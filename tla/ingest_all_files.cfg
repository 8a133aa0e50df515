SPECIFICATION Spec
CONSTANTS
    p1 = p1  p2 = p2
    fa = fa  fb = fb
    j1 = j1  j2 = j2
    NoPath = NoPath  NoCheckpoint = NoCheckpoint  NoRepo = NoRepo  NoJob = NoJob
    Repos <- OneRepo
    Files <- TwoFiles
    FilesIn <- FilesOfOne
    WithSymbols <- JustA
    FlakyFiles <- None
    JobIds = {j1}
    IdsOf <- OneId
    Runs = {r1}
    Workspaces = {w1}
INVARIANTS
    SuccessParsesAllFiles
CHECK_DEADLOCK FALSE
