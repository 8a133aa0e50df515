SPECIFICATION SpecQueries
CONSTANTS
    w1 = w1 w2 = w2
    old = old
    new = new
    f1 = f1
    f2 = f2
    m = m
    s1 = s1 s2 = s2 s3 = s3
    svc1 = svc1
    svc2 = svc2
    Writers = {w1, w2}
    Versions = {old, new}
    Paths = {f1, f2, m}
    Symbols = {s1, s2, s3}
    Services = {svc1, svc2}
    FileOf <- TheFile
    NodeOf <- TheNode
    Parsed <- TheParsed
    Defines <- TheSymbols
    Imports <- TheImports
    Boundaries <- TheServices
    Members <- TheMembers
    Calls <- TheCalls
    BatchSize = 1
    MaxJobs = 2
    Ends = {f1, f2}
    MaxHops = 2
SYMMETRY Symmetry
INVARIANTS
    WrittenIsStored
    FromVersions
    SoundWhenWhole
    BlastIsReachability
    EveryFileAnswered
    CyclesReal
    TopologyOfVersion
CHECK_DEADLOCK FALSE
