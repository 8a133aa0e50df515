SPECIFICATION Spec
CONSTANTS
    s1 = s1  s2 = s2
    i1 = i1  i2 = i2
    j1 = j1
    u1 = u1  u2 = u2
    Sessions = {s1, s2}
    Ids = {i1, i2}
    JobIds = {j1}
    UrlOf <- OwnUrls
    RepoOf <- JobOfFirst
    Asked = {"indexing", "error"}
    Found = {0}
    Given = {i1, j1}
    PageSize = 1
    MaxCalls = 3
    NoRow = NoRow  NoWork = NoWork  NoReport = NoReport
    x1 = x1  x2 = x2
    f1 = f1  f2 = f2
    WholeChars = 5
    MaxChars = 4
    OverlapChars = 2
    EnableReranking = FALSE
    MaxContext = 10
    Indexers = {x1, x2}
    Files = {f1, f2}
    BodiesOf <- SomeBodies
    EmbedBatch = 2
    MaxRetries = 2
    Certainty <- Similarity
    MinCertainty = 7
    Connections <- FanInOut
    Limits = {1, 3}
    Offsets = {0, 1}
    MaxJobs = 2
    NoJob = NoJob  NoAnswer = NoAnswer  NoBody = NoBody
    TokenIds = {t1, t2}
    Verifiers = {v1}
    Lifetime <- HalfSeconds
    LastTick = 5
    Rotators = {r1, r2}
    KeyUsers = {v1}
    MaxKeys = 3
    MaxUses = 1
    Managers = {m1, m2}
    SecretRows = {x1, x2}
    CipherKeys = {k0, k1, k2}
    FirstKey = k0
    Hash = Hash
    MaxRotations = 2
    MaxSecrets = 1
    MaxChanges = 3
    NoRole = NoRole  NoScope = NoScope
    WebRequests = {w1, w2}
    Retentions = {1}
    AuditPage = 1
    MonthLength = 3
    LastDay = 2
    MaxEvents = 3
    Dependencies = {d1, d2, d3}
    Importable = {d1, d2, d3}
    Probes = {q1}
    MaxOutages = 3
SYMMETRY Symmetry
INVARIANTS
    SerialUnlessMixed
    ErrorsRemembered
    WithinDrift
    OneModel
    StoredCovers
    AnswerSound
    RevokedStaysOut
    OneValidKey
    ReadableAfterRotation
    CheckMeansAccess
    AnsweredIsLogged
    PagesMissNone
    ReadinessHonest
CHECK_DEADLOCK FALSE
