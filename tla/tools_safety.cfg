SPECIFICATION Spec
CONSTANTS
    Calls = {c1, c2}
    Asked <- SomeCalls
    Heard = {"ok", "404", "5xx", "timeout"}
    Blocks = {b1, b2}
    MaxAttempts = 2
    NoClient = NoClient
    k1 = k1  k2 = k2
    Sessions = {s1, s2}
    Keys = {k1, k2}
    Patterns <- Everything
    Full = "text"
    Empty = ""
    MaxEntries = 2
    NoEntry = NoEntry
    Agents = {a1, a2, a3}
    Incidents = {i1}
    AgentTools = {t1}
    MaxSnapshots = 2
    MaxStores = 1
    NoSnapshot = NoSnapshot
    Threads = {h1, h2}
    MaxFailures = 2
    ResetTimeout = 1
    MaxTime = 4
    MaxCalls = 3
INVARIANTS
    NoClientLeaks
    ServedIsCurrent
    SnapshotsAgree
    OpensForCause
    OpenHolds
PROPERTIES
    CallsEnd
CHECK_DEADLOCK FALSE
