SPECIFICATION Spec
CONSTANTS
    Requests = {r1, r2, r3}
    Window <- Windows
    Limit <- BothBind
    Horizon = 3
SYMMETRY Symmetry
INVARIANTS
    WindowBound
    NoEarlyRefusal
    KeysExpire
CHECK_DEADLOCK FALSE
