SPECIFICATION Spec
CONSTANTS
    edge_core = edge_core
    edge_core2 = edge_core2
    active_lock = active_lock
    Devices <- OneDevice
    Keys <- OneKey
    Sanitize <- Colliding
    NeedSafe = {edge_core}
    Ids = {i1, i2}
    Changes = {c1, c2}
    Procs = {p1, p2}
    Commands = {"begin"}
    SafeModes = {TRUE}
    MaxChanges = 2
    Faults = FALSE
    None = None
    Absent = Absent
    Empty = Empty
SYMMETRY Symmetric
INVARIANT OneActiveSession
CHECK_DEADLOCK FALSE
