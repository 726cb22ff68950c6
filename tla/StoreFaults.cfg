SPECIFICATION Spec
CONSTANTS
    edge_core = edge_core
    edge_core2 = edge_core2
    active_lock = active_lock
    Devices <- TwoDevices
    Keys <- OneKey
    Sanitize <- Colliding
    NeedSafe = {edge_core}
    Ids = {i1, i2}
    Changes = {c1, c2}
    Procs = {p1}
    Commands = {"begin", "write", "commit", "rollback", "watch", "remove"}
    SafeModes = {TRUE}
    MaxChanges = 2
    Faults = TRUE
    None = None
    Absent = Absent
    Empty = Empty
SYMMETRY Symmetric
INVARIANTS LockIsUsable ClosedIsReleased GuardedWritesJournaled PendingReachable
PROPERTY CommitKeepsChanges
PROPERTY ImplementsLife
CHECK_DEADLOCK FALSE
