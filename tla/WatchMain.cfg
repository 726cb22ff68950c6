SPECIFICATION WatchSpec
CONSTANTS
    accept = accept
    drop = drop
    uplink = uplink
    Names = {accept, drop}
    Comments = {uplink}
    Unset = Unset
    Secrecy <- NoSecrets
    Tables <- OneRow
    MaxId = 2
    FullAt = 5
    MaxChanges = 3
    MaxWrites = 3
    MaxRollbacks = 0
    None = None
    FailThreshold = 2
    MaxOutages = 3
INVARIANTS WatchTypeOK WatchRestores
PROPERTY WatchConverges
CHECK_DEADLOCK FALSE
