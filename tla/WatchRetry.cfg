SPECIFICATION WatchSpec
CONSTANTS
    accept = accept
    drop = drop
    uplink = uplink
    Names = {accept, drop}
    Comments = {uplink}
    Unset = Unset
    Secrecy <- NoSecrets
    Tables <- OneRow
    MaxId = 2
    FullAt = 4
    MaxChanges = 2
    MaxWrites = 2
    MaxRollbacks = 0
    None = None
    FailThreshold = 2
    MaxOutages = 2
PROPERTY WatchSucceeds
CHECK_DEADLOCK FALSE
