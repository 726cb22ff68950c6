SPECIFICATION FairSpec
CONSTANTS
    office = office
    vpn = vpn
    admin = admin
    t1 = t1
    t2 = t2
    t3 = t3
    Sources = {office, vpn, admin}
    Transfers = {t1, t2, t3}
    Addresses <- Local
    Seen <- Remote
    Rows <- AnyRow
    Faults = TRUE
    None = None
INVARIANTS TypeOK NobodyShutOut LeftAsFound
PROPERTY PutBack
CHECK_DEADLOCK FALSE
