SPECIFICATION Spec
CONSTANTS
    Procs = {"p1", "p2"}
    Names = {"a", "b"}
    Hosts = {"h1", "h2"}
    Passwords = {"s1", "s2"}
    Book <- MCBook
    Initial <- MCInitial
    Legacy <- MCLegacy
    LegacyRing <- MCLegacyRing
    Verbs = {"add", "remove", "use", "auth", "connect", "import", "rsc"}
    MaxCommands = 2
    MaxFaults = 2
    Missing = Missing
    Torn = Torn
    Garbled = Garbled
    None = None
INVARIANT TypeOK
INVARIANT InventoryAsReported
INVARIANT PasswordsAsReported
PROPERTY ImportKeepsDevices
CHECK_DEADLOCK FALSE
