SPECIFICATION Spec
CONSTANTS
    Devices = {"core", "edge_core"}
    Keys = {"edge_core"}
    Key <- MCKey
    DeviceConfig <- MCDeviceConfig
    Paths <- MCPaths
    Options <- MCOptions
    BuiltinDeniedPrefixes <- MCDenied
    MaxAge = 3
    DefaultCap = 25
    HourLength = 2
    DayLength = 4
    WeekLength = 3
    Horizon = 13
    MaxLives = 2
    MaxWrites = 2
    None = None
    Torn = Torn
INVARIANT GatesTypeOK
INVARIANT OwnDoctor
INVARIANT OwnSession
INVARIANT WindowIsInterval
INVARIANT HintIsNext
CHECK_DEADLOCK FALSE
