SPECIFICATION FairSpec
CONSTANTS
    z1 = z1
    z2 = z2
    r1 = r1
    None = None
    Zones = {z1}
    Rooms = {r1}
    Engines = {e1, e2}
    Tickers = {t1}
    MaxLogs = 2
    DevModes = {FALSE}
    InitHome <- AllInOne
    MaxToggles = 0
    MaxMoves = 1
    MaxRestores = 1
    MaxFaults = 0
    MaxCrashes = 1
PROPERTIES
    EnginesFollowStore
    DisabledStops
CHECK_DEADLOCK FALSE
