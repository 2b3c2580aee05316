SPECIFICATION Spec
CONSTANTS
    z1 = z1
    z2 = z2
    r1 = r1
    None = None
    Zones = {z1}
    Rooms = {r1}
    Engines = {e1}
    Tickers = {t1}
    MaxLogs = 1
    DevModes = {FALSE, TRUE}
    InitHome <- AllInOne
    MaxToggles = 1
    MaxMoves = 0
    MaxRestores = 0
    MaxFaults = 0
    MaxCrashes = 0
INVARIANT DrivenIsSupervised
CHECK_DEADLOCK FALSE
