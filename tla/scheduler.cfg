SPECIFICATION Spec
CONSTANTS
    z1 = z1
    z2 = z2
    r1 = r1
    None = None
    Zones = {z1, z2}
    Rooms = {r1}
    Engines = {e1, e2}
    Tickers = {t1, t2}
    MaxLogs = 2
    DevModes = {FALSE}
    InitHome <- AllInOne
    MaxToggles = 1
    MaxMoves = 1
    MaxRestores = 0
    MaxFaults = 1
    MaxCrashes = 1
SYMMETRY Symmetry
CONSTRAINT OneMishap
INVARIANTS
    TypeOK
    RemovedStaysDown
    NoOrphanLog
    DrivenIsSupervised
    CleanSlate
PROPERTIES
    KeepsLedger
CHECK_DEADLOCK FALSE
