SPECIFICATION VentSpec
CONSTANTS
    z1 = z1
    z2 = z2
    Entities = {1, 2, 3}
    Callers = {z1}
    Zone <- OneZone
    Method <- Mixed
    Prompt = TRUE
    Quiet = TRUE
    Required = 1
    MaxCalls = 3
    MaxMoves = 1
PROPERTIES
    FloorKept
    CloseNeverOpens
CHECK_DEADLOCK FALSE
