SPECIFICATION VentFairSpec
CONSTANTS
    z1 = z1
    z2 = z2
    Entities = {1}
    Callers = {z1}
    Zone <- OneZone
    Method <- Mixed
    Prompt = FALSE
    Quiet = FALSE
    Required = 0
    MaxCalls = 2
    MaxMoves = 1
INVARIANTS
    VentTypeOK
    SuccessWasApplied
    WaitersAreTracked
    CacheIsReplay
PROPERTIES
    JobsEnd
