SPECIFICATION Spec
CONSTANTS
    a = a
    b = b
    c = c
    Rooms = {a, b, c}
    Vents = {a, b, c}
    RoomOf <- OneVentEach
    Required = 2
    OverflowOn = TRUE
    Reconciles = TRUE
    MaxFaults = 1
    MaxCrashes = 1
CONSTRAINT OneMishap
SYMMETRY Symmetry
INVARIANTS
    TypeOK
    CycleHasLog
    VentsMatchRecords
    RowsMirrorEngine
    CompletionIsEarned
PROPERTIES
    UnbrokenHoldKeepsServedOpen
    FloorGuardsCloses
