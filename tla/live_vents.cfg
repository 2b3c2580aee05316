SPECIFICATION FairSpec
CONSTANTS
    a = a
    b = b
    c = c
    Rooms = {a, b}
    Vents = {1, 2, 3}
    RoomOf <- OneAndTwo
    Required = 2
    OverflowOn = FALSE
    Reconciles = TRUE
    MaxFaults = 1
    MaxCrashes = 0
PROPERTIES
    IdleZoneReopens
    ServedRoomGetsAir
    TimeoutStopsRunning
