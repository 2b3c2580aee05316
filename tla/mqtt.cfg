SPECIFICATION FairSpec
CONSTANTS
    r1 = r1
    r2 = r2
    n1 = n1
    n2 = n2
    Rooms = {r1, r2}
    Names = {n1, n2}
    Orders <- Commands
    None = None
    Own = Own
    Base = Base
    Blank = Blank
    On = On
    Off = Off
    InitRoom <- Started
    LeftOver <- Stranded
    MaxEdits = 2
    MaxExpiries = 1
    MaxOrders = 1
    MaxFaults = 1
    MaxDrops = 1
    MaxToggles = 1
CONSTRAINT FewEvents
INVARIANTS
    TypeOK
    QuietIsMirrored
PROPERTIES
    EntitiesAreKept
    StaleCommandsSetNothing
    MirrorConverges
