SPECIFICATION FairSpec
CONSTANTS
    Days = 3
    Slots = 3
    Shapes <- Calendar
    Blocks = {1, 2}
    MaxExpiry = 1
    Holdover = 2
    MaxHold = 1
    Own = Own
    Other = Other
    None = None
    Budgets <- Histories
INVARIANTS
    TypeOK
    OneBlockAtATime
    StatusTellsTheClock
PROPERTIES
    NothingEndsEarly
    OccupiedStaysServed
    ClearIsForTheVisit
    ExpiredIsParked
CHECK_DEADLOCK FALSE
