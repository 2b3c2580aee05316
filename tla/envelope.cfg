SPECIFICATION Spec
CONSTANTS
    Temps <- Degrees
    Wild = 9
    None = None
    MinSp = 1
    MaxSp = 3
    Deadband = 1
    Overshoot = 1
    Rate = 2
    MinOff = 2
    MinRun = 3
    Timeout = 3
    Found = {"off"}
    MaxMishaps = 1
INVARIANT TypeOK
PROPERTIES
    OffTimeKeptUnbroken
    CycleRecovers
