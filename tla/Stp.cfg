SPECIFICATION FairSpec
CONSTANTS
    Switches = {1, 2, 3}
    MaxMac = 3
    Links = {1, 2, 3}
    End1 <- RingEnd1
    End2 <- RingEnd2
    Prios = {2}
    DefaultPrio = 1
    MaxAge = 2
    PortCost = 1
    Home = 2
    None = None
    MaxEdits = 2
    MaxFrames = 1
INVARIANTS
    TypeOK
    OneTree
    WayHome
PROPERTY ComesToRest
CHECK_DEADLOCK FALSE
