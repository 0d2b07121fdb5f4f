SPECIFICATION Spec
CONSTANTS
    Switches = {1, 2, 3}
    MaxMac = 3
    Links = {1, 2}
    End1 <- RingEnd1
    End2 <- RingEnd2
    Prios = {1}
    DefaultPrio = 1
    MaxAge = 2
    PortCost = 1
    Home = 2
    None = None
    MaxEdits = 2
    MaxFrames = 0
INVARIANT RootsExist
CHECK_DEADLOCK FALSE
