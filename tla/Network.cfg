SPECIFICATION Spec
CONSTANTS
    Nodes = {"a", "b"}
    Links = {"l"}
    End1 <- AtA
    End2 <- AtB
    Lossy = {}
    Latency = 2
    Delays = {4}
    Frames = {1}
    Forwards = {2}
    Retain = 0
    BurstLimit = 1
    None = None
    MaxSeq = 3
    MaxTime = 2
    MaxLife <- BackOnce
INVARIANTS
    TypeOK
    NoPastEvents
    ScreenInStep
    FrameNeedsItsCable
    TimersStayWithTheirDevice
PROPERTIES
    ClocksForward
    GracefulArrives
