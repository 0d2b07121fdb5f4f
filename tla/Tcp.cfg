SPECIFICATION FairSpec
CONSTANTS
    Apps = {"http", "https", "ssh", "closed"}
    Segments = 2
    MaxRetries = 1
    Steps = 4
    Deferring = TRUE
    MaxFlight = 2
INVARIANTS
    TypeOK
    NothingUnaccounted
    ClosedMeansComplete
    SessionAgreed
PROPERTIES
    ClientEnds
    EverythingSettles
CHECK_DEADLOCK FALSE
