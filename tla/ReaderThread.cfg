\* A retry delay longer than the join, and every way to lose the port.
CONSTANTS
    MaxAttempts = 3
    LongDelay = TRUE
SPECIFICATION FairSpec
INVARIANTS
    TypeOK
    ShutdownReleases
    StatusTrue
PROPERTIES
    PortReopens
    StopExits
CHECK_DEADLOCK FALSE
