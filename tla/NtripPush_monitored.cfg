\* The client of autoflow's monitor, which restarts it when it is stale.
CONSTANTS
    MaxRetries = 3
    QueueMax = 3
    ConfVersion = 0
    Outcomes <- AllOutcomes
    Monitored = TRUE
SPECIFICATION FairSpec
INVARIANTS
    TypeOK
    NoStaleFrames
    RetriesBounded
    NoLeak
    DnsOutageHarmless
PROPERTIES
    ImplementsClient
    StopExits
    KeepsTrying
CHECK_DEADLOCK FALSE
