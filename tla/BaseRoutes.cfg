\* Answers that come before the next step, or never.
CONSTANTS
    Positions = {"a", "b"}
    Null = "b"
    LineMax = 2
    Caster = TRUE
    Flows = {"IDLE", "STREAMING"}
    MaxCalls = 2
    Prompt = TRUE
SPECIFICATION FairSpec
INVARIANTS
    TypeOK
    FixedApplied
    NoStalePosition
PROPERTIES
    RouteReturns
CHECK_DEADLOCK FALSE
