\* Answers that come after their timeout.
CONSTANTS
    Positions = {"a", "b"}
    Null = "b"
    LineMax = 3
    Caster = TRUE
    Flows = {"IDLE", "STREAMING"}
    MaxCalls = 2
    Prompt = FALSE
SPECIFICATION Spec
INVARIANTS
    FixedApplied
CHECK_DEADLOCK FALSE
