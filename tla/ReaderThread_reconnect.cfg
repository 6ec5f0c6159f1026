\* The default retry delay, as long as the join.
CONSTANTS
    MaxAttempts = 3
    LongDelay = FALSE
SPECIFICATION Spec
INVARIANTS
    ReconnectReopens
CHECK_DEADLOCK FALSE
