\* Two surveys, one observation, two polls without progress; a command on its way
\* and a report or an answer on its way back.
CONSTANTS
    MaxSurveys = 2
    ObsMax = 1
    StuckLimit = 2
    OutMax = 1
    WireMax = 1
SPECIFICATION FairSpec
INVARIANTS
    TypeOK
    ResultIsFresh
    SavedIsFixed
PROPERTIES
    FrozenNoticed
CHECK_DEADLOCK FALSE
