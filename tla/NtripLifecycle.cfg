\* Three clients, two overlaps.
CONSTANTS
    MaxClients = 3
    MaxOverlaps = 2
SPECIFICATION Spec
INVARIANTS
    TypeOK
    OrphansBounded
    PublishedIsFed
PROPERTIES
    OneOwnerEach
CHECK_DEADLOCK FALSE
