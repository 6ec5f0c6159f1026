\* Every call, every reply, the link up and down; a base station with a caster.
CONSTANTS
    Replies = {"ack", "nak", "timeout"}
    Calls <- AllCalls
    NtripChoices = {TRUE}
    Links = {TRUE, FALSE}
SPECIFICATION Spec
INVARIANTS
    TypeOK
    TriggerNotLost
    StreamingHasBase
PROPERTIES
    ImplementsStation
