\* Liveness of triggers, shutdown and recovery, with and without a caster.
CONSTANTS
    Replies = {"ack"}
    Calls <- LiveCalls
    NtripChoices = {TRUE, FALSE}
    Links = {TRUE}
SPECIFICATION FairSpec
PROPERTIES
    TriggerServed
    StopExits
    CrashRecovers
