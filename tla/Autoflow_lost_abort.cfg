\* An abort that falls into the run.
CONSTANTS
    Replies = {"ack"}
    Calls = {"stop"}
    NtripChoices = {FALSE}
    Links = {TRUE}
SPECIFICATION Spec
INVARIANT NoStreamingAfterAbort
