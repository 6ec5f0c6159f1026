\* Both threads, and commands nobody waits for.
CONSTANTS
    orchestrator = orchestrator
    api = api
    Waiters = {orchestrator, api}
    QueueMax = 2
    WireMax = 3
    Fired = {"config", "poll"}
SPECIFICATION Spec
SYMMETRY Threads
INVARIANTS
    TypeOK
    FreshAnswer
    AnswerIsOwn
    SilenceMeansNone
