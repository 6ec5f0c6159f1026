---------------------------- MODULE ReaderThread ----------------------------
(***************************************************************************)
(* The life of GNSSReader's thread and of the serial port it owns          *)
(* (app/gnss/reader.py): connecting, reading, sending, losing the port,    *)
(* and the calls of the API that stop and start the thread                 *)
(* (/reader/reconnect and the shutdown of main.py).  What is read and sent *)
(* is the subject of CommandChannel.                                       *)
(*                                                                         *)
(* The wait after a failed connection is a sleep that the stop event does  *)
(* not interrupt, as long as the join of stop(), or longer.                *)
(***************************************************************************)
EXTENDS Naturals

CONSTANTS
    MaxAttempts,    \* SERIAL_MAX_RECONNECT_ATTEMPTS
    LongDelay       \* SERIAL_RECONNECT_DELAY exceeds the five seconds of join

ASSUME MaxAttemptsAssumption == MaxAttempts \in Nat \ {0}
ASSUME LongDelayAssumption == LongDelay \in BOOLEAN

VARIABLES
    (* fields of the reader and of the receiver's state *)
    stopEvent,      \* self._stop_event
    port,           \* self.serial is an open port
    attempts,       \* self._reconnect_attempts
    mirror,         \* state.receiver.connected
    shown,          \* the latest of the events serial_connected, _disconnected
    (* threads *)
    pc,             \* the next step of _reader_loop
    api,            \* the next step of the API thread
    purpose,        \* what it stops the reader for
    (* environment *)
    plugged         \* the port can be opened

fields == <<stopEvent, port, attempts, mirror, shown>>
calls  == <<api, purpose>>

vars == <<fields, pc, calls, plugged>>

Asleep == {"pause", "latePause"}

Alive == {"top", "open", "mark", "notify", "process", "send", "closeNotify",
          "closeMark", "rest", "exiting"} \union Asleep

-----------------------------------------------------------------------------
(* _reader_loop                                                            *)

Goto(from, to) ==
    /\ pc = from
    /\ pc' = to
    /\ UNCHANGED <<fields, calls, plugged>>

Top ==
    \/ stopEvent /\ Goto("top", "exiting")
    \/ ~stopEvent /\ port /\ Goto("top", "process")
    \/ ~stopEvent /\ ~port /\ Goto("top", "open")

OpenPort ==
    /\ pc = "open" /\ plugged
    /\ port' = TRUE
    /\ pc' = "mark"
    /\ UNCHANGED <<stopEvent, attempts, mirror, shown, calls, plugged>>

\* Mutant of OpenFails: the count of failures is not started again.
OpenFailsCounting ==
    /\ pc = "open" /\ ~plugged
    /\ attempts' = attempts + 1
    /\ mirror' = FALSE
    /\ pc' = IF stopEvent THEN "latePause" ELSE "pause"
    /\ UNCHANGED <<stopEvent, port, shown, calls, plugged>>

\* Mutant of OpenFails: the thread ends after the last attempt.
OpenFailsForGood ==
    /\ pc = "open" /\ ~plugged
    /\ attempts' = (attempts + 1) % MaxAttempts
    /\ mirror' = FALSE
    /\ pc' = IF attempts + 1 = MaxAttempts THEN "exiting" ELSE "pause"
    /\ UNCHANGED <<stopEvent, port, shown, calls, plugged>>

\* _update_receiver_disconnected starts the count again at its limit, and the
\* thread sleeps.  A sleep that begins after the stop event was set may outlast
\* the join.
OpenFails ==
    /\ pc = "open" /\ ~plugged
    /\ attempts' = (attempts + 1) % MaxAttempts
    /\ mirror' = FALSE
    /\ pc' = IF stopEvent THEN "latePause" ELSE "pause"
    /\ UNCHANGED <<stopEvent, port, shown, calls, plugged>>

MarkConnected ==
    /\ pc = "mark"
    /\ mirror' = TRUE
    /\ attempts' = 0
    /\ pc' = "notify"
    /\ UNCHANGED <<stopEvent, port, shown, calls, plugged>>

NotifyConnected ==
    /\ pc = "notify"
    /\ shown' = "connected"
    /\ pc' = "process"
    /\ UNCHANGED <<stopEvent, port, attempts, mirror, calls, plugged>>

\* A message, or nothing within the timeout of the port.
Process == Goto("process", "send")

\* All queued commands are sent.
Send == Goto("send", "rest")

\* Mutant of PortFails: the port is dropped and nobody is told.
PortFailsQuietly ==
    /\ pc \in {"process", "send"}
    /\ port' = FALSE
    /\ pc' = "rest"
    /\ UNCHANGED <<stopEvent, attempts, mirror, shown, calls, plugged>>

\* A read or a write raises a SerialException: _close_serial.
PortFails ==
    /\ pc \in {"process", "send"}
    /\ port' = FALSE
    /\ pc' = "closeNotify"
    /\ UNCHANGED <<stopEvent, attempts, mirror, shown, calls, plugged>>

CloseNotify ==
    /\ pc = "closeNotify"
    /\ shown' = "disconnected"
    /\ pc' = "closeMark"
    /\ UNCHANGED <<stopEvent, port, attempts, mirror, calls, plugged>>

\* Commands that are still queued are dropped without a port.
CloseMark ==
    /\ pc = "closeMark"
    /\ mirror' = FALSE
    /\ pc' = "rest"
    /\ UNCHANGED <<stopEvent, port, attempts, shown, calls, plugged>>

Rest == Goto("rest", "top")

\* Mutant of Pause: the loop tries again without testing the stop event.
PauseAndOpen == \E p \in Asleep : Goto(p, "open")

Pause == \E p \in Asleep : Goto(p, "top")

ThreadDies == Goto("exiting", "dead")

-----------------------------------------------------------------------------
(* The API thread                                                          *)

readerFrame == <<attempts, plugged>>

\* The service starts.
Boot ==
    /\ api = "boot"
    /\ api' = "start"
    /\ UNCHANGED <<fields, pc, purpose, plugged>>

\* The API stops the reader, to start it again or for good.
StopFor(why) ==
    /\ api = "idle"
    /\ purpose' = why
    /\ api' = "stop"
    /\ UNCHANGED <<fields, pc, plugged>>

Reconnect == StopFor("reconnect")

Shutdown == StopFor("shutdown")

Stopped == IF purpose = "shutdown" THEN "down" ELSE "start"

\* stop() returns at once if the thread is dead.
StopTest ==
    /\ api = "stop"
    /\ api' = IF pc = "dead" THEN Stopped ELSE "set"
    /\ UNCHANGED <<fields, pc, purpose, plugged>>

StopSet ==
    /\ api = "set"
    /\ stopEvent' = TRUE
    /\ api' = "join"
    /\ UNCHANGED <<port, mirror, shown, pc, purpose, readerFrame>>

\* Mutant of StopJoin: the port is closed without waiting for the thread.
StopAtOnce ==
    /\ api = "join"
    /\ api' = "close"
    /\ UNCHANGED <<fields, pc, purpose, plugged>>

\* join(timeout=5.0): a read takes at most a second, so that only a sleep can
\* outlast it, one that began late or one that is longer.
StopJoin ==
    /\ api = "join"
    /\ \/ pc \in {"dead", "latePause"}
       \/ LongDelay /\ pc = "pause"
    /\ api' = "close"
    /\ UNCHANGED <<fields, pc, purpose, plugged>>

\* _close_serial, called whatever the outcome of the join.
StopClose ==
    /\ api = "close"
    /\ port' = FALSE
    /\ api' = "closeNotify"
    /\ UNCHANGED <<stopEvent, mirror, shown, pc, purpose, readerFrame>>

StopNotify ==
    /\ api = "closeNotify"
    /\ shown' = "disconnected"
    /\ api' = "closeMark"
    /\ UNCHANGED <<stopEvent, port, mirror, pc, purpose, readerFrame>>

StopMark ==
    /\ api = "closeMark"
    /\ mirror' = FALSE
    /\ api' = Stopped
    /\ UNCHANGED <<stopEvent, port, shown, pc, purpose, readerFrame>>

\* start() leaves a thread that is alive alone, its stop event included.
Start ==
    /\ api = "start"
    /\ \/ pc = "dead" /\ stopEvent' = FALSE /\ pc' = "top"
       \/ pc \in Alive /\ UNCHANGED <<stopEvent, pc>>
    /\ api' = "idle"
    /\ UNCHANGED <<port, mirror, shown, purpose, readerFrame>>

PlugChanges ==
    /\ plugged' = ~plugged
    /\ UNCHANGED <<fields, pc, calls>>

-----------------------------------------------------------------------------
Init ==
    /\ stopEvent = FALSE /\ port = FALSE
    /\ attempts = 0
    /\ mirror = FALSE /\ shown = "disconnected"
    /\ pc = "dead"
    /\ api = "boot" /\ purpose = "boot"
    /\ plugged \in BOOLEAN

Connect == OpenPort \/ OpenFails \/ MarkConnected \/ NotifyConnected

ReaderLoop == Top \/ Connect \/ Process \/ Send \/ PortFails \/ CloseNotify
              \/ CloseMark \/ Rest \/ Pause \/ ThreadDies

ApiContinues == StopTest \/ StopSet \/ StopJoin \/ StopClose \/ StopNotify
                \/ StopMark \/ Start

Next == ReaderLoop \/ ApiContinues \/ Boot \/ Reconnect \/ Shutdown \/ PlugChanges

Spec == Init /\ [][Next]_vars

\* The thread runs, and what the API has begun it finishes.
FairSpec == Spec /\ WF_vars(ReaderLoop) /\ WF_vars(ApiContinues)

-----------------------------------------------------------------------------
(* Properties                                                              *)

\* Every variable stays within its type; the count of failed attempts is never
\* left standing at its limit.
TypeOK ==
    /\ stopEvent \in BOOLEAN /\ port \in BOOLEAN /\ mirror \in BOOLEAN
    /\ attempts \in 0 .. MaxAttempts - 1
    /\ shown \in {"connected", "disconnected"}
    /\ pc \in Alive \union {"dead"}
    /\ api \in {"boot", "idle", "stop", "set", "join", "close", "closeNotify",
                "closeMark", "start", "down"}
    /\ purpose \in {"boot", "reconnect", "shutdown"}
    /\ plugged \in BOOLEAN

\* After the shutdown nobody holds the exclusive serial port, nor will again,
\* even if the reader slept through the join.
ShutdownReleases == api = "down" => ~port

\* What the state and the last event tell the clients agrees with the port
\* whenever the thread waits, whichever thread closed it.
StatusTrue ==
    pc \in Asleep \union {"rest", "top"} /\ api \notin {"closeNotify", "closeMark"} =>
        mirror = port /\ (shown = "connected") = port

\* A reader that is not told to stop opens the port again as long as it can be
\* opened, however many attempts have failed.
PortReopens == pc \in Alive ~> port \/ ~plugged \/ stopEvent

\* A thread that is told to stop ends, whatever wait it is in.
StopExits == stopEvent ~> pc = "dead"

-----------------------------------------------------------------------------
(* A claim of the repository that the code does not keep.                  *)

\* "Closes current serial connection and attempts to reopen" (routes.py:1033):
\* once the call has returned, a thread is there that will reopen the port.
ReconnectReopens == api = "idle" => pc \in Alive

=============================================================================
