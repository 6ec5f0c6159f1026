----------------------------- MODULE NtripPush ------------------------------
(***************************************************************************)
(* One NTRIPPushClient of app/gnss/ntrip_push.py: the push thread that     *)
(* connects to a caster and sends it RTCM frames, the reader thread that   *)
(* queues the frames, and the owner (autoflow.py) that starts the client,  *)
(* restarts it when it looks stale, and finally stops it.                  *)
(*                                                                         *)
(* The three threads share the client's fields without a lock, so every    *)
(* access that another thread can interleave with ends an action.  The     *)
(* queue is a FIFO and its frames are told apart only by whether they were *)
(* queued before or after the present socket was opened: the late frames   *)
(* are in front of the live ones, and two counts describe it.              *)
(***************************************************************************)
EXTENDS Naturals

CONSTANTS
    MaxRetries,     \* max_retries; autoflow passes 10
    QueueMax,       \* queue_maxsize
    ConfVersion,    \* ntrip_version of the configuration: 1, 2, or 0 for auto
    Outcomes,       \* what a connection attempt may end in
    Monitored       \* autoflow's monitor owns the client, not /ntrip/start

Fault == {"dns", "auth", "error"}

\* With a limit of one, the failure a restart provokes would itself be the last.
ASSUME MaxRetriesAssumption == MaxRetries \in Nat /\ MaxRetries >= 2
ASSUME QueueMaxAssumption == QueueMax \in Nat \ {0}
ASSUME ConfVersionAssumption == ConfVersion \in 0 .. 2
ASSUME OutcomesAssumption == Outcomes \subseteq Fault \union {"ok"}
ASSUME MonitoredAssumption == Monitored \in BOOLEAN

VARIABLES
    (* fields of the client *)
    stopEvent,      \* self._stop_event
    connected,      \* self._connected
    sock,           \* self._sock is not None
    giveUp,         \* self._give_up
    inCooldown,     \* self._in_cooldown
    failures,       \* self._failure_count
    perms,          \* self._perm_error_count
    version,        \* self.ntrip_version
    late,           \* frames queued before the present socket was opened
    live,           \* frames queued since
    (* push thread *)
    pc,             \* the next step of _run_loop, _connect, _push_loop
    trying,         \* the protocol version being tried
    faults,         \* errors of the versions tried in this _connect
    why,            \* the exception _run_loop has caught
    frame,          \* the frame taken from the queue
    wasUp,          \* was_connected of the push thread's _close_socket
    (* owner *)
    owner,          \* the next step of the owner
    purpose,        \* why the owner stops the client
    ownerWasUp,     \* was_connected of the owner's _close_socket
    mirror,         \* gnss_state.ntrip.connected
    (* history *)
    onlyDns         \* no fault but DNS failures since the last connection

flags  == <<giveUp, inCooldown>>
counts == <<failures, perms>>
queue  == <<late, live>>
local  == <<trying, faults, why, frame, wasUp>>
owners == <<owner, purpose, ownerWasUp>>

vars == <<stopEvent, connected, sock, flags, counts, version, queue, pc, local,
          owners, mirror, onlyDns>>

-----------------------------------------------------------------------------
Alive == {"top", "open", "handshake", "failed", "linked", "clear", "notify",
          "reset", "push", "drain", "get", "send", "close", "told", "after",
          "pause", "cooldown", "exiting"}

\* Steps of the owner; join is stop()'s wait for the thread.
OwnerSteps == {"new", "idle", "set", "join", "close", "told", "unset",
               "forgive", "start", "gone"}

\* The waits of the push thread last four seconds or more.  They do not elapse
\* between two steps of the owner that follow each other without waiting.
LongWait == owner \in {"new", "idle", "gone"}

\* Closing the socket ends the session its live frames were queued in.
CloseSock ==
    /\ sock' = FALSE
    /\ late' = late + live
    /\ live' = 0

Goto(from, to) ==
    /\ pc = from
    /\ pc' = to
    /\ UNCHANGED <<stopEvent, connected, sock, flags, counts, version, queue,
                   local, owners, mirror, onlyDns>>

\* The connection callbacks: the monitor's client mirrors its own status, the
\* client of /ntrip/start writes what the callback stands for.
Callback(up) == mirror' = IF Monitored THEN connected ELSE up

-----------------------------------------------------------------------------
(* _connect                                                                *)

Top ==
    /\ pc = "top"
    /\ pc' = IF stopEvent THEN "exiting" ELSE "open"
    /\ trying' = IF version = 0 THEN 2 ELSE version
    /\ faults' = {} /\ why' = "none"
    /\ UNCHANGED <<stopEvent, connected, sock, flags, counts, version, queue,
                   frame, wasUp, owners, mirror, onlyDns>>

\* A version failed: close the socket and try the next one, if any is left.
\* _close_socket also resets _connected, which is already False here.
VersionFails(kind) ==
    /\ faults' = faults \union {kind}
    /\ CloseSock
    /\ IF version = 0 /\ trying = 2
         THEN pc' = "open" /\ trying' = 1
         ELSE pc' = "failed" /\ UNCHANGED trying
    /\ UNCHANGED <<stopEvent, connected, flags, counts, version, why, frame,
                   wasUp, owners, mirror, onlyDns>>

\* create_connection: name resolution and TCP.
Open ==
    /\ pc = "open"
    /\ \/ \E kind \in Outcomes \intersect {"dns", "error"} : VersionFails(kind)
       \/ /\ sock' = TRUE
          /\ pc' = "handshake"
          /\ UNCHANGED <<stopEvent, connected, flags, counts, version, queue,
                         local, owners, mirror, onlyDns>>

\* The handshake; if the owner has closed the socket meanwhile it fails.
Handshake ==
    /\ pc = "handshake"
    /\ \/ \E kind \in Outcomes \intersect {"auth", "error"} : VersionFails(kind)
       \/ ~sock /\ VersionFails("error")
       \/ /\ "ok" \in Outcomes
          /\ version' = trying
          /\ pc' = "linked"
          /\ UNCHANGED <<stopEvent, connected, sock, flags, counts, queue, local,
                         owners, mirror, onlyDns>>

SetConnected ==
    /\ pc = "linked"
    /\ connected' = TRUE
    /\ pc' = "clear"
    /\ UNCHANGED <<stopEvent, sock, flags, counts, version, queue, local, owners,
                   mirror, onlyDns>>

\* Mutant of ClearQueue: the frames queued while disconnected are kept.
KeepQueue == Goto("clear", "notify")

\* _clear_rtcm_queue.
ClearQueue ==
    /\ pc = "clear"
    /\ late' = 0 /\ live' = 0
    /\ pc' = "notify"
    /\ UNCHANGED <<stopEvent, connected, sock, flags, counts, version, local,
                   owners, mirror, onlyDns>>

NotifyConnected ==
    /\ pc = "notify"
    /\ Callback(TRUE)
    /\ pc' = "reset"
    /\ UNCHANGED <<stopEvent, connected, sock, flags, counts, version, queue,
                   local, owners, onlyDns>>

\* _connect has returned: the counters start again.
ResetCounts ==
    /\ pc = "reset"
    /\ failures' = 0 /\ perms' = 0
    /\ onlyDns' = TRUE
    /\ pc' = "push"
    /\ UNCHANGED <<stopEvent, connected, sock, flags, version, queue, local,
                   owners, mirror>>

-----------------------------------------------------------------------------
(* _push_loop and _drain_incoming                                          *)

PushTest ==
    \/ connected /\ ~stopEvent /\ Goto("push", "drain")
    \/ ~(connected /\ ~stopEvent) /\ Goto("push", "close")

\* The caster may have closed the connection; the loop goes on all the same
\* and finds out at its next test.
Drain ==
    /\ pc = "drain"
    /\ connected' \in IF sock THEN {connected, FALSE} ELSE {connected}
    /\ pc' = "get"
    /\ UNCHANGED <<stopEvent, sock, flags, counts, version, queue, local, owners,
                   mirror, onlyDns>>

\* The queue is FIFO: the late frames come first.
TakeFrame ==
    /\ pc = "get"
    /\ \/ late > 0 /\ late' = late - 1 /\ frame' = "late" /\ UNCHANGED live
       \/ late = 0 /\ live > 0 /\ live' = live - 1 /\ frame' = "live" /\ UNCHANGED late
    /\ pc' = "send"
    /\ UNCHANGED <<stopEvent, connected, sock, flags, counts, version, trying,
                   faults, why, wasUp, owners, mirror, onlyDns>>

\* Five seconds without a frame: drain again and loop.
TakeTimeout ==
    /\ pc = "get" /\ late + live = 0
    /\ connected' \in IF sock THEN {connected, FALSE} ELSE {connected}
    /\ pc' = "push"
    /\ UNCHANGED <<stopEvent, sock, flags, counts, version, queue, local, owners,
                   mirror, onlyDns>>

SendOk ==
    /\ pc = "send" /\ sock
    /\ frame' = "none"
    /\ pc' = "push"
    /\ UNCHANGED <<stopEvent, connected, sock, flags, counts, version, queue,
                   trying, faults, why, wasUp, owners, mirror, onlyDns>>

\* A send error or timeout ends the loop.
SendFails ==
    /\ pc = "send"
    /\ frame' = "none"
    /\ connected' = FALSE
    /\ pc' = "close"
    /\ UNCHANGED <<stopEvent, sock, flags, counts, version, queue, trying,
                   faults, why, wasUp, owners, mirror, onlyDns>>

\* The owner has closed the socket behind the thread: self._sock is None, or
\* select finds no descriptor, and _run_loop counts the exception as an error.
SocketGone ==
    /\ pc \in {"drain", "send"} /\ ~sock
    /\ frame' = "none"
    /\ faults' = {"error"}
    /\ pc' = "failed"
    /\ UNCHANGED <<stopEvent, connected, sock, flags, counts, version, queue,
                   trying, why, wasUp, owners, mirror, onlyDns>>

-----------------------------------------------------------------------------
(* _run_loop: what follows a failed or finished session                    *)

\* Mutant of Caught: name resolution errors are counted like any other.
CaughtUncaring ==
    /\ pc = "failed"
    /\ connected' = FALSE
    /\ CloseSock
    /\ onlyDns' = (onlyDns /\ faults = {"dns"})
    /\ failures' = failures + 1
    /\ why' = "error" /\ pc' = "after"
    /\ UNCHANGED <<stopEvent, flags, perms, version, trying, faults, frame, wasUp,
                   owners, mirror>>

\* The exception handlers and the finally clause.  An error is of a kind only
\* if every version tried failed in that way.  _connected is False before
\* _close_socket looks at it, so no callback is called.
Caught ==
    /\ pc = "failed"
    /\ connected' = FALSE
    /\ CloseSock
    /\ onlyDns' = (onlyDns /\ faults = {"dns"})
    /\ \/ /\ faults = {"dns"}
          /\ why' = "dns" /\ pc' = "after"
          /\ UNCHANGED <<giveUp, counts>>
       \/ /\ faults = {"auth"}
          /\ perms' = perms + 1
          /\ why' = "auth"
          /\ IF perms' >= 3 THEN giveUp' = TRUE /\ pc' = "exiting"
                            ELSE pc' = "after" /\ UNCHANGED giveUp
          /\ UNCHANGED failures
       \/ /\ faults \notin {{"dns"}, {"auth"}}
          /\ failures' = failures + 1
          /\ why' = "error" /\ pc' = "after"
          /\ UNCHANGED <<giveUp, perms>>
    /\ UNCHANGED <<stopEvent, inCooldown, version, trying, faults, frame, wasUp,
                   owners, mirror>>

\* Mutant of Close: the socket is left open.
CloseFlagOnly ==
    /\ pc = "close"
    /\ wasUp' = connected
    /\ connected' = FALSE
    /\ pc' = "told"
    /\ UNCHANGED <<stopEvent, sock, queue, flags, counts, version, trying, faults,
                   why, frame, owners, mirror, onlyDns>>

\* _push_loop has returned: _close_socket, then its callback.
Close ==
    /\ pc = "close"
    /\ wasUp' = connected
    /\ connected' = FALSE
    /\ CloseSock
    /\ pc' = "told"
    /\ UNCHANGED <<stopEvent, flags, counts, version, trying, faults, why, frame,
                   owners, mirror, onlyDns>>

Told ==
    /\ pc = "told"
    /\ IF wasUp THEN Callback(FALSE) ELSE UNCHANGED mirror
    /\ wasUp' = FALSE
    /\ pc' = "after"
    /\ UNCHANGED <<stopEvent, connected, sock, flags, counts, version, queue,
                   trying, faults, why, frame, owners, onlyDns>>

Exhausted == why \notin {"dns", "auth"} /\ failures >= MaxRetries

\* Mutant of Retry: a DNS failure ends the thread.
RetryUnlessDns ==
    \/ (stopEvent \/ why = "dns") /\ Goto("after", "exiting")
    \/ ~stopEvent /\ ~Exhausted /\ why # "dns" /\ Goto("after", "pause")

\* Stop, or wait and try again: 30 s after a DNS failure, 90 s after a refusal,
\* with exponential backoff otherwise.
Retry ==
    \/ stopEvent /\ Goto("after", "exiting")
    \/ ~stopEvent /\ ~Exhausted /\ Goto("after", "pause")

StartCooldown ==
    /\ pc = "after" /\ ~stopEvent /\ Exhausted
    /\ giveUp' = TRUE /\ inCooldown' = TRUE
    /\ pc' = "cooldown"
    /\ UNCHANGED <<stopEvent, connected, sock, counts, version, queue, local,
                   owners, mirror, onlyDns>>

PauseEnds == (stopEvent \/ LongWait) /\ Goto("pause", "top")

\* A stop during the cooldown leaves its flags standing.
CooldownStops == stopEvent /\ Goto("cooldown", "exiting")

\* Mutant of CooldownEnds: the failures are not forgotten.
CooldownRemembers ==
    /\ pc = "cooldown" /\ LongWait
    /\ giveUp' = FALSE /\ inCooldown' = FALSE
    /\ pc' = "top"
    /\ UNCHANGED <<stopEvent, connected, sock, counts, version, queue, local,
                   owners, mirror, onlyDns>>

CooldownEnds ==
    /\ pc = "cooldown" /\ LongWait
    /\ giveUp' = FALSE /\ inCooldown' = FALSE
    /\ failures' = 0
    /\ pc' = "top"
    /\ UNCHANGED <<stopEvent, connected, sock, perms, version, queue, local,
                   owners, mirror, onlyDns>>

\* The thread function returns, and the thread is dead some time after.
ThreadDies == Goto("exiting", "dead")

-----------------------------------------------------------------------------
(* The reader thread: put_rtcm.                                            *)

\* Mutant of PutRtcm: the queue has no limit.
PutAlways ==
    /\ IF sock THEN live' = live + 1 /\ UNCHANGED late
               ELSE late' = late + 1 /\ UNCHANGED live
    /\ UNCHANGED <<stopEvent, connected, sock, flags, counts, version, pc, local,
                   owners, mirror, onlyDns>>

PutRtcm ==
    /\ late + live < QueueMax       \* a full queue drops the frame
    /\ IF sock THEN live' = live + 1 /\ UNCHANGED late
               ELSE late' = late + 1 /\ UNCHANGED live
    /\ UNCHANGED <<stopEvent, connected, sock, flags, counts, version, pc, local,
                   owners, mirror, onlyDns>>

-----------------------------------------------------------------------------
(* The owner: start(), the monitor's restart of a stale client, stop().    *)

clientFrame == <<sock, counts, version, queue, local, onlyDns>>

FirstStart ==
    /\ owner = "new"
    /\ pc' = "top"
    /\ owner' = "idle"
    /\ UNCHANGED <<stopEvent, connected, flags, clientFrame, purpose, ownerWasUp,
                   mirror>>

\* The monitor mirrors the status it has read.
Mirror ==
    /\ Monitored /\ owner = "idle"
    /\ mirror' = connected
    /\ UNCHANGED <<stopEvent, connected, flags, pc, clientFrame, owners>>

\* The monitor finds the client connected and without a frame sent for 30 s,
\* or the client is no longer wanted: stop() follows.
Decide ==
    /\ owner = "idle"
    /\ \/ Monitored /\ connected /\ purpose' = "restart"
       \/ purpose' = "cleanup"
    /\ owner' = "set"
    /\ UNCHANGED <<stopEvent, connected, flags, pc, clientFrame, ownerWasUp, mirror>>

\* Mutant of StopSet: stop() closes the socket and does not signal the thread.
StopUnset ==
    /\ owner = "set"
    /\ owner' = "join"
    /\ UNCHANGED <<stopEvent, connected, flags, pc, clientFrame, purpose,
                   ownerWasUp, mirror>>

StopSet ==
    /\ owner = "set"
    /\ stopEvent' = TRUE
    /\ owner' = "join"
    /\ UNCHANGED <<connected, flags, pc, clientFrame, purpose, ownerWasUp, mirror>>

\* join(timeout=5.0): the thread is dead or the timeout is over.
StopJoin ==
    /\ owner = "join"
    /\ owner' = "close"
    /\ UNCHANGED <<stopEvent, connected, flags, pc, clientFrame, purpose,
                   ownerWasUp, mirror>>

StopClose ==
    /\ owner = "close"
    /\ ownerWasUp' = connected
    /\ connected' = FALSE
    /\ CloseSock
    /\ owner' = "told"
    /\ UNCHANGED <<stopEvent, flags, counts, version, pc, local, purpose, mirror,
                   onlyDns>>

StopTold ==
    /\ owner = "told"
    /\ IF ownerWasUp THEN Callback(FALSE) ELSE UNCHANGED mirror
    /\ ownerWasUp' = FALSE
    /\ owner' = IF purpose = "restart" THEN "unset" ELSE "gone"
    /\ UNCHANGED <<stopEvent, connected, flags, pc, clientFrame, purpose>>

RestartUnset ==
    /\ owner = "unset"
    /\ stopEvent' = FALSE
    /\ owner' = "forgive"
    /\ UNCHANGED <<connected, flags, pc, clientFrame, purpose, ownerWasUp, mirror>>

RestartForgive ==
    /\ owner = "forgive"
    /\ giveUp' = FALSE
    /\ owner' = "start"
    /\ UNCHANGED <<stopEvent, connected, inCooldown, pc, clientFrame, purpose,
                   ownerWasUp, mirror>>

\* start() leaves a thread that is still alive alone.
RestartStart ==
    /\ owner = "start"
    /\ \/ pc \in Alive /\ UNCHANGED <<pc, stopEvent>>
       \/ pc = "dead" /\ pc' = "top" /\ stopEvent' = FALSE
    /\ owner' = "idle"
    /\ purpose' = "none"
    /\ UNCHANGED <<connected, flags, clientFrame, ownerWasUp, mirror>>

-----------------------------------------------------------------------------
Init ==
    /\ stopEvent = FALSE /\ connected = FALSE /\ sock = FALSE
    /\ giveUp = FALSE /\ inCooldown = FALSE
    /\ failures = 0 /\ perms = 0
    /\ version = ConfVersion
    /\ late = 0 /\ live = 0
    /\ pc = "dead"
    /\ trying = 1 /\ faults = {} /\ why = "none" /\ frame = "none" /\ wasUp = FALSE
    /\ owner = "new" /\ purpose = "none" /\ ownerWasUp = FALSE
    /\ mirror = FALSE
    /\ onlyDns = TRUE

Connect == Top \/ Open \/ Handshake \/ SetConnected \/ ClearQueue
           \/ NotifyConnected \/ ResetCounts

PushLoop == PushTest \/ Drain \/ TakeFrame \/ TakeTimeout \/ SendOk \/ SendFails
            \/ SocketGone

Recover == Caught \/ Close \/ Told \/ Retry \/ StartCooldown \/ PauseEnds
           \/ CooldownStops \/ CooldownEnds \/ ThreadDies

PushThread == Connect \/ PushLoop \/ Recover

\* What the owner has begun it finishes.
OwnerContinues == FirstStart \/ StopSet \/ StopJoin \/ StopClose \/ StopTold
                  \/ RestartUnset \/ RestartForgive \/ RestartStart

Next == PushThread \/ OwnerContinues \/ Mirror \/ Decide \/ PutRtcm

Spec == Init /\ [][Next]_vars

\* Both threads run.  No fairness for the caster: connecting and sending may
\* fail for ever; every attempt ends, its socket operations having timeouts.
FairSpec == Spec /\ WF_vars(PushThread) /\ WF_vars(OwnerContinues)

-----------------------------------------------------------------------------
(* Properties                                                              *)

\* The queue never holds more than maxsize frames.
QueueOK == late \in Nat /\ live \in Nat /\ late + live <= QueueMax

FieldsOK ==
    /\ stopEvent \in BOOLEAN /\ connected \in BOOLEAN /\ sock \in BOOLEAN
    /\ giveUp \in BOOLEAN /\ inCooldown \in BOOLEAN
    /\ failures \in Nat /\ perms \in Nat
    /\ version \in 0 .. 2 /\ trying \in 1 .. 2
    /\ pc \in Alive \union {"dead"}
    /\ faults \subseteq Fault /\ why \in Fault \union {"none"}
    /\ frame \in {"none", "late", "live"}
    /\ wasUp \in BOOLEAN /\ ownerWasUp \in BOOLEAN
    /\ owner \in OwnerSteps /\ purpose \in {"none", "restart", "cleanup"}
    /\ mirror \in BOOLEAN /\ onlyDns \in BOOLEAN

\* Every variable stays within its type, the queue within its limit.
TypeOK == FieldsOK /\ QueueOK

\* "Discard stale RTCM accumulated while disconnected": a frame goes out only
\* on the connection during which it was queued, across reconnects, restarts
\* and an owner that closes the socket behind the thread's back.
NoStaleFrames == pc = "send" /\ sock => frame = "live"

\* A connection is attempted only while failures remain before the cooldown and
\* refusals before the end: the cooldown is neither entered late nor left with
\* the count standing, and no restart by the owner adds an attempt.
RetriesBounded ==
    pc \in {"open", "handshake"} => failures < MaxRetries /\ perms < 3

\* The thread leaves no connection behind, whichever of the two threads closed
\* the socket last.
NoLeak == pc = "dead" => ~sock /\ ~connected

\* A network outage that shows as DNS failures only never leads to the cooldown
\* or to giving up, however long it lasts and however versions are tried.
DnsOutageHarmless == onlyDns => ~giveUp

\* A client that is stopped for good lets its thread end, from every wait.
StopExits == owner = "gone" ~> pc = "dead"

\* A thread that has not been told to end tries again, through backoff, DNS
\* waits and cooldowns, until it is connected, unless the owner intervenes or the
\* caster has refused it three times.
KeepsTrying ==
    owner = "idle" /\ pc \in Alive \ {"exiting"}
        ~> (connected \/ pc \in {"open", "handshake"} \/ owner # "idle" \/ perms >= 3)

\* The client as its owner sees it.
Thread == IF owner = "new" THEN "new" ELSE IF pc = "dead" THEN "dead" ELSE "alive"

Use ==
    CASE owner = "new"                    -> "new"
      [] owner = "idle"                   -> "serving"
      [] owner = "set"                    -> "doomed"
      [] owner \in {"join", "close"}      -> "stopping"
      [] owner \in {"told", "unset", "gone"} -> "stopped"
      [] owner \in {"forgive", "start"}   -> "cleared"

Client == INSTANCE NtripClient WITH
    thread <- Thread, up <- connected, use <- Use, again <- (purpose = "restart")

\* The push thread and its owner keep to what NtripLifecycle takes for granted of
\* a client, whenever the thread outlives a stop or a restart: nothing starts a
\* client that was let go, only its owner takes a stop back, and a thread that
\* has ended is not connected.
ImplementsClient == Client!Spec

=============================================================================
