# TLA+ models of the GNSS base-station backend

The program under `src/app` turns a u-blox ZED-F9P receiver into an RTK base
station: a FastAPI service that configures the receiver over a serial port,
surveys or recalls its position, enables RTCM output and forwards the RTCM
frames to an NTRIP caster and to a LoRa radio. This directory holds TLA+ models
of its control logic, TLC configurations that check them, and TLAPS proofs.

    tlc -workers 2 -config Autoflow_safe.cfg MCAutoflow
    tlapm AutoflowProofs.tla

`PROJECT.json` lists the runs, the source lines every definition stands for, the
mutants that show each property can fail, the findings and the hazards.

## 1. Inventory

### Threads

| thread | code | blocks on |
|---|---|---|
| orchestrator | `AutoflowOrchestrator._run_loop`, `_execute` | trigger event, stop event, ACKs |
| API | the asyncio loop; route handlers call blocking functions directly, so it serves one call at a time | ACKs, joins |
| reader | `GNSSReader._reader_loop` | serial reads, sleeps |
| NTRIP push | `NTRIPPushClient._run_loop` | sockets, queue, stop event, sleeps |
| LoRa push | `LoRaPushClient._run_loop` | serial writes, queue |

### Components

| component | state | operations | interacts by | hard behaviour | what makes it correct |
|---|---|---|---|---|---|
| AutoFlow orchestrator (`gnss/autoflow.py`) | `_state`, stop and trigger events, `_ntrip_client`, `_config`, position file | start, stop, trigger_run, abort, save_config, run of `_execute`, crash recovery, NTRIP direct start and stop | locked state, two events, commands to the reader, calls into the NTRIP client | abort or trigger between a test and the write it guards; commands of two threads in one queue; unlocked reads of the client; recovery after 120 s | accepted triggers are served; STREAMING means fixed base and RTCM; shutdown ends the thread; aborts stay aborted |
| AutoFlow routes (`api/routes.py`) | none of their own | start, stop, config, enable, disable, delete position, NTRIP start and stop | calls into the orchestrator | the live configuration object is changed before it is compared | the effect a route announces is the effect it has |
| NTRIP push client (`gnss/ntrip_push.py`) | socket, `_connected`, give-up and cooldown flags, two failure counts, version, frame queue | start, stop, put_rtcm, connect, push, backoff, cooldown | fields without a lock, bounded queue, callbacks | stop() closing the socket behind the thread, join that times out, restart of a dying thread, three kinds of failure | retries bounded and never ending; no stale frame; no leaked socket; losses reported |
| Command channel (`gnss/reader.py`) | outbound queue, one ACK event, one result | send_command, send_command_and_wait_ack, sending, ACK and NAK | bounded queue, event, lock | two waiters; answers that come late; commands queued while the port is closed | a call returns the answer to its own command |
| Reader thread and port (`gnss/reader.py`) | port, UBX reader, stop event, callbacks | start, stop, connect, close, watchdog | port closed from two threads | reconnect while the thread sleeps; silence | the port is reopened; it is closed at the end |
| Survey and position file (`reader.py`, `state.py`, `autoflow.py`) | live survey object, saved position | NAV-SVIN update, poll loop, stuck restart, save, load, delete | object shared by reference | stale "valid", live snapshot, torn file | the position saved and applied is the one surveyed last |
| LoRa push client (`gnss/lora_push.py`) | port, queue, chunk buffer | start, stop, put_rtcm, write | bounded queue | stop with frames queued, reconnect | frames in order, no loss on a clean stop |
| Receiver command routes (`api/routes.py`) | none | survey, RTCM, base mode, fixed base, reset | the command channel | run against the orchestrator | the receiver ends in the mode asked for last |
| Encodings, geodesy, parser | none | pure | | signs, rounding, ranges | round trip within resolution |
| Socket.IO handlers, broadcast loop, schemas, configuration, serial utilities, set-up scripts, OLED | | | | | not modelled: see section 7 |

## 2. Modules

| module | models |
|---|---|
| `Autoflow` | the orchestrator thread and the API thread that commands it; implements `BaseStation` |
| `MCAutoflow` | the sets of API calls TLC explores |
| `BaseStation` | abstract specification: the states a run may go through, what they say of the receiver and what a run may do to it |
| `AutoflowProofs` | theorems about `Autoflow` |
| `NtripClient` | abstract specification: one client and the one owner it expects |
| `NtripPush` | one NTRIP client: push thread, reader thread, owner; implements `NtripClient` |
| `MCNtripPush` | the outcomes of connection attempts TLC explores |
| `NtripPushProofs` | theorems about `NtripPush` |
| `CommandChannel` | commands, answers and the shared ACK event |
| `MCCommandChannel` | the threads TLC explores |
| `CommandChannelProofs` | theorems about `CommandChannel` |
| `ReaderThread` | the life of the reader thread and its port, the API thread that reconnects and shuts down |
| `ReaderThreadProofs` | theorems about `ReaderThread` |
| `LossyStream` | abstract specification: bytes go out in order, each at most once, some are lost |
| `LoRaPush` | one LoRa client: push thread, reader thread, owner; implements `LossyStream` |
| `LoRaPushProofs` | theorems about `LoRaPush` |
| `BaseRoutes` | the routes that command the receiver by hand, the receiver, a run that interferes |
| `BaseRoutesProofs` | theorems about `BaseRoutes` |
| `NtripLifecycle` | several NTRIP clients over their lives and the two threads that create, restart and stop them; uses each as an `NtripClient` while operations do not overlap |
| `NtripLifecycleProofs` | theorems about `NtripLifecycle` |
| `Survey` | phases 1b to 2 of a run, the receiver's survey reports, the shared status, the position file |
| `SurveyProofs` | theorems about `Survey` |

`NtripLifecycle` composes the clients with the two threads that own them and
takes from `NtripPush` only that a client's thread connects, loses and ends. The
two meet in `NtripClient`, which states what each takes for granted of the other:
`NtripPush` implements it (`ImplementsClient`), and `NtripLifecycle` keeps to it
with every client as long as operations do not overlap (`OneOwnerEach`).
`Survey` and `BaseRoutes` compose a caller with the channel of `CommandChannel`
and the receiver. `Autoflow` uses of both what the run can see: the status of
the published client and whether the survey is complete.

Operators named in a comment "Mutant of X" are not part of the models; they are
plausible mistakes in X that a property must notice.

### Autoflow

`pc` is the next step of the orchestrator thread, `api` the next step of the call
the API thread is serving. A step ends wherever the other thread can observe or
change something: after a locked section, an event operation, a command, a wait.
So `_halted()` and the `_set_state` that follows it are two actions (`Settle`,
`SetConnect`), `trigger_run` is `TriggerLock` then `TriggerSet`, and the two
unlocked reads of the client in the log statement of the NTRIP wait are
`AwaitLog` and `AwaitUse`. `state`, `stopEvent`, `triggerEvent` and `client` are
the shared fields; `client` is abstracted to what `get_status()` says of it.
`tmode`, `rtcm` and `svinValid` are the receiver and the survey result as the
orchestrator's commands leave them. `aborted` and `disturbed` are history
variables.

`BaseStation` has four of these variables, `state`, `tmode`, `rtcm` and
`disturbed`, and `asked`, which the mapping makes of the trigger event and the
steps between `trigger_run` and `_execute` (`Asked`). It says in which order an
undisturbed run takes the states, in which of them it may command the receiver
and how, that NTRIP_CONNECT and STREAMING are entered only over a fixed base that
sends RTCM, and that no run begins unless one was asked for. Of a run into which
an abort or a shutdown has fallen it promises nothing until the next run begins;
what goes wrong there is in section 5.

Assumptions. The answer to a command belongs to it (this is the subject of
`CommandChannel`, which says when that is so). Commands take effect in the order
they were queued, so the model lets them take effect when they are queued. A
command that was rejected had no effect and one that was not answered may have
had any. `_start_ntrip` and `_cleanup_ntrip` are single steps (`NtripLifecycle` has
their parts). The count of ten stuck polls and the 24 h limit are "may have been
reached" (`Survey` counts the polls). Manual receiver
commands and resets are outside. The reader keeps its port or loses it at any
time (`SerialChanges`), the survey may finish whenever the receiver surveys, and
the client may change its status at any time.

### NtripPush

`pc` is the push thread, `owner` the thread that starts, restarts and stops the
client (the API thread, or the orchestrator's monitor when `Monitored`). The
fields are shared without a lock, so each access is an action. Frames are told
apart by whether they were queued before the present socket was opened (`late`)
or since (`live`), which is all `NoStaleFrames` needs of them. Failures are DNS,
refusal or anything else, because `_run_loop` treats exactly these apart; with
automatic version detection an attempt collects the failures of both versions.

`NtripClient` knows of all this whether the thread was started, lives or is dead,
the stop event, the connected flag and what its owner has done with the client
(`Thread`, `Use`): it is started once, stopped in order, and started again only
by who stopped it for that. Its thread may outlive a stop and a restart, but one
that has ended is not connected.

Assumptions. The durations of backoff are abstracted to "ends some time", but a
wait of the push thread (four seconds or more) does not elapse between two steps
of the owner that follow each other without waiting (`LongWait`). `MaxRetries` is
at least 2; the code passes 10. Every socket operation ends, the code giving each
a timeout.

### CommandChannel

`at[w]` is the step of thread w's call of `send_command_and_wait_ack`, `loop` the
step of the reader thread, `outbound` the queue, `wire` the commands written whose
answer was not read. A command carries the name of the thread while it is waiting
for it and becomes "past" when the call returns; that is the identity needed to
say whose answer a call returned. `SendCommand` is `send_command`; a poll is not
acknowledged, other commands are. When the port is lost the rest of that loop
iteration throws the queue away, while commands queued later stay until the port
is open again, as in the code.

Nothing is assumed of the receiver's speed: a wait may time out at any moment, and
the answer may still come. `Quiet` says when a call begins with the channel to
itself, and `alone` which calls have kept it since; `heard` which have seen an
answer since they began.

### ReaderThread

`pc` is the next step of `_reader_loop`, `api` the next step of the API thread:
`Boot` and `Shutdown` are what `main.py` does to the reader when the service
starts and ends, `Reconnect` is `/reader/reconnect`; the last two share the steps
of `stop()`. `port` is `self.serial` being an open port, `mirror` is
`state.receiver.connected`, `shown` the last of the two events the clients get;
closing the port, notifying and marking are three steps in either thread, as in
`_close_serial`. `plugged` says whether the port can be opened.

Time matters in one place: the wait after a failed connection is a `time.sleep`
that the stop event does not interrupt, and `stop()` joins for five seconds. A
sleep that begins after the stop event was set may outlast the join
(`latePause`), any sleep may if `LongDelay`; everything else the thread does
takes at most the port's timeout of a second, so the join sees its end. Errors
other than those of the port, which send the loop to the same sleep, are left
out: with the threads as they are none of its steps raises one.

### LoRaPush and LossyStream

A byte is known by its position in what the base receiver produced, a frame is a
sequence of bytes, `buffer` and `queue` are what the code calls so. A write may
send all, a part, or, without a port, nothing of its packet; an error may close
the port. The owner removes the callback before it stops the client, but the
reader may already hold a copy of it (`handing`), as `_process_messages` copies
the list under the lock and calls outside it. Every write and every wait of the
thread ends (`write_timeout`); opening a port takes less than the join.

`LossyStream` is what a correction link owes its rovers: of the bytes accepted each
goes out at most once and none after a later one. `LoRaPush` implements it with
`pending` the set of the bytes in the buffer and the queue (`Waiting`), which loses
nothing of their order, since a byte is its position; that buffer and queue hold
them in this order is proved (`InOrder`).

### BaseRoutes

One route is served at a time, as the handlers block the event loop. A route
that waits for answers is a list of commands still to send (`todo`), each
required or optional, and `step` says whether it sends, waits, or pauses. `line`
is the outbound queue and the serial line in one; the receiver (`tmode`, `bbr`,
`rtcm`) carries commands out in order and acknowledges, refuses or loses them,
or loses the answer. As in `CommandChannel` any answer is taken for the answer
awaited. `base`, `file`, `rtcmState`, `valid` and `ntrip` are the records the
routes keep; `file` is what can be loaded of the saved position. Its write has
three outcomes (`SavePosition`): written, not opened, or truncated and torn, which
loads as none. The code swallows the error, so `/base/fixed` reports success after
any of them and `FixedApplied` does not speak of the file. What a run saves is in
`Survey`. The orchestrator is abstracted to a state that may change at any
time, to a run that may send commands whenever one is active (`RunCommand`
sets `disturbed`), and to what `abort()` does.

Assumptions. `Prompt` says that a timeout, and the pause of 0.5 s between two
steps, are long enough: what is on its way then has arrived or is lost
(`Settled`). It is not assumed after `abort()`, whose two commands are queued
just before the route's first. The reset is modelled as what it does to the three settings that matter
here: what was in RAM only is gone.

### NtripLifecycle

`at[a]` is the next step of the orchestrator thread ("run") or of the API thread
in an operation on a client, `purpose[a]` which operation it is: a start
(`_start_ntrip`, `start_ntrip_direct`), a drop (`_cleanup_ntrip` in
`stop_ntrip_direct`, `abort`, `stop` and the exception handler of the run loop)
or a restart by the monitor. Every start begins with a clean-up, so the three
share their steps: `Unhook`, `Take`, the four of `NTRIPPushClient.stop`, `Unset`,
`Publish`, `Hook`, `Launch`. `mine[a]` is the client thread a holds in a local
variable, `slot` is `_ntrip_client`, `hook` the client whose `put_rtcm` the
reader calls. A client is a number in the order of creation. `overlaps` counts
the operations that began while the other thread was in the middle of one. `Use`
reads what has been done with a client from `slot` and from the thread that is busy
with it.

Assumptions. The join ends, whether the client's thread does or not. A thread
ends when told, or when it is not connected (the third refusal). What the reader
is doing with the old callback meanwhile is in `NtripPush`.

### Survey

`pc` is the next step of the run from phase 1b (`stop`, `clear`) over the saved
position (`load`, `fixSaved`), the survey (`start`, the poll loop `poll`, `judge`,
`test`, a restart `restop`, `restart`) to its application and saving (`apply`,
`read`, `open`, `write`). `asked` says that the command of that step is under way.
A position is known by the survey it comes from, the observation time and whether
the survey was complete. `status` is the live object the run reads without the
lock while the reader updates it, flags first (`FileReport`), position last
(`FilePosition`). `Ignored` is the rule of `_update_survey_state` for empty
reports. The file is absent, torn or whole; `linked` says that the file the run
has open has not been deleted meanwhile. `Crash` ends the service at any step and
starts it again; the receiver goes on. `trouble` records what has come between a
run and its receiver: an abort, a stop command without an answer, a read in the
middle of an update, a restart.

Assumptions. Commands, and reports with answers, arrive in order; a command may
be refused or lost, an answer lost. A wait for an answer (`GivesUp`, eight
seconds) outlasts what is under way. The receiver reports zeroes for the position
until it has observed something, and may report whenever it likes. The manual
save of `/base/fixed` is in `BaseRoutes`.

## 3. Runs

| run | asks | answer |
|---|---|---|
| `Autoflow_safe` | types, triggers, STREAMING and `BaseStation` under every call and reply, crashes and recovery included | hold |
| `Autoflow_live` | accepted triggers are served; shutdown ends the thread; crashes recover | hold |
| `Autoflow_lost_abort` | is an aborted run never streaming? | no: the abort is overwritten by the next `_set_state` |
| `NtripPush_monitored` | types, stale frames, bounded retries, leaks, DNS outages, `NtripClient`; stop ends the thread; a client keeps trying | hold |
| `CommandChannel` | no answer older than the call with two threads; own answer and none missed for a call that has the channel to itself | hold |
| `ReaderThread` | types, release at shutdown, true status, reopening, stopping | hold |
| `ReaderThread_reconnect` | does a thread reopen the port after `/reader/reconnect`? | no: start() may find the old one, which then ends |
| `LoRaPush` | types, release of the port, `LossyStream`; does every byte accepted leave queue and buffer, even a rest that fills no packet | hold |
| `BaseRoutes` | types; is the receiver at the recorded position after `/base/fixed`, and after a reset; does it ever stay at the old one; does every route return; all when answers are prompt | hold |
| `BaseRoutes_late` | the second of these when answers may be late | no: the answer to an earlier command is taken for this one's |
| `NtripLifecycle` | types; does a client nobody can stop any more come from overlapping operations only, one from each at most; without overlaps, is the published client the only one and the one that is fed, and has every client one owner that keeps to `NtripClient` | hold |
| `Survey` | types; is what ends the poll loop the fresh, complete result; is what can be loaded a position the receiver was fixed at; is a survey that stands still noticed | hold |

Bounds. `Autoflow` counts nothing, so its instances are finite as they are and
calls repeat without limit. `Autoflow_safe` allows all calls, all replies and a
link that comes and goes, for a station with a caster (2.7 million states); what
it leaves out, the shorter path of a station without one, is in `Autoflow_live`
and in the theorems, which hold for both. `Autoflow_live` has the calls that
start, interrupt or crash a run and the shutdown, with a receiver that
acknowledges: a reply that does not come only sends the thread to a step from
which it returns to its wait. `NtripPush` is bounded by its own limits: three
retries (the code: 10) and three queued frames (500) are enough to reach the
limit, cross it by a restart, come back from a cooldown and have late frames in
front of live ones. The third refusal is a constant of the code. In
`CommandChannel` two threads are all that call `send_command_and_wait_ack` at the
same time (the orchestrator and the API thread); `QueueMax` is 2 (the code: 100 or
more) so that the queue fills up, and `WireMax`, the one bound that is not in the
code, is 3: one more than the commands needed for an answer to be taken for
another's. The two threads are interchangeable, hence the symmetry set; it is used
with invariants only.

`ReaderThread` counts to its own limit (3; the code: 10) and is finite otherwise.
`LoRaPush` has packets of 2 bytes (240), frames of 1 and 3, shorter and longer
than a packet, a queue of two and `MaxBytes`, its one bound, of six: enough to
fill the queue, leave a rest behind full packets and reconnect with frames
waiting. It also ends the stream: frames that come faster than `get_nowait` takes
them would keep the thread in that loop, which a serial line at its baud rate
cannot do. `BaseRoutes` bounds the calls of routes by two (`MaxCalls`), one to leave
something behind and one to meet it; the queue holds two commands (100), which
an abort fills, and the two positions are the one the routes never save and
another. `Flows` has a state the routes warn of and one they do not.

`NtripLifecycle` bounds the clients by three and the overlaps by two
(`MaxClients`, `MaxOverlaps`): one to be replaced, one that replaces it, and one of
the other thread; a start in a start in a restart needs two overlaps (243 000
states). `Survey` bounds the receiver's surveys by two, an old one and a new one,
and the time of a survey by one (`MaxSurveys`, `ObsMax`), the commands and the
reports and answers under way by one each (`OutMax`, `WireMax`), which is what a
run that waits for each of its answers needs, an abort being able to fill the
queue first; two polls without progress make a survey stuck (the code: ten). It
has 1.06 million states.

Deadlock is checked in the `Autoflow` and `CommandChannel` runs; in `Autoflow` the
state after shutdown stutters explicitly. `NtripPush` really ends, when its client
is stopped.

Fairness. `Autoflow` and `NtripPush` assume weak fairness of their threads: each
step is a piece of straight-line code or a wait with a timeout, and the operating
system runs every thread. In `Autoflow` nothing is assumed of the users, the
link, the survey or the caster. In `NtripPush` nothing is assumed of the caster
except that an attempt ends, which the socket timeouts ensure. `CommandChannel`
has safety properties only. `ReaderThread` assumes that the thread runs and that
a call the API has begun goes on, `LoRaPush` that its push thread runs; nothing of
cables, users or frames. `BaseRoutes` assumes that a route goes on, each of its
waits having a timeout, and that the line moves. `Survey` assumes that the run and
the reader take their steps and that commands leave the queue; the receiver owes
nothing, so that `FrozenNoticed` is also about one that says nothing any more.
`NtripLifecycle` has safety properties only.

## 4. Proofs

All theorems hold for every value of the constants that satisfies the named
assumptions of the modules.

`AutoflowProofs`. `TypeCorrect` is inductive as it stands. `StreamingHasBase`
alone is not: it is proved through `BaseInv`, which says that a disturbance is
noticed while it happens (`DisturbanceSeen`), what an undisturbed run has done to
the receiver at each step (`RunKeepsBase`), and at which steps the state can be
STREAMING (`StreamingWhere`). `TriggerNotLost` is proved through `TriggerInv`,
which adds that nothing runs before `start` and that the trigger of the crash
handler cannot be ignored (`RecoveryAccepted`, itself a theorem: it is why
`RecoverLock` has one branch only).

`ImplementsStationAlways`: every step of `Autoflow` is one of `BaseStation` or leaves
its variables alone. The abstract guards are about `state` and the receiver, the
concrete ones about `pc`, so the invariant has to say what the state is at every
step of an undisturbed run (`StateWhere`: a trigger may have taken it back to
WAITING_SERIAL) and, beside `BaseInv` and `TriggerInv`, that the stop event
stands once a shutdown has set it (`StopStands`); together `StationInv`. A request is
in the event or in one step of either thread; each lemma shows a group of steps to
be requests, beginnings, changes of state, commands or disturbances.

`NtripPushProofs`. `NoStaleFrames` and `NoLeak` are proved through `SessionInv`:
before the first start nothing has happened; while the thread is between
`ClearQueue` and the end of the session no late frame is queued if a socket is
open; and at the steps where the thread has no session the socket is closed and
the flag clear. The owner may close the socket at any of these steps; closing it
turns the live frames into late ones but leaves no socket to send them on.

`RetriesBounded` and `DnsOutageHarmless` are proved through `CountInv`: the limits
at every step of the thread (`Bounds`), when the stop event stands (`OwnerInv`),
who may have given up (`GiveUpInv`), and how many failures a thread that is being
restarted can collect before the owner forgives them (`RestartInv`): one, because
it is about to see the stop event, or two, but then it waits. This is where
`MaxRetries >= 2` is needed, and why a restart adds no attempt.

`ImplementsClientAlways` takes the steps of the push thread first, all of which are
`ConnectOrLose`, `End` or nothing to the client's owner (`ThreadStep`, `PushThreadStep`);
that a thread that ends is not connected comes from `SessionInv`. The owner's steps
need what the client is to it at each of them (`OwnerViews`) and, from `CountInv`,
what it means to do.

`CommandChannelProofs`. `FreshAnswerAlways` needs that during a call there is a
result only if the call has seen an answer (`ResultHeard`). For a call that has
kept the channel to itself (`Undisturbed`) `SoleCallerGetsOwnAnswer` and
`SoleCallerMissesNothing` go through `SoleInv`: nobody else is calling, both
queues hold its command and polls only, the command is in one place at most, in
neither queue before it is queued and after it was answered, any result there is
during the call answers it, and it is there if the call has seen an answer
(`ChannelInv`).

`ReaderThreadProofs`. `ShutdownReleases` needs to know where the thread can be
once the join has ended: asleep, past its last test of the stop event, or dead.
`StatusTrue` is proved through an invariant that says which of the three steps of
a close are still to come, in whichever thread, and that the two threads do not
close at the same time.

`LoRaPushProofs`. `TypeCorrect` needs that there is a rest wherever the thread is
about to write one. `PortReleased` needs that a thread whose join has timed out is
past `Top` with the stop event set, so that it cannot connect again.

`ImplementsStreamAlways` goes through `InOrder` and `Within`: no byte in the client
is later than what the receiver produced or earlier than what was sent. One lemma
each says what taking a frame from the queue, queuing one and sending a packet do
to sequences of ordered bytes, whatever the client; the steps of the thread are
cases of these. A write that fails may have sent any part of its packet, so what
leaves `pending` is the whole packet while `last` is a byte of it or stays. The
mapping to a set of bytes makes this possible: flattening the queue to one sequence
would take an induction over data.

`BaseRoutesProofs`. `TypeCorrect` needs that a route that sends has a command to
send (`Pending`). `FixedAppliedAlways` and `NoStalePositionEver` hold if answers are
prompt (the constant `Prompt`); without it the run `BaseRoutes_late` refutes the
first. The invariant says what a `/base/fixed` has still to send at each step
(`Course`) and, as long as no run disturbs it, what its earlier commands have done
to the receiver and what is on the line (`Undisturbed`, with a part for each step
of the route): between two steps the line is empty, so the command that is put on
it is alone there and the answer is its own.

`NtripLifecycleProofs`. `PublishedIsFedAlways` goes through `SingleInv`: without an
overlap, at most one thread is inside an operation, `slot` and `hook` are at each of
its steps what the steps before it have left (`Stage`), and every client that runs
without having been told to stop is the published one or about to be told
(`Known`). `OrphansBoundedAlways` allows overlaps and goes through `OverlapInv`: the
clients that run, or will be launched, with nobody left to stop them (`Lost`), plus
how many more the operations under way can still lose (`Danger`), never exceed the
overlaps so far. The danger is one if a client is published that somebody is about
to replace without having seen it (`Exposed`), and one if two operations are under
way that have yet to look or that have yet to publish (`Contested`). A step that
loses the published client uses up danger; only an overlap adds to it.

`OneOwnerEachAlways` shows every step without an overlap to be, for each client, one
of `NtripClient`'s or none. Its invariant `OneOwner` says that a client not yet
created is untouched (`Unborn`), that a published one was started or is about to be
(`Started`), and what the client a thread is busy with has seen of its owner by each
step of the operation (`Owned`). Since one thread at most is busy, the use of its
client follows from its step and the use of every other from `slot` (`UseWith`),
before the step and after it; the step then has a case for the client it is about
and one for the others, and what a thread does between operations shows in none
(`AsideLife`).

`SurveyProofs`. `ResultIsFreshAlways` goes through `FreshInv`, which follows a run
without an abort. While it waits for the answer to its stop the command or its
answer is in one place (`Stopping`: `StopAlone`, `OneAnswer`); once the stop was
answered the receiver has left the old survey, and since reports and answers come
in order no report of it is on the way any more: what is on the wire or half filed
is empty or of a survey begun since (`Stopped`, `AllFresh`). From the clearing of
the flags on a status that is valid has a fresh complete position, or a half-filed
report is about to give it one (`Cleared`, `StatusFresh`). The position is not
cleared by the code; the proof shows that it need not be.

`SavedIsFixedAlways` adds what nothing in the run guarantees by itself: the status is
read when the loop ends, when the receiver is fixed and when the file is written,
while reports keep coming. `Agree` shows that a result once reported complete is not
taken back: later reports are of a later survey, repeat it, or are empty (`Backed`,
`Upheld`), wherever they are. A run without any trouble begins at most one survey
(`Counted`), its command and answer are the only ones (`Attended`), so from the end
of the loop on the three reads give the same position (`Settled`), and a yes to the
last command means the receiver was fixed at it (`FixedThere`).

Every invariant, every action property and every refinement the passing runs check
is proved. Model-checked only: liveness (`TriggerServed`, `StopExits`,
`CrashRecovers`, `KeepsTrying`, `NoByteLingers`, `PortReopens`, `RouteReturns`,
`FrozenNoticed`), which rests on fairness and ENABLED, out of the prover's
reach; and the finite counterexamples of section 5.

## 5. Findings

Three statements in docstrings that the code does not keep, each with the run
that shows it; PROJECT.json quotes them.

- An abort that falls between a `_halted()` test and the next `_set_state` is
  overwritten, and the run goes on to STREAMING (`Autoflow_lost_abort`).
- `/reader/reconnect` while the reader waits before its next attempt may leave
  no reader at all: `stop()` gives up its join, `start()` finds the thread alive,
  and the thread ends at its next test of the stop event
  (`ReaderThread_reconnect`).
- A late answer is taken for the answer to the next command: `/base/fixed` may
  report success and save a position the receiver refused (`BaseRoutes_late`).

Modelling the code showed further behaviour that a reader of its comments may not
expect, without a run of its own:

- A run halted before the survey falls through and enables RTCM without a base
  position (`autoflow.py` 619, 767, 808).
- `/autoflow/disable` aborts nothing and `/autoflow/enable` triggers nothing: the
  routes change the object `save_config` compares with (`routes.py` 1186, 1211;
  `autoflow.py` 233).
- The loss of a caster connection is never reported to the disconnected callback
  (`ntrip_push.py` 532), and the restart of a stale client may find the old
  thread alive and leave none (`autoflow.py` 913-918).
- A trigger during the first phases of a run is not ignored (`autoflow.py` 199,
  202) and leads to a second run; an abort during the 120 s recovery delay does
  not cancel the recovery (401); the RTCM-on command of a run may follow the
  RTCM-off command of an abort (222, 808).
- The third refusal of a caster ends the client while the run keeps waiting for
  it (838-840, `ntrip_push.py` 205).
- With two callers of `send_command_and_wait_ack`, one may return None although
  its answer arrived in time (`reader.py` 230-248).
- `/mode/base` sends no RTCM command and records RTCM as enabled (`routes.py`
  769-798).
- `/base/fixed` saves its position "so next reboot autoflow uses these coordinates
  directly" (`routes.py` 982), but an error of the write is swallowed
  (`autoflow.py` 338) and the route reports success: the file may still be the
  old one, or be torn and count as none.
- The docstring of `/base/fixed` calls its default layer "RAM (volatile)"
  (`routes.py` 839); the default is RAM and BBR (860-866, as `schemas.py` 302
  has it), so that the position survives a reset, as `FixedApplied` says.
- What arrives at the LoRa client during its 50 ms wait goes out with the rest as
  one packet of any length, and frames still queued at `stop()` are dropped
  (`lora_push.py` 11, 17, 188).
- A stop or an abort that overlaps a start leaves a client that is started
  afterwards and that nobody owns (`autoflow.py` 970), although `_cleanup_ntrip`
  (976) is there to stop it; one for each overlap at most (`OrphansBounded`).
- Phase 1b does not test the answer to its stop command (`autoflow.py` 522, comment at 530):
  if it was not heard, a receiver that goes on reporting its completed survey ends
  the new run's poll loop with the old result.
- The survey status is handed out by reference (`state.py` 161-164) and updated
  field by field while the run reads it: a read in the middle finds the new flags with the old
  position.
- A result that arrives while a stuck survey is being restarted may be applied, and
  the file be written from the reports of the second survey.
- The high-precision residual of a coordinate is truncated before it is scaled
  (`commands.py` 53, 60, 68), so that these fields, "the fractional part beyond
  standard precision", are zero whenever they are derived.
- The watchdog for a silent receiver never fires: `UBXReader.read()` returns a
  pair, never None (`reader.py` 418-428).

## 6. Plan

Done: `Autoflow` with `BaseStation`, `NtripPush` and `NtripLifecycle` with
`NtripClient`, `CommandChannel`, `ReaderThread`, `LoRaPush` with `LossyStream`,
`BaseRoutes` and `Survey`, their runs, and theorems about each of them. One run asks
several questions of a module wherever one instance serves them all, so that the
whole stays quick to check.

Dropped: the queue of `NtripPush` as a `LossyStream`. The model tells its frames apart
only by the connection they were queued in; their order would hold by the shape of
the model, and what can go wrong with them is `NoStaleFrames`.

What remains:

1. The channel that `Survey` and `BaseRoutes` assume (commands and answers in order,
   an answer taken for the command awaited) as an abstract specification that
   `CommandChannel` implements for a caller that has it to itself.
2. What `BaseStation` could promise of a disturbed run: which commands may still
   reach the receiver after an abort, and until when.

## 7. Not modelled

Socket.IO handlers, the broadcast loop and the OLED process only read and forward
state. Schemas, configuration, serial port discovery and the set-up scripts have
no state or run outside the service. The UBX parser, the command encodings and the
geodesy are pure conversions, the scaling of positions and the ECEF/LLH formulas in
floating point, which neither TLC nor TLAPS has: `BaseRoutes` models what a command
does, not its fields. The bytes of the NTRIP handshakes, statistics, logging and
emitted events are left out of the modelled components, and so are the read-only
routes, whose handlers change nothing.
