------------------------------ MODULE Autoflow ------------------------------
(***************************************************************************)
(* The autoflow orchestrator of app/gnss/autoflow.py: one background       *)
(* thread that walks a GNSS receiver from "serial connected" to "base      *)
(* station streaming", and the API thread (the asyncio event loop, on      *)
(* which every blocking route handler runs, one at a time) that triggers,  *)
(* aborts, reconfigures and shuts it down.                                 *)
(*                                                                         *)
(* The two threads share state, two threading.Events and the NTRIP client. *)
(* An action is the code between two points where the other thread can     *)
(* observe or change something: a locked section, an Event operation, a    *)
(* command handed to the receiver, a wait.  A test such as _halted() and   *)
(* the assignment it guards are two actions wherever the code releases     *)
(* the lock in between.                                                    *)
(***************************************************************************)
EXTENDS Naturals

CONSTANTS
    Replies,        \* what send_command_and_wait_ack may return while connected
    Calls,          \* the API calls the environment makes
    NtripChoices,   \* values of "an NTRIP caster is configured" a config may have
    Links           \* values gnss_reader.is_connected may take

\* True, False and None of send_command_and_wait_ack.
Reply == {"ack", "nak", "timeout"}

Call == {"start", "stop", "config", "enable", "disable",
         "ntrip_start", "ntrip_stop", "delete_position", "shutdown"}

ASSUME RepliesAssumption == Replies \subseteq Reply /\ "ack" \in Replies
ASSUME CallsAssumption == Calls \subseteq Call
ASSUME NtripChoicesAssumption == NtripChoices \subseteq BOOLEAN /\ NtripChoices # {}
ASSUME LinksAssumption == Links \subseteq BOOLEAN /\ Links # {}

VARIABLES
    (* shared between the two threads *)
    state,          \* self._state
    stopEvent,      \* self._stop_event
    triggerEvent,   \* self._trigger_event
    client,         \* self._ntrip_client: "none" or what its get_status() says
    enabled,        \* self._config.enabled
    ntripConf,      \* self._config has an NTRIP host and mountpoint
    savedPos,       \* data/base_position.json holds a usable position
    (* orchestrator thread *)
    pc,             \* the next step of _run_loop / _execute
    reply,          \* reply to the command in flight
    useSaved,       \* local use_saved of _execute
    runNtrip,       \* cfg.ntrip_host and cfg.ntrip_mountpoint of this run
    snap,           \* local status of the streaming monitor
    (* API thread *)
    api,            \* the next step of the API call being served
    (* receiver, as the orchestrator's commands leave it *)
    connected,      \* gnss_reader.is_connected
    tmode,          \* TMODE of the receiver
    rtcm,           \* RTCM messages enabled on its ports
    svinValid,      \* gnss_state.survey.valid
    (* history *)
    aborted,        \* aborted by the user, no run requested since
    disturbed       \* an abort or a shutdown touched the current run

shared   == <<state, stopEvent, triggerEvent, client>>
config   == <<enabled, ntripConf, savedPos>>
locals   == <<reply, useSaved, runNtrip, snap>>
receiver == <<tmode, rtcm, svinValid>>
history  == <<aborted, disturbed>>

vars == <<shared, config, pc, locals, api, connected, receiver, history>>

-----------------------------------------------------------------------------
(* AutoflowState.  AWAITING_CONFIRM is declared but no code enters it.     *)
States == {"IDLE", "WAITING_SERIAL", "CHECKING_POSITION", "APPLY_FIXED_BASE",
           "SURVEY", "ENABLING_RTCM", "NTRIP_CONNECT", "STREAMING", "FAILED"}

\* The states in which trigger_run ignores a trigger.
Ignoring == {"SURVEY", "ENABLING_RTCM", "NTRIP_CONNECT", "STREAMING"}

Clients == {"none", "connecting", "connected", "stale", "gaveup"}

\* Steps of _run_loop outside _execute.
LoopSteps == {"unstarted", "wait", "clear", "read", "exited"}
\* Steps of the exception handler of _run_loop.
RecoverySteps == {"crashed", "failed_cleanup", "recover_wait", "recover_idle",
                  "recover_lock", "recover_set"}
\* Steps of _execute.
RunSteps == {"set_waiting", "serial", "rtcm_off", "rtcm_off_ack", "survey_off",
             "survey_off_ack", "clear_survey", "set_checking", "load", "choose",
             "set_apply", "fix_saved", "fix_saved_ack", "choose_survey",
             "set_survey", "survey_on", "survey_on_ack", "poll",
             "restart_off", "restart_off_ack", "restart_on", "restart_on_ack",
             "survey_done", "fix_survey", "fix_survey_ack", "set_enabling",
             "rtcm_on", "rtcm_on_ack", "settle", "set_connect", "start_ntrip",
             "await", "await_log", "await_use", "await_done", "set_streaming",
             "monitor", "mon_read", "mon_gaveup", "mon_park", "mon_stale",
             "mon_flip", "mon_down", "mon_up", "set_ready"}

Steps == LoopSteps \union RecoverySteps \union RunSteps

AbortSteps == {"abort_lock", "abort_clean", "abort_rtcm", "abort_tmode", "abort_set"}
ApiSteps == {"boot", "idle", "trig_lock", "trig_set", "stop_set", "stop_join",
             "stop_clean", "down"} \union AbortSteps

Halted == stopEvent \/ state = "IDLE"

-----------------------------------------------------------------------------
(* Commands.  Both threads append to one FIFO outbound queue, so the       *)
(* receiver executes commands in the order they are handed over: the model *)
(* lets a command take effect when it is handed over and delivers the      *)
(* reply later.  That an ACK belongs to the command waited for is taken    *)
(* as given here.                                                          *)

Possible == IF connected THEN Replies ELSE {"timeout"}

\* A command that sets TMODE to t and RTCM output to r is answered with a: it
\* was executed if acknowledged, it was not if rejected, and a command whose
\* answer did not arrive may have been either.
Effect(t, r, a) ==
    \/ a \in {"ack", "timeout"} /\ tmode' = t /\ rtcm' = r
    \/ a \in {"nak", "timeout"} /\ UNCHANGED <<tmode, rtcm>>

\* send_command_and_wait_ack up to the wait.
Issue(from, t, r, to) ==
    /\ pc = from
    /\ \E a \in Possible : reply' = a /\ Effect(t, r, a)
    /\ pc' = to
    /\ UNCHANGED <<shared, config, useSaved, runNtrip, snap, api, connected,
                   svinValid, history>>

\* The wait returns; the caller goes on at to.
Answered(from, to) ==
    /\ pc = from
    /\ reply' = "none"
    /\ pc' = to

\* send_command: queued and forgotten.
Fire(t, r) == \E a \in Possible : Effect(t, r, a)

\* A step of the thread that only moves on.
Goto(from, to) ==
    /\ pc = from
    /\ pc' = to
    /\ UNCHANGED <<shared, config, locals, api, connected, receiver, history>>

\* _set_state: the new state is written whatever the old one is.
SetState(from, new, to) ==
    /\ pc = from
    /\ state' = new
    /\ pc' = to
    /\ UNCHANGED <<stopEvent, triggerEvent, client, config, locals, api,
                   connected, receiver, history>>

\* Mutant of AcceptTrigger: a run in progress does not ignore the trigger.
AcceptAlways == state' = "WAITING_SERIAL"

\* The locked section of trigger_run, when the trigger is not ignored.
AcceptTrigger ==
    /\ state \notin Ignoring
    /\ state' = "WAITING_SERIAL"

-----------------------------------------------------------------------------
(* _run_loop                                                               *)

Init ==
    /\ state = "IDLE" /\ stopEvent = FALSE /\ triggerEvent = FALSE
    /\ client = "none"
    /\ enabled \in BOOLEAN /\ ntripConf \in NtripChoices /\ savedPos \in BOOLEAN
    /\ pc = "unstarted" /\ api = "boot"
    /\ reply = "none" /\ useSaved = FALSE /\ runNtrip = FALSE /\ snap = "none"
    /\ connected \in Links
    /\ tmode \in {"off", "survey", "fixed"} /\ rtcm \in BOOLEAN
    /\ svinValid = FALSE
    /\ aborted = FALSE /\ disturbed = FALSE

Awake == triggerEvent /\ ~stopEvent /\ Goto("wait", "clear")

Exit == stopEvent /\ \E from \in {"wait", "clear"} : Goto(from, "exited")

\* The event is cleared before the state is read.
ClearTrigger ==
    /\ pc = "clear" /\ ~stopEvent
    /\ triggerEvent' = FALSE
    /\ pc' = "read"
    /\ UNCHANGED <<state, stopEvent, client, config, locals, api, connected,
                   receiver, history>>

ReadState ==
    \/ state = "IDLE" /\ Goto("read", "wait")
    \/ state # "IDLE" /\ Goto("read", "set_waiting")

\* Mutant of WakeUp: the state is read first, an event found idle cleared last.
ReadThenClear ==
    \/ state = "IDLE" /\ ~stopEvent /\ Goto("clear", "read")
    \/ /\ \/ pc = "clear" /\ state # "IDLE" /\ ~stopEvent /\ pc' = "set_waiting"
          \/ pc = "read" /\ pc' = "wait"
       /\ triggerEvent' = FALSE
       /\ UNCHANGED <<state, stopEvent, client, config, locals, api, connected,
                      receiver, history>>

WakeUp == ClearTrigger \/ ReadState

(* The exception handler: FAILED, clean up, wait 120 s, IDLE, trigger_run. *)
\* Mutant of Crash: the thread dies of the exception.
CrashUnhandled == SetState("crashed", "FAILED", "exited")

Crash == SetState("crashed", "FAILED", "failed_cleanup")

\* _cleanup_ntrip: forget the client and stop it.
FailedCleanup ==
    /\ pc = "failed_cleanup"
    /\ client' = "none"
    /\ pc' = "recover_wait"
    /\ UNCHANGED <<state, stopEvent, triggerEvent, config, locals, api,
                   connected, receiver, history>>

RecoverWait ==
    \/ stopEvent /\ Goto("recover_wait", "exited")
    \/ ~stopEvent /\ Goto("recover_wait", "recover_idle")

RecoverIdle == SetState("recover_idle", "IDLE", "recover_lock")

\* Only API triggers can come between RecoverIdle and this step and they leave
\* WAITING_SERIAL or IDLE, so the branch that ignores the trigger is dead here.
RecoverLock ==
    /\ pc = "recover_lock"
    /\ AcceptTrigger
    /\ pc' = "recover_set"
    /\ UNCHANGED <<stopEvent, triggerEvent, client, config, locals, api,
                   connected, receiver, history>>

RecoverSet ==
    /\ pc = "recover_set"
    /\ triggerEvent' = TRUE
    /\ pc' = "wait"
    /\ UNCHANGED <<state, stopEvent, client, config, locals, api, connected,
                   receiver, history>>

-----------------------------------------------------------------------------
(* _execute, phases 1 to 1c: serial, receiver reset, saved position        *)

\* cfg = self._config; from here on this run uses its own NTRIP setting.  The
\* history variable disturbed restarts with the run.
BeginRun ==
    /\ pc = "set_waiting"
    /\ state' = "WAITING_SERIAL"
    /\ runNtrip' = ntripConf
    /\ disturbed' = (api \in AbortSteps \ {"abort_lock"} \/ stopEvent)
    /\ pc' = "serial"
    /\ UNCHANGED <<stopEvent, triggerEvent, client, config, reply, useSaved,
                   snap, api, connected, receiver, aborted>>

WaitSerial ==
    \/ Halted /\ Goto("serial", "wait")
    \/ ~Halted /\ connected /\ Goto("serial", "rtcm_off")

RtcmOff == Issue("rtcm_off", tmode, FALSE, "rtcm_off_ack")
SurveyOff == Issue("survey_off", "off", rtcm, "survey_off_ack")

\* The ACKs of phase 1b are logged and otherwise ignored.
PhaseOneAck ==
    /\ \/ Answered("rtcm_off_ack", "survey_off")
       \/ Answered("survey_off_ack", "clear_survey")
    /\ UNCHANGED <<shared, config, useSaved, runNtrip, snap, api, connected,
                   receiver, history>>

ClearSurvey ==
    /\ pc = "clear_survey"
    /\ IF Halted THEN pc' = "wait" /\ UNCHANGED svinValid
                 ELSE pc' = "set_checking" /\ svinValid' = FALSE
    /\ UNCHANGED <<shared, config, locals, api, connected, tmode, rtcm, history>>

SetChecking == SetState("set_checking", "CHECKING_POSITION", "load")

\* Mutant of LoadPosition: the site check is switched on again.
LoadAndConfirm == SetState("load", "AWAITING_CONFIRM", "choose")

LoadPosition ==
    /\ pc = "load"
    /\ useSaved' = savedPos
    /\ pc' = "choose"
    /\ UNCHANGED <<shared, config, reply, runNtrip, snap, api, connected,
                   receiver, history>>

ChooseSaved ==
    \/ useSaved /\ ~Halted /\ Goto("choose", "set_apply")
    \/ ~(useSaved /\ ~Halted) /\ Goto("choose", "choose_survey")

SetApply == SetState("set_apply", "APPLY_FIXED_BASE", "fix_saved")
FixSaved == Issue("fix_saved", "fixed", rtcm, "fix_saved_ack")

\* Mutant of FixSavedAck: the saved position is used whatever the reply.
FixSavedAnyway ==
    /\ Answered("fix_saved_ack", "choose_survey")
    /\ UNCHANGED <<shared, config, useSaved, runNtrip, snap, api, connected,
                   receiver, history>>

\* A position the receiver does not acknowledge is not used: survey instead.
FixSavedAck ==
    /\ Answered("fix_saved_ack", "choose_survey")
    /\ useSaved' = (reply = "ack")
    /\ UNCHANGED <<shared, config, runNtrip, snap, api, connected, receiver,
                   history>>

\* A run that is halted here skips the survey and goes on to ENABLING_RTCM.
ChooseSurvey ==
    \/ ~useSaved /\ ~Halted /\ Goto("choose_survey", "set_survey")
    \/ ~(~useSaved /\ ~Halted) /\ Goto("choose_survey", "set_enabling")

-----------------------------------------------------------------------------
(* _execute, phase 2: survey-in                                            *)

SetSurvey == SetState("set_survey", "SURVEY", "survey_on")
SurveyOn == Issue("survey_on", "survey", rtcm, "survey_on_ack")

\* A required ACK: without it the run ends in FAILED.
Required(from, to) ==
    /\ \/ reply = "ack" /\ Answered(from, to) /\ UNCHANGED state
       \/ reply # "ack" /\ Answered(from, "wait") /\ state' = "FAILED"
    /\ UNCHANGED <<stopEvent, triggerEvent, client, enabled, ntripConf,
                   useSaved, runNtrip, snap, api, connected, tmode, rtcm,
                   svinValid, history>>

SurveyOnAck == Required("survey_on_ack", "poll") /\ UNCHANGED savedPos

\* One iteration of the poll loop that leaves it or restarts the survey; an
\* iteration that only polls again changes nothing here.  The 24 h timeout and
\* the count of 10 stuck polls are abstracted to "may have been reached".
Poll ==
    \/ Halted /\ Goto("poll", "wait")
    \/ ~Halted /\ svinValid /\ Goto("poll", "survey_done")
    \/ ~Halted /\ Goto("poll", "restart_off")
    \/ ~Halted /\ SetState("poll", "FAILED", "wait")

RestartOff == Issue("restart_off", "off", rtcm, "restart_off_ack")

RestartOffAck ==
    /\ Answered("restart_off_ack", "restart_on")
    /\ UNCHANGED <<shared, config, useSaved, runNtrip, snap, api, connected,
                   receiver, history>>

RestartOn == Issue("restart_on", "survey", rtcm, "restart_on_ack")
RestartOnAck == Required("restart_on_ack", "poll") /\ UNCHANGED savedPos

SurveyDone ==
    \/ Halted /\ Goto("survey_done", "wait")
    \/ ~Halted /\ Goto("survey_done", "fix_survey")

FixSurvey == Issue("fix_survey", "fixed", rtcm, "fix_survey_ack")

\* The surveyed position is saved after the ACK; a failed write is swallowed.
FixSurveyAck ==
    /\ Required("fix_survey_ack", "set_enabling")
    /\ IF reply = "ack" THEN savedPos' \in {savedPos, TRUE} ELSE UNCHANGED savedPos

-----------------------------------------------------------------------------
(* _execute, phases 3 and 4: RTCM, NTRIP, streaming                        *)

SetEnabling == SetState("set_enabling", "ENABLING_RTCM", "rtcm_on")
RtcmOn == Issue("rtcm_on", tmode, TRUE, "rtcm_on_ack")

RtcmOnAck == Required("rtcm_on_ack", "settle") /\ UNCHANGED savedPos

Settle ==
    \/ Halted /\ Goto("settle", "wait")
    \/ ~Halted /\ runNtrip /\ Goto("settle", "set_connect")
    \/ ~Halted /\ ~runNtrip /\ Goto("settle", "set_ready")

\* Without NTRIP the run ends here and the thread goes back to waiting.
SetReady == SetState("set_ready", "STREAMING", "wait")

SetConnect == SetState("set_connect", "NTRIP_CONNECT", "start_ntrip")

\* _start_ntrip: replace the client by a new one and start it.
StartNtrip ==
    /\ pc = "start_ntrip"
    /\ client' = "connecting"
    /\ pc' = "await"
    /\ UNCHANGED <<state, stopEvent, triggerEvent, config, locals, api,
                   connected, receiver, history>>

\* Mutant of AwaitNtrip: only an abort ends the wait, a shutdown does not.
AwaitUntilAbort ==
    \/ state = "IDLE" /\ Goto("await", "wait")
    \/ state # "IDLE" /\ client \in {"connected", "stale"} /\ Goto("await", "await_done")
    \/ state # "IDLE" /\ client \notin {"connected", "stale"} /\ Goto("await", "await_log")

AwaitNtrip ==
    \/ Halted /\ Goto("await", "wait")
    \/ ~Halted /\ client \in {"connected", "stale"} /\ Goto("await", "await_done")
    \/ ~Halted /\ client \notin {"connected", "stale"} /\ Goto("await", "await_log")

\* The periodic log reads self._ntrip_client twice, without the lock: the
\* client may be gone at the second read, and the call on None raises.
AwaitLog ==
    \/ client # "none" /\ Goto("await_log", "await_use")
    \/ Goto("await_log", "await")

AwaitUse ==
    \/ client # "none" /\ Goto("await_use", "await")
    \/ client = "none" /\ Goto("await_use", "crashed")

AwaitDone ==
    \/ Halted /\ Goto("await_done", "wait")
    \/ ~Halted /\ Goto("await_done", "set_streaming")

SetStreaming == SetState("set_streaming", "STREAMING", "monitor")

-----------------------------------------------------------------------------
(* _execute: the streaming monitor.  Every test of self._state is made     *)
(* without the lock, before _set_state takes it.                           *)

Monitor ==
    \/ Halted /\ Goto("monitor", "wait")
    \/ ~Halted /\ Goto("monitor", "mon_read")

MonitorRead ==
    /\ pc = "mon_read"
    /\ snap' = client
    /\ pc' = IF client = "none" THEN "monitor" ELSE "mon_gaveup"
    /\ UNCHANGED <<shared, config, reply, useSaved, runNtrip, api, connected,
                   receiver, history>>

MonitorGaveUp ==
    \/ snap = "gaveup" /\ state # "NTRIP_CONNECT" /\ Goto("mon_gaveup", "mon_park")
    \/ ~(snap = "gaveup" /\ state # "NTRIP_CONNECT") /\ Goto("mon_gaveup", "mon_stale")

MonitorPark == SetState("mon_park", "NTRIP_CONNECT", "mon_stale")

\* A stale client is stopped and started again (if it is still the client).
MonitorStale ==
    /\ pc = "mon_stale"
    /\ client' = IF snap = "stale" /\ state = "STREAMING" /\ client # "none"
                 THEN "connecting" ELSE client
    /\ pc' = "mon_flip"
    /\ UNCHANGED <<state, stopEvent, triggerEvent, config, locals, api,
                   connected, receiver, history>>

SnapUp == snap \in {"connected", "stale"}

MonitorFlip ==
    /\ pc = "mon_flip"
    /\ snap' = "none"
    /\ pc' = CASE ~SnapUp /\ state = "STREAMING"    -> "mon_down"
               [] SnapUp /\ state = "NTRIP_CONNECT" -> "mon_up"
               [] OTHER                             -> "monitor"
    /\ UNCHANGED <<shared, config, reply, useSaved, runNtrip, api, connected,
                   receiver, history>>

MonitorDown == SetState("mon_down", "NTRIP_CONNECT", "monitor")
MonitorUp == SetState("mon_up", "STREAMING", "monitor")

-----------------------------------------------------------------------------
(* The API thread                                                          *)

apiFrame == <<pc, locals, connected>>

\* start(): the thread runs; an enabled config triggers the first run.
Boot ==
    /\ api = "boot"
    /\ pc' = "wait"
    /\ api' = IF enabled THEN "trig_lock" ELSE "idle"
    /\ UNCHANGED <<shared, config, locals, connected, receiver, history>>

\* A route handler starts: it leads the API thread to step "to".
Serve(call, to) ==
    /\ call \in Calls
    /\ api = "idle"
    /\ api' = to

StartRoute ==
    /\ Serve("start", "trig_lock")
    /\ UNCHANGED <<shared, config, apiFrame, receiver, history>>

StopRoute ==
    /\ Serve("stop", "abort_lock")
    /\ UNCHANGED <<shared, config, apiFrame, receiver, history>>

\* save_config: act on a change of the enabled flag.
SaveConfig(was, now) == CASE now /\ ~was -> "trig_lock"
                          [] ~now /\ was -> "abort_lock"
                          [] OTHER       -> "idle"

\* POST /autoflow/config builds a new AutoflowConfig.
ConfigRoute ==
    /\ enabled' \in BOOLEAN
    /\ ntripConf' \in NtripChoices
    /\ Serve("config", SaveConfig(enabled, enabled'))
    /\ UNCHANGED <<shared, savedPos, apiFrame, receiver, history>>

\* /autoflow/enable and /disable change the flag of the live config object and
\* pass that object on, so save_config compares the new flag with itself.
FlagRoute(call, flag) ==
    /\ enabled' = flag
    /\ Serve(call, SaveConfig(enabled', flag))
    /\ UNCHANGED <<shared, ntripConf, savedPos, apiFrame, receiver, history>>

EnableRoute == FlagRoute("enable", TRUE)
DisableRoute == FlagRoute("disable", FALSE)

\* start_ntrip_direct and stop_ntrip_direct bypass the run's state.
NtripRoute ==
    /\ \/ Serve("ntrip_start", "idle") /\ client' = "connecting"
       \/ Serve("ntrip_stop", "idle") /\ client' = "none"
    /\ UNCHANGED <<state, stopEvent, triggerEvent, config, apiFrame, receiver,
                   history>>

DeletePosition ==
    /\ Serve("delete_position", "idle")
    /\ savedPos' = FALSE
    /\ UNCHANGED <<shared, enabled, ntripConf, apiFrame, receiver, history>>

(* trigger_run: the locked section, then the event.                        *)
TriggerLock ==
    /\ api = "trig_lock"
    /\ \/ AcceptTrigger /\ api' = "trig_set" /\ aborted' = FALSE
       \/ state \in Ignoring /\ api' = "idle" /\ UNCHANGED <<state, aborted>>
    /\ UNCHANGED <<stopEvent, triggerEvent, client, config, apiFrame, receiver,
                   disturbed>>

SetTrigger(from, to) ==
    /\ api = from
    /\ triggerEvent' = TRUE
    /\ api' = to
    /\ UNCHANGED <<state, stopEvent, client, config, apiFrame, receiver, history>>

\* Mutant of TriggerSet: trigger_run changes the state and does not wake the thread.
TriggerUnset ==
    /\ api = "trig_set"
    /\ api' = "idle"
    /\ UNCHANGED <<shared, config, apiFrame, receiver, history>>

TriggerSet == SetTrigger("trig_set", "idle")

(* abort: IDLE, drop the client, quiet the receiver, wake the thread.      *)
AbortLock ==
    /\ api = "abort_lock"
    /\ state' = "IDLE"
    /\ api' = "abort_clean"
    /\ aborted' = TRUE /\ disturbed' = TRUE
    /\ UNCHANGED <<stopEvent, triggerEvent, client, config, apiFrame, receiver>>

DropClient(from, to) ==
    /\ api = from
    /\ client' = "none"
    /\ api' = to
    /\ UNCHANGED <<state, stopEvent, triggerEvent, config, apiFrame, receiver,
                   history>>

\* abort's _cleanup_ntrip, and the test whether there is a receiver to quiet.
AbortClean == \E to \in {IF connected THEN "abort_rtcm" ELSE "abort_set"} :
                  DropClient("abort_clean", to)

AbortQuiet ==
    /\ \/ api = "abort_rtcm" /\ Fire(tmode, FALSE) /\ api' = "abort_tmode"
       \/ api = "abort_tmode" /\ Fire("off", rtcm) /\ api' = "abort_set"
    /\ UNCHANGED <<shared, config, apiFrame, svinValid, history>>

AbortSet == SetTrigger("abort_set", "idle")

(* stop: the stop event, the trigger event, a join with timeout, cleanup.  *)
Shutdown ==
    /\ Serve("shutdown", "stop_set")
    /\ stopEvent' = TRUE
    /\ disturbed' = TRUE
    /\ UNCHANGED <<state, triggerEvent, client, config, apiFrame, receiver,
                   aborted>>

StopSet == SetTrigger("stop_set", "stop_join")

StopJoin ==
    /\ api = "stop_join"
    /\ api' = "stop_clean"
    /\ UNCHANGED <<shared, config, apiFrame, receiver, history>>

StopClean == DropClient("stop_clean", "down")

-----------------------------------------------------------------------------
(* The environment: the serial link, the survey and the caster.            *)

SerialChanges ==
    /\ connected' \in Links \ {connected}
    /\ UNCHANGED <<shared, config, pc, locals, api, receiver, history>>

\* NAV-SVIN reports a finished survey.
SurveyCompletes ==
    /\ connected /\ tmode = "survey" /\ ~svinValid
    /\ svinValid' = TRUE
    /\ UNCHANGED <<shared, config, pc, locals, api, connected, tmode, rtcm, history>>

\* The client's own thread connects, loses the caster, goes stale, gives up.
ClientChanges ==
    /\ client # "none"
    /\ client' \in Clients \ {"none"}
    /\ UNCHANGED <<state, stopEvent, triggerEvent, config, pc, locals, api,
                   connected, receiver, history>>

-----------------------------------------------------------------------------
RunLoop ==
    \/ Awake \/ Exit \/ WakeUp
    \/ Crash \/ FailedCleanup \/ RecoverWait \/ RecoverIdle \/ RecoverLock
    \/ RecoverSet

Execute ==
    \/ BeginRun \/ WaitSerial \/ RtcmOff \/ SurveyOff \/ PhaseOneAck
    \/ ClearSurvey \/ SetChecking \/ LoadPosition \/ ChooseSaved \/ SetApply
    \/ FixSaved \/ FixSavedAck \/ ChooseSurvey
    \/ SetSurvey \/ SurveyOn \/ SurveyOnAck \/ Poll \/ RestartOff
    \/ RestartOffAck \/ RestartOn \/ RestartOnAck \/ SurveyDone \/ FixSurvey
    \/ FixSurveyAck
    \/ SetEnabling \/ RtcmOn \/ RtcmOnAck \/ Settle \/ SetReady \/ SetConnect
    \/ StartNtrip \/ AwaitNtrip \/ AwaitLog \/ AwaitUse \/ AwaitDone
    \/ SetStreaming
    \/ Monitor \/ MonitorRead \/ MonitorGaveUp \/ MonitorPark \/ MonitorStale
    \/ MonitorFlip \/ MonitorDown \/ MonitorUp

Orchestrator == RunLoop \/ Execute

\* Steps that finish what the API thread has begun.
ApiContinue ==
    \/ Boot \/ TriggerLock \/ TriggerSet
    \/ AbortLock \/ AbortClean \/ AbortQuiet \/ AbortSet
    \/ StopSet \/ StopJoin \/ StopClean

ApiCall ==
    \/ StartRoute \/ StopRoute \/ ConfigRoute \/ EnableRoute \/ DisableRoute
    \/ NtripRoute \/ DeletePosition \/ Shutdown

Environment == SerialChanges \/ SurveyCompletes \/ ClientChanges

\* After shutdown both threads are gone.
Terminated == api = "down" /\ pc = "exited" /\ UNCHANGED vars

Next == Orchestrator \/ ApiContinue \/ ApiCall \/ Environment \/ Terminated

Spec == Init /\ [][Next]_vars

\* Both threads keep running; nobody is obliged to call the API, to plug the
\* receiver in, to finish a survey or to accept a connection.
FairSpec == Spec /\ WF_vars(Orchestrator) /\ WF_vars(ApiContinue)

-----------------------------------------------------------------------------
(* Properties                                                              *)

\* Every variable stays within its type; in particular self._state never takes
\* AWAITING_CONFIRM, the site check being disabled (autoflow.py 556-583).
TypeOK ==
    /\ state \in States
    /\ stopEvent \in BOOLEAN /\ triggerEvent \in BOOLEAN
    /\ client \in Clients /\ snap \in Clients
    /\ enabled \in BOOLEAN /\ ntripConf \in BOOLEAN /\ savedPos \in BOOLEAN
    /\ pc \in Steps
    /\ api \in ApiSteps
    /\ reply \in Reply \union {"none"}
    /\ useSaved \in BOOLEAN /\ runNtrip \in BOOLEAN
    /\ connected \in BOOLEAN
    /\ tmode \in {"off", "survey", "fixed"} /\ rtcm \in BOOLEAN
    /\ svinValid \in BOOLEAN
    /\ aborted \in BOOLEAN /\ disturbed \in BOOLEAN

\* A trigger trigger_run has accepted is never lost: while the orchestrator is
\* waiting and the state asks for a run, the trigger event is set or about to
\* be.  It rests on the order in which trigger_run writes the state and sets
\* the event, and _run_loop clears the event and reads the state.
TriggerNotLost ==
    state = "WAITING_SERIAL" /\ pc = "wait" /\ ~stopEvent
        => triggerEvent \/ api = "trig_set"

\* STREAMING means what the operator reads into it: unless an abort or a
\* shutdown fell into the run, the receiver holds a fixed base position and
\* sends RTCM, whichever way (saved position, survey, fallback) led there.
StreamingHasBase ==
    state = "STREAMING" /\ ~disturbed => tmode = "fixed" /\ rtcm

\* A run is asked for until it begins: by the event and by what is on the way
\* from trigger_run to _execute.
Asked ==
    \/ triggerEvent \/ api = "trig_set"
    \/ pc \in {"clear", "read", "set_waiting", "recover_set"}

Station == INSTANCE BaseStation WITH asked <- Asked

\* The state machine of the orchestrator keeps the promise of BaseStation: an
\* undisturbed run goes through the states in order, commands the receiver only
\* where it says so, shows NTRIP_CONNECT and STREAMING only for a fixed base
\* that sends RTCM, and no run begins or ends a STREAMING one unasked.
ImplementsStation == Station!Spec

\* stop() is honoured from every step, the waits for ACKs, the survey, NTRIP
\* and the 120 s recovery delay included: the thread exits.
StopExits == stopEvent ~> pc = "exited"

\* An accepted trigger leads to a run, unless it is aborted or shut down.
TriggerServed ==
    state = "WAITING_SERIAL" ~> (pc \in RunSteps \/ state = "IDLE" \/ stopEvent)

\* A run that died of an exception is followed by another run, unless the user
\* aborts or the program shuts down.
CrashRecovers == pc = "crashed" ~> (pc = "set_waiting" \/ aborted \/ stopEvent)

-----------------------------------------------------------------------------
(* A claim of the repository that the code does not keep.                  *)

\* "Abort current run and return to IDLE" (autoflow.py 217): once an abort has
\* been answered, and with no later trigger, the station is not streaming.
NoStreamingAfterAbort == aborted /\ api = "idle" => state # "STREAMING"

=============================================================================
