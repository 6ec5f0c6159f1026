----------------------------- MODULE BaseRoutes -----------------------------
(***************************************************************************)
(* The routes of app/api/routes.py that command the receiver by hand, one  *)
(* at a time on the event loop: /base/fixed and /survey/start with their   *)
(* sequences of acknowledged commands, and the routes that queue a command *)
(* and answer at once.  A run of the orchestrator may command the receiver *)
(* between any two steps of a route; Autoflow says what it does.           *)
(*                                                                         *)
(* Commands travel in order; any answer is taken for the answer to the     *)
(* command a route waits for (see CommandChannel).                         *)
(***************************************************************************)
EXTENDS Naturals, Sequences

CONSTANTS
    Positions,      \* base positions
    Null,           \* a position that is never saved: 0,0 and the unset defaults
    LineMax,        \* length of the outbound queue
    Caster,         \* an NTRIP caster is configured
    Flows,          \* states of the orchestrator
    MaxCalls,       \* bound: calls of routes
    Prompt          \* commands are answered within the pause between two steps

ASSUME NullAssumption == Null \in Positions
ASSUME PositionsAssumption == Positions \intersect {"off", "survey", "none"} = {}
ASSUME LineMaxAssumption == LineMax \in Nat \ {0}
ASSUME CasterAssumption == Caster \in BOOLEAN
ASSUME FlowsAssumption == "IDLE" \in Flows /\ Flows \subseteq STRING
ASSUME MaxCallsAssumption == MaxCalls \in Nat
ASSUME PromptAssumption == Prompt \in BOOLEAN

VARIABLES
    (* the receiver *)
    tmode,          \* "off", "survey", or the position it is fixed at
    bbr,            \* what tmode becomes after a reset
    rtcm,           \* RTCM output is on
    line,           \* commands on their way to the receiver
    answer,         \* the latest answer since a route began to wait
    (* state the routes keep *)
    base,           \* state.base_reference: its position, "survey" or "none"
    baseRtcm,       \* state.base_reference.rtcm_enabled
    rtcmState,      \* state.rtcm.enabled
    valid,          \* state.survey.valid
    file,           \* the saved position that can be loaded, or "none"
    ntrip,          \* an NTRIP client is running
    (* the route being served, or the last one *)
    route, pos, want,       \* its name, position and enable_rtcm
    step,           \* "idle", "begin", "rest", "await" or "finish"
    todo,           \* the acknowledged commands it has still to send
    result,         \* its response
    (* the orchestrator *)
    flow,           \* its state
    disturbed,      \* a run has sent a command since the route began
    calls           \* routes called so far

receiver == <<tmode, bbr, rtcm>>
channel  == <<line, answer>>
records  == <<base, baseRtcm, file>>
status   == <<rtcmState, valid, ntrip>>
request  == <<route, pos, want, calls>>
course   == <<step, todo, result>>
runs     == <<flow, disturbed>>

vars == <<receiver, channel, records, status, request, course, runs>>

-----------------------------------------------------------------------------
(* Commands (app/gnss/commands.py)                                         *)

RtcmOff  == [op |-> "rtcmOff"]
RtcmOn   == [op |-> "rtcmOn"]
TmodeOff == [op |-> "tmodeOff"]
Survey   == [op |-> "survey"]
HotStart == [op |-> "reset"]

\* Fixed mode, kept through a reset (RAM and BBR) or not (RAM).
Fixed(p, keep) == [op |-> "fixed", pos |-> p, keep |-> keep]

FixedAny == {Fixed(p, keep) : p \in Positions, keep \in BOOLEAN}

Command == {RtcmOff, RtcmOn, TmodeOff, Survey, HotStart} \union FixedAny

Required(c) == [cmd |-> c, required |-> TRUE]
Optional(c) == [cmd |-> c, required |-> FALSE]

\* What an accepted command changes.
Effect(c) ==
    /\ tmode' = CASE c = TmodeOff    -> "off"
                  [] c = Survey      -> "survey"
                  [] c.op = "fixed"  -> c.pos
                  [] c = HotStart    -> bbr
                  [] OTHER           -> tmode
    /\ rtcm' = (c = RtcmOn \/ (rtcm /\ c \notin {RtcmOff, HotStart}))
    /\ bbr' = IF c.op = "fixed" /\ c.keep THEN c.pos ELSE bbr

\* Mutant of Push: the queue has no limit.
PushAlways(l, c) == Append(l, c)

\* send_command: a full queue drops the command.
Push(l, c) == IF Len(l) < LineMax THEN Append(l, c) ELSE l

-----------------------------------------------------------------------------
(* The receiver and the line                                               *)

\* Nobody looks at an answer but the route that waits for one.
Answer(a) == answer' = IF step = "await" THEN a ELSE answer

\* A command is acknowledged, refused, lost, or carried out without an answer
\* that arrives; a reset is never answered.
Serve ==
    /\ line # <<>>
    /\ line' = Tail(line)
    /\ \/ Head(line) # HotStart /\ Effect(Head(line)) /\ Answer("ack")
       \/ Head(line) # HotStart /\ UNCHANGED receiver /\ Answer("nak")
       \/ UNCHANGED receiver /\ UNCHANGED answer
       \/ Effect(Head(line)) /\ UNCHANGED answer
    /\ UNCHANGED <<records, status, request, course, runs>>

\* A survey completes and is reported.
SurveyCompletes ==
    /\ tmode = "survey" /\ ~valid
    /\ valid' = TRUE
    /\ UNCHANGED <<receiver, channel, records, rtcmState, ntrip, request, course, runs>>

\* What the pause between two steps, and a timeout, ensure of earlier commands.
Settled == Prompt /\ ~disturbed => line = <<>>

-----------------------------------------------------------------------------
(* The orchestrator                                                        *)

Resting == {"IDLE", "FAILED"}

\* Runs start, by a trigger or a recovery, go on and end.
FlowChanges ==
    /\ flow' \in Flows \ {flow}
    /\ UNCHANGED <<receiver, channel, records, status, request, course, disturbed>>

RunCommand ==
    /\ flow \notin Resting
    /\ line = <<>>
    /\ \E c \in {RtcmOff, RtcmOn, TmodeOff, Survey} \union {Fixed(p, FALSE) : p \in Positions} :
           line' = <<c>>
    /\ disturbed' = TRUE
    /\ UNCHANGED <<receiver, answer, records, status, request, course, flow>>

\* abort(): IDLE, no client, and on a port that is open two commands without
\* waiting for their answers.
Abort ==
    /\ flow' = "IDLE"
    /\ ntrip' = FALSE
    /\ line' \in {line, Push(Push(line, RtcmOff), TmodeOff)}

-----------------------------------------------------------------------------
(* Routes that wait for answers                                            *)

\* Mutant of FixedProgram: nobody asks whether the old mode was left.
FixedHurried(p, rtcmWanted) ==
    <<Optional(RtcmOff), Optional(TmodeOff), Required(Fixed(p, TRUE))>>
        \o IF rtcmWanted THEN <<Required(RtcmOn)>> ELSE <<>>

\* /base/fixed, steps 1 to 4.
FixedProgram(p, rtcmWanted) ==
    <<Optional(RtcmOff), Required(TmodeOff), Required(Fixed(p, TRUE))>>
        \o IF rtcmWanted THEN <<Required(RtcmOn)>> ELSE <<>>

SurveyProgram == <<Optional(RtcmOff), Optional(TmodeOff), Required(Survey)>>

StopProgram == <<Optional(TmodeOff)>>

\* A route is called with its position and enable_rtcm, if it has them.
Call(name, p, rtcmWanted) ==
    /\ step = "idle" /\ calls < MaxCalls
    /\ calls' = calls + 1
    /\ route' = name /\ pos' = p /\ want' = rtcmWanted

\* It sends commands and waits for their answers.
Starts(program, from) ==
    /\ todo' = program
    /\ step' = from
    /\ result' = "none"
    /\ disturbed' = FALSE
    /\ UNCHANGED <<receiver, answer, records, valid>>

\* Step 0 aborts whatever the orchestrator does.
BeginFixed ==
    /\ \E p \in Positions, rtcmWanted \in BOOLEAN :
           Call("fixed", p, rtcmWanted) /\ Starts(FixedProgram(p, rtcmWanted), "begin")
    /\ Abort
    /\ rtcmState' = FALSE

\* A warning instead of an effect.
Warned(guarded, force) == flow \in guarded /\ ~force

Warn ==
    /\ result' = "warned"
    /\ UNCHANGED <<receiver, channel, records, status, step, todo, runs>>

\* /survey/start warns of a run unless it is forced, and then aborts the run.
BeginSurvey ==
    /\ Call("survey", Null, FALSE)
    /\ \E force \in BOOLEAN :
        \/ Warned({"STREAMING", "NTRIP_CONNECT", "ENABLING_RTCM", "SURVEY"}, force) /\ Warn
        \/ /\ ~Warned({"STREAMING", "NTRIP_CONNECT", "ENABLING_RTCM", "SURVEY"}, force)
           /\ IF force /\ flow \notin Resting
                THEN Abort /\ Starts(SurveyProgram, "rest")
                ELSE UNCHANGED <<flow, ntrip, line>> /\ Starts(SurveyProgram, "begin")
           /\ UNCHANGED rtcmState

\* /survey/stop.
BeginStop ==
    /\ Call("stop", Null, FALSE)
    /\ Starts(StopProgram, "begin")
    /\ UNCHANGED <<line, rtcmState, ntrip, flow>>

\* send_command_and_wait_ack, after the pause that follows an earlier step.
Issue ==
    /\ step \in {"begin", "rest"}
    /\ step = "rest" => Settled
    /\ line' = Push(line, Head(todo).cmd)
    /\ answer' = "none"
    /\ step' = "await"
    /\ UNCHANGED <<receiver, records, status, request, todo, result, runs>>

\* On to the next command.  RTCM counts as enabled from its acknowledgement on;
\* a new survey starts from a cleared survey state.
Advance ==
    /\ rtcmState' = (rtcmState \/ (route = "fixed" /\ Head(todo).cmd = RtcmOn))
    /\ valid' = (valid /\ ~(route = "survey" /\ Head(todo).cmd = TmodeOff))
    /\ todo' = Tail(todo)
    /\ step' = IF Tail(todo) = <<>> THEN "finish" ELSE "rest"
    /\ UNCHANGED result

\* The exception of a required command ends the route with an error.
Fail ==
    /\ result' = "failed"
    /\ step' = "idle"
    /\ todo' = <<>>
    /\ UNCHANGED <<rtcmState, valid>>

awaitFrame == <<receiver, line, records, ntrip, request, runs>>

Acked ==
    /\ step = "await" /\ answer = "ack"
    /\ Advance
    /\ answer' = "none"
    /\ UNCHANGED awaitFrame

\* Mutant of Unacked: an answer that is missing is as good as an ACK.
UnackedAnyway ==
    /\ step = "await"
    /\ answer = "nak" \/ (answer = "none" /\ Settled)
    /\ Advance
    /\ answer' = "none"
    /\ UNCHANGED awaitFrame

\* Mutant of Unacked: the wait has no timeout.
NakOnly ==
    /\ step = "await" /\ answer = "nak"
    /\ IF Head(todo).required THEN Fail ELSE Advance
    /\ answer' = "none"
    /\ UNCHANGED awaitFrame

\* A NAK, or no answer within eight seconds.
Unacked ==
    /\ step = "await"
    /\ answer = "nak" \/ (answer = "none" /\ Settled)
    /\ IF Head(todo).required THEN Fail ELSE Advance
    /\ answer' = "none"
    /\ UNCHANGED awaitFrame

\* _save_base_position_llh refuses some positions and swallows every error: the
\* position is written, or the file could not be opened and stays, or it was
\* truncated and what was written does not parse.
SavePosition(p) == file' \in IF p = Null THEN {file} ELSE {p, file, "none"}

\* /base/fixed restarts NTRIP, records the position and tries to save it; it
\* reports success whether that worked or not.
FinishFixed ==
    /\ step = "finish" /\ route = "fixed"
    /\ ntrip' = (ntrip \/ (want /\ Caster))
    /\ base' = pos /\ baseRtcm' = want
    /\ SavePosition(pos)
    /\ result' = "ok" /\ step' = "idle"
    /\ UNCHANGED <<receiver, channel, rtcmState, valid, request, todo, runs>>

FinishOther ==
    /\ step = "finish" /\ route # "fixed"
    /\ result' = "ok" /\ step' = "idle"
    /\ UNCHANGED <<receiver, channel, records, status, request, todo, runs>>

-----------------------------------------------------------------------------
(* Routes that answer at once                                              *)

atOnceFrame == <<receiver, answer, rtcmState, valid, step, todo, disturbed>>

AtOnce == Call("fire", Null, FALSE) /\ result' = "ok" /\ UNCHANGED atOnceFrame

\* /command, its Socket.IO event, and /rtcm/configure.
FireCommand ==
    /\ AtOnce
    /\ \E c \in {RtcmOff, RtcmOn, TmodeOff, Survey} : line' = Push(line, c)
    /\ UNCHANGED <<records, ntrip, flow>>

\* /mode/base records what it has asked for.
ModeBase ==
    /\ AtOnce
    /\ \/ line' = Push(line, Survey) /\ base' = "survey"
       \/ \E p \in Positions : line' = Push(line, Fixed(p, FALSE)) /\ base' = p
    /\ baseRtcm' = TRUE
    /\ UNCHANGED <<file, ntrip, flow>>

\* /receiver/reset warns while streaming unless it is forced.
ResetReceiver ==
    \E force \in BOOLEAN :
        \/ /\ Warned({"STREAMING", "NTRIP_CONNECT", "ENABLING_RTCM"}, force)
           /\ Call("fire", Null, FALSE) /\ Warn
        \/ /\ ~Warned({"STREAMING", "NTRIP_CONNECT", "ENABLING_RTCM"}, force)
           /\ AtOnce
           /\ IF force /\ flow # "IDLE"
                THEN /\ flow' = "IDLE" /\ ntrip' = FALSE
                     /\ line' \in {Push(l, HotStart) :
                                     l \in {line, Push(Push(line, RtcmOff), TmodeOff)}}
                ELSE line' = Push(line, HotStart) /\ UNCHANGED <<flow, ntrip>>
           /\ UNCHANGED records

\* DELETE /base/saved-position, confirmed: the file, whole or torn, is removed,
\* or there is none or it cannot be.
DeletePosition ==
    /\ Call("fire", Null, FALSE)
    /\ \/ file' = "none" /\ result' = "ok"
       \/ file' = file /\ result' = "failed"
    /\ UNCHANGED <<atOnceFrame, line, base, baseRtcm, ntrip, flow>>

-----------------------------------------------------------------------------
Init ==
    /\ tmode \in {"off"} \union Positions /\ bbr = tmode
    /\ rtcm \in BOOLEAN
    /\ line = <<>> /\ answer = "none"
    /\ base = "none" /\ baseRtcm = FALSE /\ rtcmState = FALSE /\ valid = FALSE
    /\ file = "none" /\ ntrip = FALSE
    /\ route = "fire" /\ pos = Null /\ want = FALSE
    /\ step = "idle" /\ todo = <<>> /\ result = "none"
    /\ flow = "IDLE" /\ disturbed = FALSE /\ calls = 0

RouteContinues == Issue \/ Acked \/ Unacked \/ FinishFixed \/ FinishOther

RouteBegins == BeginFixed \/ BeginSurvey \/ BeginStop \/ FireCommand \/ ModeBase
               \/ ResetReceiver \/ DeletePosition

Next == RouteContinues \/ RouteBegins \/ Serve \/ SurveyCompletes
        \/ FlowChanges \/ RunCommand

Spec == Init /\ [][Next]_vars

\* A route goes on to its end, every wait having a timeout, and the line moves.
FairSpec == Spec /\ WF_vars(RouteContinues) /\ WF_vars(Serve)

-----------------------------------------------------------------------------
(* Properties                                                              *)

LineOK == line \in Seq(Command) /\ Len(line) <= LineMax

\* Every variable stays within its type and the outbound queue within its limit.
TypeOK ==
    /\ tmode \in {"off", "survey"} \union Positions
    /\ bbr \in {"off"} \union Positions
    /\ rtcm \in BOOLEAN
    /\ LineOK
    /\ answer \in {"none", "ack", "nak"}
    /\ base \in {"none", "survey"} \union Positions
    /\ baseRtcm \in BOOLEAN /\ rtcmState \in BOOLEAN /\ valid \in BOOLEAN
    /\ file \in {"none"} \union (Positions \ {Null})
    /\ ntrip \in BOOLEAN
    /\ route \in {"fire", "fixed", "survey", "stop"}
    /\ pos \in Positions /\ want \in BOOLEAN
    /\ step \in {"idle", "begin", "rest", "await", "finish"}
    /\ todo \in Seq([cmd : Command, required : BOOLEAN])
    /\ result \in {"none", "ok", "failed", "warned"}
    /\ flow \in Flows /\ disturbed \in BOOLEAN
    /\ calls \in 0 .. MaxCalls

\* When /base/fixed reports success the receiver is fixed at that position, now
\* and after a reset (its layers are RAM and BBR, though its docstring calls the
\* default volatile), sends RTCM if asked to, and record and caster agree with
\* it, whatever commands were queued before and got lost on the way.  Of the
\* saved position success says nothing: an error of the file is swallowed.
FixedApplied ==
    route = "fixed" /\ result = "ok" /\ line = <<>> /\ ~disturbed =>
        /\ tmode = pos /\ bbr = pos
        /\ want => rtcm
        /\ base = pos
        /\ ntrip => rtcm

\* "prevent broadcasting stale position": from the acknowledgement of step 2 on
\* the receiver is fixed at the new position or at none, success or not.
Leaving == \E i \in 1 .. Len(todo) : todo[i].cmd = TmodeOff

NoStalePosition ==
    route = "fixed" /\ ~disturbed /\ ~Leaving /\ (step # "idle" \/ result = "ok")
        => tmode \in {"off", pos}

\* A route that waits for the receiver answers its client in the end, and does
\* not hold the event loop for ever.
RouteReturns == step # "idle" ~> step = "idle"

=============================================================================
