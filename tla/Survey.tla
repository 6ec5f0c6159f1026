------------------------------- MODULE Survey -------------------------------
(***************************************************************************)
(* The survey of app/gnss/autoflow.py and the position it saves: phases 1b *)
(* to 2 of a run against a receiver that reports NAV-SVIN whenever it      *)
(* likes, the reader thread that files the reports in the shared survey    *)
(* status (reader.py, state.py), the stuck counter and its restarts, and   *)
(* the position file through crashes of the service.                       *)
(*                                                                         *)
(* Commands go out in order, reports and answers come back in order; an    *)
(* answer carries no name and is taken by whoever waits.  A position is    *)
(* the survey it comes from, the observation time and whether the survey   *)
(* was complete; three coordinates are read and written as one.            *)
(***************************************************************************)
EXTENDS Naturals, Sequences

CONSTANTS
    MaxSurveys,     \* bound: surveys the receiver begins
    ObsMax,         \* bound: observation time of a survey
    StuckLimit,     \* polls without progress before a restart (10)
    OutMax,         \* bound: commands on their way to the receiver
    WireMax         \* bound: reports and answers on their way back

ASSUME MaxSurveysAssumption == MaxSurveys \in Nat
ASSUME ObsMaxAssumption == ObsMax \in Nat \ {0}
ASSUME StuckLimitAssumption == StuckLimit \in Nat \ {0}
ASSUME OutMaxAssumption == OutMax \in Nat \ {0}
ASSUME WireMaxAssumption == WireMax \in Nat \ {0}

VARIABLES
    (* the run *)
    pc,             \* what it does next
    asked,          \* it waits for the answer to the command of this step
    result,         \* the answer the reader has left for it
    halted,         \* the state is IDLE again: aborted
    last, stuck,    \* _last_obs_time, _stuck_count
    held,           \* the position in its hands
    (* the reader thread *)
    status,         \* the shared SurveyStatus
    half,           \* the report whose flags are in status, its position not yet
    (* the file *)
    file,           \* whether base_position.json is there, and can be parsed
    saved,          \* the position it was last written with
    linked,         \* the file the run has open is still that file
    (* the link and the receiver *)
    out, wire,
    mode, survey, obs, valid,
    (* history *)
    mark,           \* the receiver's surveys before this run
    trouble,        \* what has come between this run and the receiver
    fixedAt,        \* the complete results the receiver has been fixed at
    trusted         \* the file was written by a run without trouble

run      == <<pc, asked, result, halted, last, stuck, held>>
reader   == <<status, half>>
disk     == <<file, saved, linked>>
link     == <<out, wire>>
receiver == <<mode, survey, obs, valid, fixedAt>>
history  == <<mark, trouble, trusted>>

vars == <<run, reader, disk, link, receiver, history>>

-----------------------------------------------------------------------------
(* Positions, reports, commands                                            *)

Position == [survey : 1 .. MaxSurveys, obs : 1 .. ObsMax, final : BOOLEAN]

NoPosition == [survey |-> 0, obs |-> 0, final |-> FALSE]

\* A file that is torn is cut short and cannot be parsed.
Files == {"absent", "torn", "whole"}

Report == [is : {"svin"}, active : BOOLEAN, valid : BOOLEAN,
           survey : 0 .. MaxSurveys, obs : 0 .. ObsMax]

NoReport == [is |-> "none"]

\* The mean position of a report: zeroes until something was observed.
PositionOf(r) ==
    IF r.obs = 0 THEN NoPosition
    ELSE [survey |-> r.survey, obs |-> r.obs, final |-> r.valid]

Answer == [is : {"answer"}, ok : BOOLEAN]

\* The steps that send a command and wait for its answer.
Calls == {"stop", "fixSaved", "start", "restop", "restart", "apply"}

Polling == {"poll", "judge", "test"}

Steps == {"idle", "clear", "load", "read", "open", "write", "done"} \union Calls \union Polling

Commands == [do : {"stop", "start"}] \union [do : {"fix"}, at : Position \union {NoPosition}]

CommandOf(p, at) ==
    CASE p \in {"stop", "restop"}   -> [do |-> "stop"]
      [] p \in {"start", "restart"} -> [do |-> "start"]
      [] OTHER                      -> [do |-> "fix", at |-> at]

-----------------------------------------------------------------------------
(* The receiver                                                            *)

\* A survey goes on, or it does not: a step of this need never come.
Observe ==
    /\ mode = "survey" /\ ~valid
    /\ \/ obs < ObsMax /\ obs' = obs + 1 /\ UNCHANGED valid
       \/ obs > 0 /\ valid' = TRUE /\ UNCHANGED obs
    /\ UNCHANGED <<run, reader, disk, link, mode, survey, fixedAt, history>>

\* NAV-SVIN, polled by the run or by a client or sent every second: empty
\* unless the receiver surveys or has just surveyed.
ReportSvin ==
    /\ Len(wire) < WireMax
    /\ wire' = Append(wire,
                 IF mode = "survey"
                 THEN [is |-> "svin", active |-> ~valid, valid |-> valid, survey |-> survey, obs |-> obs]
                 ELSE [is |-> "svin", active |-> FALSE, valid |-> FALSE, survey |-> 0, obs |-> 0])
    /\ UNCHANGED <<run, reader, disk, out, receiver, history>>

CarryOut(c) ==
    CASE c.do = "stop" -> /\ mode' = "off"
                          /\ obs' = 0 /\ valid' = FALSE
                          /\ UNCHANGED <<survey, fixedAt>>
      [] c.do = "start" -> /\ survey < MaxSurveys
                           /\ mode' = "survey" /\ survey' = survey + 1
                           /\ obs' = 0 /\ valid' = FALSE
                           /\ UNCHANGED fixedAt
      [] OTHER -> /\ mode' = "fixed"
                  /\ obs' = 0 /\ valid' = FALSE
                  /\ fixedAt' = IF c.at.final THEN fixedAt \union {c.at} ELSE fixedAt
                  /\ UNCHANGED survey

\* A command is carried out, or refused or lost; its answer arrives, or not.
Obey ==
    /\ out # <<>>
    /\ out' = Tail(out)
    /\ \E done \in BOOLEAN, heard \in BOOLEAN :
         /\ IF done THEN CarryOut(Head(out)) ELSE UNCHANGED receiver
         /\ IF heard
              THEN /\ Len(wire) < WireMax
                   /\ wire' = Append(wire, [is |-> "answer", ok |-> done])
              ELSE UNCHANGED wire
    /\ UNCHANGED <<run, reader, disk, history>>

-----------------------------------------------------------------------------
(* The reader thread                                                       *)

\* Mutant of Ignored: an empty report is filed like any other.
IgnoredNever(r) == FALSE

\* _update_survey_state: an empty report leaves an existing result alone.
Ignored(r) ==
    /\ ~r.active /\ ~r.valid /\ r.obs = 0
    /\ status.valid \/ status.obs > 0 \/ status.at # NoPosition

\* update_survey sets the fields one after the other, the position last; who
\* reads the status meanwhile does not hold the lock.
FileReport ==
    /\ half = NoReport
    /\ wire # <<>> /\ Head(wire).is = "svin"
    /\ wire' = Tail(wire)
    /\ IF Ignored(Head(wire))
         THEN UNCHANGED reader
         ELSE /\ status' = [status EXCEPT !.valid = Head(wire).valid, !.obs = Head(wire).obs]
              /\ half' = Head(wire)
    /\ UNCHANGED <<run, disk, out, receiver, history>>

FilePosition ==
    /\ half # NoReport
    /\ status' = [status EXCEPT !.at = PositionOf(half)]
    /\ half' = NoReport
    /\ UNCHANGED <<run, disk, link, receiver, history>>

\* An answer nobody waits for is forgotten: the next call clears the result.
FileAnswer ==
    /\ half = NoReport
    /\ wire # <<>> /\ Head(wire).is = "answer"
    /\ wire' = Tail(wire)
    /\ result' = IF ~asked THEN result ELSE IF Head(wire).ok THEN "ack" ELSE "nak"
    /\ UNCHANGED <<pc, asked, halted, last, stuck, held, reader, disk, out, receiver, history>>

-----------------------------------------------------------------------------
(* The run                                                                 *)

\* Trouble t comes between the run and the receiver; after an abort it is all one.
Note(t) == trouble' = IF "abort" \in trouble THEN trouble ELSE trouble \union t

\* A read of the status may fall into the middle of an update.
Mid == IF half = NoReport THEN {} ELSE {"torn read"}

\* A run begins; answers to commands of an earlier one may still be under way.
RunBegins ==
    /\ pc = "idle"
    /\ pc' = "stop"
    /\ halted' = FALSE
    /\ mark' = survey
    /\ trouble' = IF out = <<>> /\ (\A i \in DOMAIN wire : wire[i].is = "svin")
                  THEN {} ELSE {"abort"}
    /\ UNCHANGED <<asked, result, last, stuck, held, reader, disk, link, receiver, trusted>>

\* send_command_and_wait_ack: the position of the survey is read here.
Call ==
    /\ pc \in Calls /\ ~asked
    /\ Len(out) < OutMax
    /\ out' = Append(out, CommandOf(pc, IF pc = "apply" THEN status.at ELSE held))
    /\ held' = NoPosition
    /\ Note(IF pc = "apply" THEN Mid ELSE {})
    /\ asked' = TRUE
    /\ UNCHANGED <<pc, result, halted, last, stuck, reader, disk, wire, receiver, mark, trusted>>

\* What follows an answer, TRUE or not.
Proceed(ok) ==
    /\ pc' = CASE pc = "stop"     -> "clear"
               [] pc = "fixSaved" -> IF ok THEN "done" ELSE IF halted THEN "idle" ELSE "start"
               [] pc = "start"    -> IF ok THEN "poll" ELSE "idle"
               [] pc = "restop"   -> "restart"
               [] pc = "restart"  -> IF ok THEN "test" ELSE "idle"
               [] OTHER           -> IF ok THEN "read" ELSE "idle"
    /\ IF pc \in {"start", "restop"}
         THEN last' = 0 /\ stuck' = 0
         ELSE UNCHANGED <<last, stuck>>
    /\ Note(CASE pc = "stop" /\ ~ok -> {"stop unheard"}
              [] pc = "restop"      -> {"restart"}
              [] OTHER              -> {})
    /\ asked' = FALSE /\ result' = "none"
    /\ UNCHANGED <<halted, held, reader, disk, link, receiver, mark, trusted>>

Answered == asked /\ result # "none" /\ Proceed(result = "ack")

\* After eight seconds without an answer everything under way has arrived.
GivesUp == asked /\ result = "none" /\ out = <<>> /\ wire = <<>> /\ Proceed(FALSE)

\* Mutant of Clear: the coordinates are cleared, the flags are kept.
ClearPosition ==
    /\ pc = "clear"
    /\ pc' = IF halted THEN "idle" ELSE "load"
    /\ status' = IF halted THEN status ELSE [status EXCEPT !.at = NoPosition]
    /\ UNCHANGED <<asked, result, halted, last, stuck, held, half, disk, link, receiver, history>>

\* The end of phase 1b: flags and times are cleared, the position is not.
Clear ==
    /\ pc = "clear"
    /\ pc' = IF halted THEN "idle" ELSE "load"
    /\ status' = IF halted THEN status ELSE [status EXCEPT !.valid = FALSE, !.obs = 0]
    /\ UNCHANGED <<asked, result, halted, last, stuck, held, half, disk, link, receiver, history>>

\* Phase 1c: a file that cannot be parsed counts as none.
Load ==
    /\ pc = "load"
    /\ IF halted
         THEN pc' = "idle" /\ UNCHANGED held
         ELSE IF file = "whole"
         THEN pc' = "fixSaved" /\ held' = saved
         ELSE pc' = "start" /\ UNCHANGED held
    /\ UNCHANGED <<asked, result, halted, last, stuck, reader, disk, link, receiver, history>>

\* The poll is sent; the wait ends on news, or after four seconds.
Poll ==
    /\ pc = "poll"
    /\ pc' = IF halted THEN "idle" ELSE "judge"
    /\ UNCHANGED <<asked, result, halted, last, stuck, held, reader, disk, link, receiver, history>>

\* The survey is a day old, and the run fails.
Expire ==
    /\ pc = "judge" /\ ~halted
    /\ pc' = "idle"
    /\ UNCHANGED <<asked, result, halted, last, stuck, held, reader, disk, link, receiver, history>>

\* What follows when the count of polls without progress is n.
Judged(n, limit) ==
    /\ pc = "judge"
    /\ IF halted
         THEN pc' = "idle" /\ UNCHANGED <<last, stuck>>
         ELSE /\ last' = status.obs /\ stuck' = n
              /\ pc' = IF n >= limit THEN "restop" ELSE "test"
    /\ UNCHANGED <<asked, result, halted, held, reader, disk, link, receiver, history>>

\* Mutants of Judge: one poll too many; a poll without progress is not counted.
JudgeLate == Judged(IF status.obs # last THEN 0 ELSE stuck + 1, StuckLimit + 1)
JudgeUncounted == Judged(0, StuckLimit)

\* Stuck detection.
Judge == Judged(IF status.obs # last THEN 0 ELSE stuck + 1, StuckLimit)

\* The loop ends with a valid result; the position is what the run exits on.
Test ==
    /\ pc = "test"
    /\ pc' = IF halted THEN "idle" ELSE IF status.valid THEN "apply" ELSE "poll"
    /\ held' = IF pc' = "apply" THEN status.at ELSE held
    /\ Note(IF pc' = "apply" THEN Mid ELSE {})
    /\ UNCHANGED <<asked, result, halted, last, stuck, reader, disk, link, receiver, mark, trusted>>

\* The receiver is fixed: base_reference and the save read the status again.
ReadAgain ==
    /\ pc = "read"
    /\ pc' = "open"
    /\ held' = status.at
    /\ Note(Mid)
    /\ UNCHANGED <<asked, result, halted, last, stuck, reader, disk, link, receiver, mark, trusted>>

\* _save_base_position: the file is truncated, then written; both may fail.
Open ==
    /\ pc = "open"
    /\ \/ pc' = "write" /\ file' = "torn" /\ linked' = TRUE /\ saved' = NoPosition
          /\ trusted' = FALSE
       \/ pc' = "done" /\ UNCHANGED <<disk, trusted>>
    /\ UNCHANGED <<asked, result, halted, last, stuck, held, reader, link, receiver, mark, trouble>>

Write ==
    /\ pc = "write"
    /\ pc' = "done"
    /\ \/ /\ linked
          /\ file' = "whole" /\ saved' = held
          /\ trusted' = (trouble = {})
       \/ UNCHANGED <<file, saved, trusted>>
    /\ linked' = FALSE /\ held' = NoPosition
    /\ UNCHANGED <<asked, result, halted, last, stuck, reader, link, receiver, mark, trouble>>

\* Phases 3 and 4, and the end of the run.
RunEnds ==
    /\ pc = "done"
    /\ pc' = "idle"
    /\ UNCHANGED <<asked, result, halted, last, stuck, held, reader, disk, link, receiver, history>>

-----------------------------------------------------------------------------
(* The API thread, and the end of the service                              *)

\* abort: nobody waits for the answer to its command.
Abort ==
    /\ pc # "idle" /\ ~halted
    /\ Len(out) < OutMax
    /\ halted' = TRUE
    /\ out' = Append(out, [do |-> "stop"])
    /\ trouble' = {"abort"}
    /\ UNCHANGED <<pc, asked, result, last, stuck, held, reader, disk, wire, receiver, mark, trusted>>

\* DELETE of the saved position: a file somebody has open is gone too.
DeletePosition ==
    /\ file # "absent"
    /\ file' = "absent"
    /\ saved' = NoPosition /\ trusted' = FALSE
    /\ linked' = FALSE
    /\ UNCHANGED <<run, reader, link, receiver, mark, trouble>>

\* The service dies and is started again; the receiver goes on.
Crash ==
    /\ pc' = "idle" /\ asked' = FALSE /\ result' = "none" /\ halted' = FALSE
    /\ last' = 0 /\ stuck' = 0 /\ held' = NoPosition
    /\ status' = [valid |-> FALSE, obs |-> 0, at |-> NoPosition] /\ half' = NoReport
    /\ linked' = FALSE
    /\ out' = <<>> /\ wire' = <<>>
    /\ mark' = 0 /\ trouble' = {}
    /\ UNCHANGED <<file, saved, receiver, trusted>>

-----------------------------------------------------------------------------
Init ==
    /\ pc = "idle" /\ asked = FALSE /\ result = "none" /\ halted = FALSE
    /\ last = 0 /\ stuck = 0 /\ held = NoPosition
    /\ status = [valid |-> FALSE, obs |-> 0, at |-> NoPosition] /\ half = NoReport
    /\ file = "absent" /\ saved = NoPosition /\ linked = FALSE
    /\ out = <<>> /\ wire = <<>>
    /\ mode = "off" /\ survey = 0 /\ obs = 0 /\ valid = FALSE
    /\ mark = 0 /\ trouble = {} /\ fixedAt = {} /\ trusted = FALSE

RunStep ==
    \/ Call \/ Answered \/ GivesUp \/ Clear \/ Load \/ Poll \/ Judge \/ Test
    \/ ReadAgain \/ Open \/ Write \/ RunEnds

ReaderStep == FileReport \/ FilePosition \/ FileAnswer

Next ==
    \/ RunBegins \/ RunStep \/ Expire \/ ReaderStep
    \/ Observe \/ ReportSvin \/ Obey
    \/ Abort \/ DeletePosition \/ Crash

Spec == Init /\ [][Next]_vars

\* The threads run, and commands leave the queue; the receiver owes nothing.
FairSpec == Spec /\ WF_vars(RunStep) /\ WF_vars(ReaderStep) /\ WF_vars(Obey)

-----------------------------------------------------------------------------
(* Properties                                                              *)

\* Every variable stays within its type, the queues within their bounds, and
\* the count of polls without progress within the limit.
TypeOK ==
    /\ pc \in Steps /\ asked \in BOOLEAN /\ halted \in BOOLEAN
    /\ result \in {"ack", "nak", "none"}
    /\ last \in 0 .. ObsMax /\ stuck \in 0 .. StuckLimit
    /\ held \in Position \union {NoPosition}
    /\ status \in [valid : BOOLEAN, obs : 0 .. ObsMax, at : Position \union {NoPosition}]
    /\ half \in Report \union {NoReport}
    /\ file \in Files /\ saved \in Position \union {NoPosition} /\ linked \in BOOLEAN
    /\ out \in Seq(Commands) /\ Len(out) <= OutMax
    /\ wire \in Seq(Report \union Answer) /\ Len(wire) <= WireMax
    /\ mode \in {"off", "survey", "fixed"} /\ survey \in 0 .. MaxSurveys
    /\ obs \in 0 .. ObsMax /\ valid \in BOOLEAN
    /\ mark \in 0 .. MaxSurveys /\ trusted \in BOOLEAN
    /\ trouble \subseteq {"abort", "stop unheard", "torn read", "restart"}
    /\ fixedAt \subseteq Position

\* The poll loop has just ended with a result.
Exit == pc = "apply" /\ ~asked

\* The loop ends with the complete result of a survey begun by this run, restarted
\* or not, when its stop was answered, nobody aborted and no read was torn.
ResultIsFresh ==
    Exit /\ trouble \subseteq {"restart"} => held.survey > mark /\ held.final

\* A position that can be loaded is the complete result of a survey, and the
\* receiver has been fixed at it, if the run that saved it had no trouble:
\* whatever the receiver reports once it is fixed, and however the service ends.
SavedIsFixed ==
    trusted /\ file = "whole" => saved.final /\ saved \in fixedAt

\* A survey that makes no progress is noticed: the poll loop does not go on for
\* ever with one and the same observation time and no result.
FrozenNoticed ==
    \A o \in 0 .. ObsMax :
        pc \in Polling /\ status.obs = o
            ~> ~(pc \in Polling /\ status.obs = o)

=============================================================================
