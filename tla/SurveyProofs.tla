---------------------------- MODULE SurveyProofs ----------------------------
(***************************************************************************)
(* Theorems about Survey, for every number and length of surveys, limit of *)
(* polls without progress and length of the queues.                        *)
(***************************************************************************)
EXTENDS Survey, SequenceTheorems, TLAPS

-----------------------------------------------------------------------------
(* Type correctness                                                        *)

Place == Position \union {NoPosition}

\* A report of a survey names it, and only one that has observed something is
\* complete.
RealReport == {r \in Report : /\ r.obs > 0 \/ r.active => r.survey > 0
                              /\ r.valid => r.obs > 0}

Item == RealReport \union Answer

\* What a report says is a position, final if the report is valid.
LEMMA PositionTyped ==
    ASSUME NEW r \in RealReport
    PROVE  /\ PositionOf(r) \in Place
           /\ r.valid => PositionOf(r).final /\ PositionOf(r).survey = r.survey
<1>1. r.survey \in 0 .. MaxSurveys /\ r.obs \in 0 .. ObsMax /\ r.valid \in BOOLEAN
      /\ (r.obs > 0 => r.survey > 0) /\ (r.valid => r.obs > 0)
  BY DEF RealReport, Report
<1>2. CASE r.obs = 0
  BY <1>1, <1>2 DEF PositionOf, Place
<1>3. CASE r.obs # 0
  <2>1. r.survey \in 1 .. MaxSurveys /\ r.obs \in 1 .. ObsMax
    BY <1>1, <1>3, MaxSurveysAssumption, ObsMaxAssumption
  <2>2. PositionOf(r) = [survey |-> r.survey, obs |-> r.obs, final |-> r.valid]
    BY <1>3 DEF PositionOf
  <2>3. PositionOf(r) \in Position
    BY <1>1, <2>1, <2>2 DEF Position
  <2>4. QED BY <2>2, <2>3 DEF Place
<1>4. QED BY <1>2, <1>3

\* The run's steps and counters.
RunOK ==
    /\ pc \in Steps /\ asked \in BOOLEAN /\ halted \in BOOLEAN
    /\ result \in {"ack", "nak", "none"}
    /\ last \in 0 .. ObsMax

CountOK == stuck \in 0 .. StuckLimit /\ (pc # "restop" => stuck < StuckLimit)

\* The receiver.
ReceiverOK ==
    /\ mode \in {"off", "survey", "fixed"} /\ survey \in 0 .. MaxSurveys
    /\ obs \in 0 .. ObsMax /\ valid \in BOOLEAN
    /\ mode = "survey" => survey > 0 /\ (valid => obs > 0)
    /\ mode # "survey" => obs = 0 /\ ~valid

\* The positions in the hands of the run, in the status and in the file.
PlacesOK ==
    /\ held \in Place
    /\ status \in [valid : BOOLEAN, obs : 0 .. ObsMax, at : Place]
    /\ half \in RealReport \union {NoReport}
    /\ file \in Files /\ saved \in Place /\ linked \in BOOLEAN

WireOK == wire \in Seq(Item) /\ Len(wire) <= WireMax

OutOK == out \in Seq(Commands) /\ Len(out) <= OutMax

Troubles == {"abort", "stop unheard", "torn read", "restart"}

HistoryOK ==
    /\ mark \in 0 .. survey /\ trusted \in BOOLEAN
    /\ trouble \subseteq Troubles
    /\ fixedAt \subseteq Position

\* Taking the first of a sequence, and adding to it.
LEMMA TakeFirst ==
    ASSUME NEW S, NEW s \in Seq(S), s # <<>>
    PROVE  /\ Head(s) \in S /\ Tail(s) \in Seq(S)
           /\ Len(s) \in Nat /\ Len(Tail(s)) = Len(s) - 1
BY HeadTailProperties, LenProperties

\* The run's own variables stay within their types.
LEMMA RunStepOK == RunOK /\ PlacesOK /\ ReceiverOK /\ [Next]_vars => RunOK'
<1> SUFFICES ASSUME RunOK, PlacesOK, ReceiverOK, [Next]_vars PROVE RunOK'
    OBVIOUS
<1> USE DEF RunOK, run
<1>1. CASE UNCHANGED run
  BY <1>1
<1>2. CASE RunBegins \/ Call \/ Clear \/ Load \/ Poll \/ Expire
  BY <1>2 DEF RunBegins, Call, Clear, Load, Poll, Expire, Steps, Calls, Polling
<1>3. ASSUME NEW ok \in BOOLEAN, Proceed(ok) PROVE RunOK'
  <2>1. /\ asked' = FALSE /\ result' = "none" /\ halted' = halted
        /\ last' = 0 \/ last' = last
    BY <1>3 DEF Proceed
  <2>2. pc' \in {"clear", "done", "idle", "start", "poll", "restart", "test", "read"}
    BY <1>3 DEF Proceed
  <2>3. pc' \in Steps
    BY <2>2 DEF Steps, Calls, Polling
  <2>4. last' \in 0 .. ObsMax
    BY <2>1, ObsMaxAssumption
  <2>5. asked' \in BOOLEAN /\ halted' \in BOOLEAN
    BY <2>1
  <2>6. QED BY <2>1, <2>3, <2>4, <2>5
<1>4. CASE Judge
  <2>1. status.obs \in 0 .. ObsMax
    BY DEF PlacesOK
  <2>2. last' \in {last, status.obs} /\ UNCHANGED <<asked, result, halted>>
        /\ pc' \in {"idle", "restop", "test"}
    BY <1>4 DEF Judge, Judged
  <2>3. QED BY <2>1, <2>2 DEF Steps, Calls, Polling
<1>5. CASE Test \/ ReadAgain \/ Open \/ Write \/ RunEnds
  BY <1>5 DEF Test, ReadAgain, Open, Write, RunEnds, Steps, Calls, Polling
<1>6. CASE FileAnswer \/ Abort \/ Crash
  <2>1. CASE FileAnswer
    BY <2>1 DEF FileAnswer
  <2>2. CASE Abort
    BY <2>2 DEF Abort
  <2>3. CASE Crash
    <3>1. pc' = "idle" /\ asked' = FALSE /\ result' = "none" /\ halted' = FALSE /\ last' = 0
      BY <2>3 DEF Crash
    <3>2. asked' \in BOOLEAN /\ halted' \in BOOLEAN
      BY <3>1
    <3>3. last' \in 0 .. ObsMax
      BY <3>1, ObsMaxAssumption
    <3>4. QED BY <3>1, <3>2, <3>3 DEF Steps
  <2>4. QED BY <1>6, <2>1, <2>2, <2>3
<1>7. CASE FileReport \/ FilePosition \/ Observe \/ ReportSvin \/ Obey \/ DeletePosition
           \/ UNCHANGED vars
  BY <1>1, <1>7 DEF FileReport, FilePosition, Observe, ReportSvin, Obey, DeletePosition, vars
<1>8. QED BY <1>2, <1>3, <1>4, <1>5, <1>6, <1>7
          DEF Next, RunStep, ReaderStep, Answered, GivesUp

\* A count at the limit leads to a restart, which clears it.
LEMMA CountStep == RunOK /\ CountOK /\ [Next]_vars => CountOK'
<1> SUFFICES ASSUME RunOK, CountOK, [Next]_vars PROVE CountOK'
    OBVIOUS
<1> USE StuckLimitAssumption DEF CountOK
<1>1. CASE stuck' = stuck /\ pc # "restop"
  BY <1>1
<1>2. CASE UNCHANGED <<stuck, pc>>
  BY <1>2
<1>3. ASSUME NEW ok \in BOOLEAN, Proceed(ok) PROVE CountOK'
  <2>1. pc' # "restop" /\ (stuck' = 0 \/ (stuck' = stuck /\ pc # "restop"))
    BY <1>3 DEF Proceed
  <2>2. QED BY <2>1
<1>4. CASE Judge
  <2>1. pc = "judge" /\ stuck \in 0 .. StuckLimit /\ stuck < StuckLimit
    BY <1>4 DEF Judge, Judged
  <2>2. CASE halted
    BY <1>4, <2>1, <2>2 DEF Judge, Judged
  <2>3. CASE ~halted
    <3>1. stuck' \in {0, stuck + 1} /\ pc' = IF stuck' >= StuckLimit THEN "restop" ELSE "test"
      BY <1>4, <2>3 DEF Judge, Judged
    <3>2. QED BY <2>1, <3>1
  <2>4. QED BY <2>2, <2>3
<1>5. CASE RunBegins \/ Clear \/ Load \/ Poll \/ Expire \/ Test \/ ReadAgain \/ Open
           \/ Write \/ RunEnds
  BY <1>1, <1>5 DEF RunBegins, Clear, Load, Poll, Expire, Test, ReadAgain, Open, Write, RunEnds
<1>6. CASE Crash
  BY <1>6 DEF Crash
<1>7. CASE Call \/ FileAnswer \/ Abort \/ FileReport \/ FilePosition \/ Observe \/ ReportSvin
           \/ Obey \/ DeletePosition \/ UNCHANGED vars
  BY <1>2, <1>7 DEF Call, FileAnswer, Abort, FileReport, FilePosition, Observe, ReportSvin,
     Obey, DeletePosition, run, vars
<1>8. QED BY <1>3, <1>4, <1>5, <1>6, <1>7
          DEF Next, RunStep, ReaderStep, Answered, GivesUp

\* The receiver's stay within theirs, and surveys are only ever begun anew.
LEMMA ReceiverStep == ReceiverOK /\ [Next]_vars => ReceiverOK' /\ survey' >= survey
<1> SUFFICES ASSUME ReceiverOK, [Next]_vars PROVE ReceiverOK' /\ survey' >= survey
    OBVIOUS
<1> USE MaxSurveysAssumption, ObsMaxAssumption DEF ReceiverOK
<1>1. CASE UNCHANGED receiver
  <2>1. UNCHANGED <<mode, survey, obs, valid>>
    BY <1>1 DEF receiver
  <2>2. QED BY <2>1
<1>2. CASE Observe
  <2>1. CASE obs < ObsMax /\ obs' = obs + 1 /\ UNCHANGED valid
    BY <1>2, <2>1 DEF Observe
  <2>2. CASE obs > 0 /\ valid' = TRUE /\ UNCHANGED obs
    BY <1>2, <2>2 DEF Observe
  <2>3. QED BY <1>2, <2>1, <2>2 DEF Observe
<1>3. ASSUME NEW c, CarryOut(c) PROVE ReceiverOK' /\ survey' >= survey
  <2>1. CASE c.do = "stop"
    <3>1. mode' = "off" /\ obs' = 0 /\ valid' \in BOOLEAN /\ ~valid' /\ survey' = survey
      BY <1>3, <2>1 DEF CarryOut
    <3>2. QED BY <3>1
  <2>2. CASE c.do = "start"
    <3>1. /\ survey < MaxSurveys /\ survey' = survey + 1
          /\ mode' = "survey" /\ obs' = 0 /\ valid' \in BOOLEAN /\ ~valid'
      BY <1>3, <2>2 DEF CarryOut
    <3>2. QED BY <3>1
  <2>3. CASE c.do \notin {"stop", "start"}
    <3>1. mode' = "fixed" /\ obs' = 0 /\ valid' \in BOOLEAN /\ ~valid' /\ survey' = survey
      BY <1>3, <2>3 DEF CarryOut
    <3>2. QED BY <3>1
  <2>4. QED BY <2>1, <2>2, <2>3
<1>4. CASE Obey
  <2>1. CarryOut(Head(out)) \/ UNCHANGED receiver
    BY <1>4 DEF Obey
  <2>2. QED BY <1>1, <1>3, <2>1
<1>5. CASE RunBegins \/ RunStep \/ Expire \/ ReaderStep \/ ReportSvin \/ Abort
           \/ DeletePosition \/ Crash \/ UNCHANGED vars
  <2>1. UNCHANGED receiver
    BY <1>5 DEF RunBegins, RunStep, Expire, ReaderStep, ReportSvin, Abort, DeletePosition, Crash,
       vars, Call, Answered, GivesUp, Proceed, Clear, Load, Poll, Judge, Judged, Test, ReadAgain,
       Open, Write, RunEnds, FileReport, FilePosition, FileAnswer
  <2>2. QED BY <1>1, <2>1
<1>6. QED BY <1>2, <1>4, <1>5 DEF Next

\* The file and the hands of the run hold what the status held.
LEMMA PlacesStep == PlacesOK /\ WireOK /\ [Next]_vars => PlacesOK'
<1> SUFFICES ASSUME PlacesOK, WireOK, [Next]_vars PROVE PlacesOK'
    OBVIOUS
<1> DEFINE Status == [valid : BOOLEAN, obs : 0 .. ObsMax, at : Place]
<1>1. /\ held \in Place /\ saved \in Place /\ status \in Status /\ status.at \in Place
      /\ half \in RealReport \union {NoReport} /\ file \in Files /\ linked \in BOOLEAN
  BY DEF PlacesOK
<1>2. NoPosition \in Place /\ {"absent", "torn", "whole"} \subseteq Files
  BY DEF Place, Files
<1>3. held' \in Place
  <2>1. held' \in {held, NoPosition, saved, status.at}
    <3>1. CASE Call \/ Load \/ Test \/ ReadAgain \/ Write \/ Crash
      BY <3>1 DEF Call, Load, Test, ReadAgain, Write, Crash
    <3>2. CASE RunBegins \/ Answered \/ GivesUp \/ Clear \/ Poll \/ Judge \/ Open \/ RunEnds
               \/ Expire \/ ReaderStep
      BY <3>2 DEF RunBegins, Answered, GivesUp, Proceed, Clear, Poll, Judge, Judged, Open,
         RunEnds, Expire, ReaderStep, FileReport, FilePosition, FileAnswer, run
    <3>3. CASE Observe \/ ReportSvin \/ Obey \/ Abort \/ DeletePosition \/ UNCHANGED vars
      BY <3>3 DEF Observe, ReportSvin, Obey, Abort, DeletePosition, vars, run
    <3>4. QED BY <3>1, <3>2, <3>3 DEF Next, RunStep
  <2>2. QED BY <1>1, <1>2, <2>1
<1>4. status' \in Status /\ half' \in RealReport \union {NoReport}
  <2>1. CASE FileReport
    <3>1. Head(wire) \in RealReport
      <4>1. Head(wire) \in Item
        BY <2>1, TakeFirst DEF FileReport, WireOK
      <4>2. Head(wire).is = "svin"
        BY <2>1 DEF FileReport
      <4>3. QED BY <4>1, <4>2 DEF Item, Answer
    <3>2. Head(wire).valid \in BOOLEAN /\ Head(wire).obs \in 0 .. ObsMax
      BY <3>1 DEF RealReport, Report
    <3>3. UNCHANGED <<status, half>>
          \/ /\ status' = [status EXCEPT !.valid = Head(wire).valid, !.obs = Head(wire).obs]
             /\ half' = Head(wire)
      BY <2>1 DEF FileReport, reader
    <3>4. QED BY <1>1, <3>1, <3>2, <3>3
  <2>2. CASE FilePosition
    <3>1. half \in RealReport
      BY <1>1, <2>2 DEF FilePosition
    <3>2. PositionOf(half) \in Place
      BY <3>1, PositionTyped
    <3>3. status' = [status EXCEPT !.at = PositionOf(half)] /\ half' = NoReport
      BY <2>2 DEF FilePosition
    <3>4. QED BY <1>1, <3>2, <3>3
  <2>3. CASE Clear
    <3>1. half' = half /\ (status' = status \/ status' = [status EXCEPT !.valid = FALSE, !.obs = 0])
      BY <2>3 DEF Clear
    <3>2. 0 \in 0 .. ObsMax
      BY ObsMaxAssumption
    <3>3. QED BY <1>1, <3>1, <3>2
  <2>4. CASE Crash
    <3>1. status' = [valid |-> FALSE, obs |-> 0, at |-> NoPosition] /\ half' = NoReport
      BY <2>4 DEF Crash
    <3>2. 0 \in 0 .. ObsMax
      BY ObsMaxAssumption
    <3>3. QED BY <1>2, <3>1, <3>2
  <2>5. CASE RunBegins \/ Call \/ Answered \/ GivesUp \/ Load \/ Poll \/ Judge \/ Test \/ ReadAgain
             \/ Open \/ Write \/ RunEnds \/ Expire \/ FileAnswer \/ Observe \/ ReportSvin \/ Obey
             \/ Abort \/ DeletePosition \/ UNCHANGED vars
    <3>1. UNCHANGED reader
      BY <2>5 DEF RunBegins, Call, Answered, GivesUp, Proceed, Load, Poll, Judge, Judged, Test,
         ReadAgain, Open, Write, RunEnds, Expire, FileAnswer, Observe, ReportSvin, Obey, Abort,
         DeletePosition, vars
    <3>2. QED BY <1>1, <3>1 DEF reader
  <2>6. QED BY <2>1, <2>2, <2>3, <2>4, <2>5 DEF Next, RunStep, ReaderStep
<1>5. file' \in Files /\ saved' \in Place /\ linked' \in BOOLEAN
  <2>1. CASE Open \/ Write \/ DeletePosition \/ Crash
    <3>1. file' \in {file, "torn", "whole", "absent"} /\ saved' \in {saved, NoPosition, held}
          /\ linked' \in {linked, TRUE, FALSE}
      BY <2>1 DEF Open, Write, DeletePosition, Crash, disk
    <3>2. QED BY <1>1, <1>2, <3>1
  <2>2. CASE RunBegins \/ Call \/ Answered \/ GivesUp \/ Clear \/ Load \/ Poll \/ Judge \/ Test
             \/ ReadAgain \/ RunEnds \/ Expire \/ ReaderStep \/ Observe \/ ReportSvin \/ Obey
             \/ Abort \/ UNCHANGED vars
    <3>1. UNCHANGED disk
      BY <2>2 DEF RunBegins, Call, Answered, GivesUp, Proceed, Clear, Load, Poll, Judge, Judged,
         Test, ReadAgain, RunEnds, Expire, ReaderStep, FileReport, FilePosition, FileAnswer,
         Observe, ReportSvin, Obey, Abort, vars
    <3>2. QED BY <1>1, <3>1 DEF disk
  <2>3. QED BY <2>1, <2>2 DEF Next, RunStep
<1>6. QED BY <1>3, <1>4, <1>5 DEF PlacesOK

\* What is on the wire stays reports and answers.
LEMMA WireStep == WireOK /\ ReceiverOK /\ [Next]_vars => WireOK'
<1> SUFFICES ASSUME WireOK, ReceiverOK, [Next]_vars PROVE WireOK'
    OBVIOUS
<1> USE WireMaxAssumption DEF WireOK
<1>1. CASE UNCHANGED wire
  BY <1>1
<1>2. ASSUME NEW x \in Item, wire' = Append(wire, x), Len(wire) < WireMax PROVE WireOK'
  <2>1. wire' \in Seq(Item) /\ Len(wire') = Len(wire) + 1 /\ Len(wire) \in Nat
    BY <1>2, AppendProperties, LenProperties
  <2>2. QED BY <1>2, <2>1
<1>3. ASSUME wire # <<>>, wire' = Tail(wire) PROVE WireOK'
  <2>1. wire' \in Seq(Item) /\ Len(wire') = Len(wire) - 1 /\ Len(wire) \in Nat
    BY <1>3, TakeFirst
  <2>2. QED BY <2>1
<1>4. CASE FileReport \/ FileAnswer
  BY <1>3, <1>4 DEF FileReport, FileAnswer
<1>5. CASE ReportSvin
  <2>1. [is |-> "svin", active |-> ~valid, valid |-> valid, survey |-> survey, obs |-> obs] \in Report
    BY DEF ReceiverOK, Report
  <2>2. [is |-> "svin", active |-> FALSE, valid |-> FALSE, survey |-> 0, obs |-> 0] \in Report
    BY MaxSurveysAssumption, ObsMaxAssumption DEF Report
  <2>3. mode = "survey" => survey > 0 /\ (valid => obs > 0)
    BY DEF ReceiverOK
  <2>4. (IF mode = "survey"
         THEN [is |-> "svin", active |-> ~valid, valid |-> valid, survey |-> survey, obs |-> obs]
         ELSE [is |-> "svin", active |-> FALSE, valid |-> FALSE, survey |-> 0, obs |-> 0]) \in Item
    BY <2>1, <2>2, <2>3 DEF Item, RealReport
  <2>5. QED BY <1>2, <1>5, <2>4 DEF ReportSvin
<1>6. CASE Obey
  <2>1. \/ UNCHANGED wire
        \/ \E done \in BOOLEAN : /\ Len(wire) < WireMax
                                 /\ wire' = Append(wire, [is |-> "answer", ok |-> done])
    BY <1>6 DEF Obey
  <2>2. \A done \in BOOLEAN : [is |-> "answer", ok |-> done] \in Item
    BY DEF Item, Answer
  <2>3. QED BY <1>1, <1>2, <2>1, <2>2
<1>7. CASE Crash
  BY <1>7, EmptySeq DEF Crash
<1>8. CASE RunBegins \/ RunStep \/ Expire \/ FilePosition \/ Observe \/ Abort \/ DeletePosition
           \/ UNCHANGED vars
  BY <1>1, <1>8 DEF RunBegins, RunStep, Expire, FilePosition, Observe, Abort, DeletePosition,
     Call, Answered, GivesUp, Proceed, Clear, Load, Poll, Judge, Judged, Test, ReadAgain, Open,
     Write, RunEnds, link, vars
<1>9. QED BY <1>4, <1>5, <1>6, <1>7, <1>8 DEF Next, ReaderStep

\* What a step of the run sends is a command.
LEMMA CommandTyped ==
    ASSUME NEW p, NEW at \in Place
    PROVE  CommandOf(p, at) \in Commands
<1>1. [do |-> "stop"] \in Commands /\ [do |-> "start"] \in Commands
  BY DEF Commands
<1>2. [do |-> "fix", at |-> at] \in Commands
  BY DEF Commands, Place
<1>3. CommandOf(p, at) \in {[do |-> "stop"], [do |-> "start"], [do |-> "fix", at |-> at]}
  <2>1. CASE p \in {"stop", "restop"}
    BY <2>1 DEF CommandOf
  <2>2. CASE p \in {"start", "restart"}
    BY <2>2 DEF CommandOf
  <2>3. CASE p \notin {"stop", "restop", "start", "restart"}
    BY <2>3 DEF CommandOf
  <2>4. QED BY <2>1, <2>2, <2>3
<1>4. QED BY <1>1, <1>2, <1>3

\* The outbound queue stays one of commands.
LEMMA OutStep == OutOK /\ PlacesOK /\ [Next]_vars => OutOK'
<1> SUFFICES ASSUME OutOK, PlacesOK, [Next]_vars PROVE OutOK'
    OBVIOUS
<1> USE OutMaxAssumption DEF OutOK
<1>1. CASE UNCHANGED out
  BY <1>1
<1>2. ASSUME NEW c \in Commands, out' = Append(out, c), Len(out) < OutMax PROVE OutOK'
  <2>1. out' \in Seq(Commands) /\ Len(out') = Len(out) + 1 /\ Len(out) \in Nat
    BY <1>2, AppendProperties, LenProperties
  <2>2. QED BY <1>2, <2>1
<1>3. CASE Call
  <2>1. held \in Place /\ status.at \in Place
    BY DEF PlacesOK
  <2>2. CommandOf(pc, IF pc = "apply" THEN status.at ELSE held) \in Commands
    BY <2>1, CommandTyped
  <2>3. QED BY <1>2, <1>3, <2>2 DEF Call
<1>4. CASE Abort
  <2>1. [do |-> "stop"] \in Commands
    BY DEF Commands
  <2>2. QED BY <1>2, <1>4, <2>1 DEF Abort
<1>5. CASE Obey
  <2>1. out' \in Seq(Commands) /\ Len(out') = Len(out) - 1 /\ Len(out) \in Nat
    BY <1>5, TakeFirst DEF Obey
  <2>2. QED BY <2>1
<1>6. CASE Crash
  BY <1>6, EmptySeq DEF Crash
<1>7. CASE RunBegins \/ Answered \/ GivesUp \/ Clear \/ Load \/ Poll \/ Judge \/ Test \/ ReadAgain
           \/ Open \/ Write \/ RunEnds \/ Expire \/ ReaderStep \/ Observe \/ ReportSvin
           \/ DeletePosition \/ UNCHANGED vars
  BY <1>1, <1>7 DEF RunBegins, Expire, ReaderStep, FileReport, FilePosition, FileAnswer, Observe,
     ReportSvin, DeletePosition, Answered, GivesUp, Proceed, Clear, Load, Poll, Judge, Judged,
     Test, ReadAgain, Open, Write, RunEnds, link, vars
<1>8. QED BY <1>3, <1>4, <1>5, <1>6, <1>7 DEF Next, RunStep

\* Only complete results are remembered; the run counts the surveys before it.
LEMMA HistoryStep == HistoryOK /\ OutOK /\ ReceiverOK /\ [Next]_vars => HistoryOK'
<1> SUFFICES ASSUME HistoryOK, OutOK, ReceiverOK, [Next]_vars PROVE HistoryOK'
    OBVIOUS
<1>1. mark' \in 0 .. survey'
  <2>1. mark' \in {mark, survey, 0}
    <3>1. CASE RunBegins \/ Crash
      BY <3>1 DEF RunBegins, Crash
    <3>2. CASE RunStep \/ Expire \/ ReaderStep \/ Observe \/ ReportSvin
      BY <3>2 DEF RunStep, Expire, ReaderStep, Observe, ReportSvin, Call, Answered, GivesUp,
         Proceed, Clear, Load, Poll, Judge, Judged, Test, ReadAgain, Open, Write, RunEnds,
         FileReport, FilePosition, FileAnswer, history
    <3>3. CASE Obey \/ Abort \/ DeletePosition \/ UNCHANGED vars
      BY <3>3 DEF Obey, Abort, DeletePosition, vars, history
    <3>4. QED BY <3>1, <3>2, <3>3 DEF Next
  <2>2. ReceiverOK' /\ survey' >= survey
    BY ReceiverStep
  <2>3. survey \in 0 .. MaxSurveys /\ survey' \in 0 .. MaxSurveys /\ mark \in 0 .. survey
    BY <2>2 DEF ReceiverOK, HistoryOK
  <2>4. QED BY <2>1, <2>2, <2>3, MaxSurveysAssumption
<1>2. trouble' \subseteq Troubles
  <2>1. trouble \subseteq Troubles
    BY DEF HistoryOK
  <2>2. ASSUME NEW t, t \subseteq Troubles, Note(t) PROVE trouble' \subseteq Troubles
    <3>1. trouble' = trouble \/ trouble' = trouble \union t
      BY <2>2 DEF Note
    <3>2. QED BY <2>1, <2>2, <3>1
  <2>3. CASE RunBegins \/ Abort \/ Crash
    <3>1. trouble' = {} \/ trouble' = {"abort"}
      BY <2>3 DEF RunBegins, Abort, Crash
    <3>2. QED BY <3>1 DEF Troubles
  <2>4. CASE Call \/ Test \/ ReadAgain
    <3>1. Note({}) \/ Note(Mid)
      BY <2>4 DEF Call, Test, ReadAgain
    <3>2. Mid \subseteq Troubles /\ {} \subseteq Troubles
      BY DEF Mid, Troubles
    <3>3. QED BY <2>2, <3>1, <3>2
  <2>5. CASE Answered \/ GivesUp
    <3>1. \E t \in SUBSET Troubles : Note(t)
      <4>1. ASSUME NEW ok \in BOOLEAN, Proceed(ok)
            PROVE  \E t \in SUBSET Troubles : Note(t)
        <5>1. Note(CASE pc = "stop" /\ ~ok -> {"stop unheard"}
                     [] pc = "restop"      -> {"restart"}
                     [] OTHER              -> {})
          BY <4>1 DEF Proceed
        <5>2. CASE pc = "stop" /\ ~ok
          <6>1. Note({"stop unheard"})
            BY <5>1, <5>2
          <6>2. QED BY <6>1 DEF Troubles
        <5>3. CASE pc = "restop"
          <6>1. Note({"restart"})
            BY <5>1, <5>3
          <6>2. QED BY <6>1 DEF Troubles
        <5>4. CASE ~(pc = "stop" /\ ~ok) /\ pc # "restop"
          <6>1. Note({})
            BY <5>1, <5>4
          <6>2. QED BY <6>1
        <5>5. QED BY <5>2, <5>3, <5>4
      <4>2. QED BY <2>5, <4>1 DEF Answered, GivesUp
    <3>2. QED BY <2>2, <3>1
  <2>6. CASE Clear \/ Load \/ Poll \/ Judge \/ Open \/ Write \/ RunEnds \/ Expire \/ ReaderStep
             \/ Observe \/ ReportSvin
    BY <2>1, <2>6 DEF Clear, Load, Poll, Judge, Judged, Open, Write, RunEnds, Expire, ReaderStep,
       FileReport, FilePosition, FileAnswer, Observe, ReportSvin, history
  <2>7. CASE Obey \/ DeletePosition \/ UNCHANGED vars
    BY <2>1, <2>7 DEF Obey, DeletePosition, vars, history
  <2>8. QED BY <2>3, <2>4, <2>5, <2>6, <2>7 DEF Next, RunStep
<1>3. trusted' \in BOOLEAN
  <2>1. trusted \in BOOLEAN
    BY DEF HistoryOK
  <2>2. CASE Open \/ DeletePosition
    BY <2>1, <2>2 DEF Open, DeletePosition
  <2>3. CASE Write
    BY <2>1, <2>3, Zenon DEF Write
  <2>4. CASE RunBegins \/ Call \/ Answered \/ GivesUp \/ Clear \/ Load \/ Poll \/ Judge \/ Test
             \/ ReadAgain \/ RunEnds \/ Expire \/ ReaderStep
    BY <2>1, <2>4 DEF RunBegins, Call, Answered, GivesUp, Proceed, Clear, Load, Poll, Judge,
       Judged, Test, ReadAgain, RunEnds, Expire, ReaderStep, FileReport, FilePosition,
       FileAnswer, history
  <2>5. CASE Observe \/ ReportSvin \/ Obey \/ Abort \/ Crash \/ UNCHANGED vars
    BY <2>1, <2>5 DEF Observe, ReportSvin, Obey, Abort, Crash, vars, history
  <2>6. QED BY <2>2, <2>3, <2>4, <2>5 DEF Next, RunStep
<1>4. fixedAt' \subseteq Position
  <2>1. fixedAt \subseteq Position
    BY DEF HistoryOK
  <2>2. CASE Obey
    <3>1. Head(out) \in Commands
      BY <2>2, TakeFirst DEF Obey, OutOK
    <3>2. fixedAt' = fixedAt
          \/ /\ Head(out).do \notin {"stop", "start"} /\ Head(out).at.final
             /\ fixedAt' = fixedAt \union {Head(out).at}
      <4>1. CarryOut(Head(out)) \/ UNCHANGED receiver
        BY <2>2 DEF Obey
      <4>2. CASE UNCHANGED receiver
        BY <4>2 DEF receiver
      <4>3. CASE CarryOut(Head(out)) /\ Head(out).do \in {"stop", "start"}
        BY <4>3 DEF CarryOut
      <4>4. CASE CarryOut(Head(out)) /\ Head(out).do \notin {"stop", "start"}
        BY <4>4 DEF CarryOut
      <4>5. QED BY <4>1, <4>2, <4>3, <4>4
    <3>3. Head(out).do \notin {"stop", "start"} => Head(out).at \in Position \union {NoPosition}
      BY <3>1 DEF Commands
    <3>4. ~NoPosition.final
      BY DEF NoPosition
    <3>5. QED BY <2>1, <3>2, <3>3, <3>4
  <2>3. CASE RunBegins \/ RunStep \/ Expire \/ ReaderStep \/ Observe \/ ReportSvin \/ Abort
             \/ DeletePosition \/ Crash \/ UNCHANGED vars
    <3>1. UNCHANGED fixedAt
      BY <2>3 DEF RunBegins, RunStep, Expire, ReaderStep, Observe, ReportSvin, Abort,
         DeletePosition, Crash, vars, Call, Answered, GivesUp, Proceed, Clear, Load, Poll, Judge,
         Judged, Test, ReadAgain, Open, Write, RunEnds, FileReport, FilePosition, FileAnswer,
         receiver
    <3>2. QED BY <2>1, <3>1
  <2>4. QED BY <2>2, <2>3 DEF Next
<1>5. QED BY <1>1, <1>2, <1>3, <1>4 DEF HistoryOK

TypeInv == RunOK /\ CountOK /\ ReceiverOK /\ PlacesOK /\ WireOK /\ OutOK /\ HistoryOK

\* The type invariant holds at first ...
LEMMA TypeInvInit == Init => TypeInv
<1> SUFFICES ASSUME Init PROVE TypeInv
    OBVIOUS
<1> USE DEF Init
<1>a. /\ 0 \in 0 .. ObsMax /\ 0 \in 0 .. StuckLimit /\ 0 < StuckLimit /\ 0 \in 0 .. MaxSurveys
      /\ 0 \in 0 .. 0 /\ 0 <= OutMax /\ 0 <= WireMax
  BY MaxSurveysAssumption, ObsMaxAssumption, StuckLimitAssumption, OutMaxAssumption,
     WireMaxAssumption
<1>b. /\ {asked, halted, linked, valid, trusted, status.valid} \subseteq BOOLEAN
      /\ ~asked /\ ~valid
  OBVIOUS
<1>1. RunOK /\ CountOK
  <2>1. asked \in BOOLEAN /\ halted \in BOOLEAN
    BY <1>b
  <2>2. pc \in Steps /\ result \in {"ack", "nak", "none"} /\ pc # "restop"
    BY DEF Steps
  <2>3. last \in 0 .. ObsMax /\ stuck \in 0 .. StuckLimit /\ stuck < StuckLimit
    BY <1>a
  <2>4. QED BY <2>1, <2>2, <2>3 DEF RunOK, CountOK
<1>2. ReceiverOK
  <2>1. mode = "off" /\ survey \in 0 .. MaxSurveys /\ obs \in 0 .. ObsMax /\ obs = 0
    BY <1>a
  <2>2. QED BY <1>b, <2>1 DEF ReceiverOK
<1>3. PlacesOK
  <2>1. held \in Place /\ saved \in Place /\ half = NoReport /\ file \in Files
    BY DEF Place, Files
  <2>2. status \in [valid : BOOLEAN, obs : 0 .. ObsMax, at : Place]
    BY <1>a DEF Place
  <2>3. linked \in BOOLEAN
    BY <1>b
  <2>4. QED BY <2>1, <2>2, <2>3 DEF PlacesOK
<1>4. WireOK /\ OutOK
  BY <1>a, EmptySeq DEF WireOK, OutOK
<1>5. HistoryOK
  <2>1. mark \in 0 .. survey /\ trouble \subseteq Troubles /\ fixedAt \subseteq Position
    BY <1>a
  <2>2. QED BY <1>b, <2>1 DEF HistoryOK
<1>6. QED BY <1>1, <1>2, <1>3, <1>4, <1>5 DEF TypeInv

\* ... after every step ...
LEMMA TypeInvStep == TypeInv /\ [Next]_vars => TypeInv'
BY RunStepOK, CountStep, ReceiverStep, PlacesStep, WireStep, OutStep, HistoryStep DEF TypeInv

\* ... and so in every state.
LEMMA TypeInvAlways == Spec => []TypeInv
BY TypeInvInit, TypeInvStep, PTL DEF Spec

\* The types, the queues' bounds and the limit of the count hold for every value
\* of the constants: a survey restarts before the count passes the limit.
THEOREM TypeCorrect == Spec => []TypeOK
<1>1. TypeInv => TypeOK
  <2> SUFFICES ASSUME TypeInv PROVE TypeOK
      OBVIOUS
  <2>1. mark \in 0 .. MaxSurveys
    <3>1. survey \in 0 .. MaxSurveys /\ mark \in 0 .. survey
      BY DEF TypeInv, HistoryOK, ReceiverOK
    <3>2. QED BY <3>1, MaxSurveysAssumption
  <2>2. half \in Report \union {NoReport}
    BY DEF TypeInv, PlacesOK, RealReport
  <2>3. wire \in Seq(Report \union Answer)
    <3>1. Item \subseteq Report \union Answer
      BY DEF Item, RealReport
    <3>2. wire \in Seq(Item)
      BY DEF TypeInv, WireOK
    <3>3. QED BY <3>1, <3>2, ElementOfSeq, SeqDef
  <2>4. QED BY <2>1, <2>2, <2>3 DEF TypeInv, TypeOK, RunOK, CountOK, ReceiverOK, PlacesOK, WireOK,
               OutOK, HistoryOK, Place, Troubles
<1>2. QED BY <1>1, TypeInvAlways, PTL

-----------------------------------------------------------------------------
(* A run without trouble ends its survey with a result of its own           *)

\* No trouble but a restart.
Clean == trouble \subseteq {"restart"}

FreshReport(r) == r.is = "svin" /\ r.valid => r.survey > mark

\* Nothing of a survey before this run is left on the wire, in the reader's
\* hands and in the receiver.
WireFresh == \A i \in 1 .. Len(wire) : FreshReport(wire[i])
HalfFresh == half # NoReport => FreshReport(half)
ReceiverFresh == mode = "survey" => survey > mark
AllFresh == WireFresh /\ HalfFresh /\ ReceiverFresh

NoAnswers == \A i \in 1 .. Len(wire) : wire[i].is = "svin"

\* Who does not wait has no result, and only calls wait.
Waiting == (~asked => result = "none") /\ (asked => pc \in Calls)

\* An answer is the last one, and what follows it is fresh, unless it is a refusal.
OneAnswer ==
    \A i \in 1 .. Len(wire) : wire[i].is = "answer" =>
        /\ \A j \in 1 .. Len(wire) :
             j > i => wire[j].is = "svin" /\ (wire[i].ok => FreshReport(wire[j]))
        /\ wire[i].ok => ReceiverFresh

\* The stop of phase 1b is the one command on its way, its answer the only answer.
StopAlone ==
    /\ ~asked => out = <<>> /\ NoAnswers
    /\ out # <<>> => out = <<[do |-> "stop"]>> /\ NoAnswers /\ result = "none"
    /\ result # "none" => NoAnswers
    /\ result = "ack" => AllFresh
    /\ OneAnswer

\* A result in the status is fresh; so is the one its position is missing from.
StatusFresh ==
    /\ half = NoReport /\ status.valid => status.at.final /\ status.at.survey > mark
    /\ half # NoReport /\ status.valid => half.valid

Stopping == pc = "stop" /\ Clean => StopAlone
Stopped == pc \notin {"idle", "stop"} /\ Clean => AllFresh
Cleared == pc \notin {"idle", "stop", "clear"} /\ Clean => StatusFresh
Exiting == Exit /\ Clean => held.final /\ held.survey > mark

\* A run that is without trouble was so before, and it counts the same surveys.
LEMMA CleanStep ==
    ASSUME [Next]_vars
    PROVE  RunBegins \/ Crash \/ (mark' = mark /\ (Clean' => Clean))
<1>1. ASSUME NEW t, Note(t) PROVE Clean' => Clean
  <2>1. trouble \subseteq trouble'
    BY <1>1 DEF Note
  <2>2. QED BY <2>1 DEF Clean
<1>2. CASE Call \/ Answered \/ GivesUp \/ Test \/ ReadAgain
  <2>1. mark' = mark /\ \E t : Note(t)
    BY <1>2 DEF Call, Answered, GivesUp, Proceed, Test, ReadAgain
  <2>2. QED BY <1>1, <2>1
<1>3. CASE Clear \/ Load \/ Poll \/ Judge \/ Open \/ Write \/ RunEnds \/ Expire \/ ReaderStep
           \/ Observe \/ ReportSvin \/ Obey \/ DeletePosition \/ UNCHANGED vars
  BY <1>3 DEF Clear, Load, Poll, Judge, Judged, Open, Write, RunEnds, Expire, ReaderStep,
     FileReport, FilePosition, FileAnswer, Observe, ReportSvin, Obey, DeletePosition, history,
     vars, Clean
<1>4. CASE Abort
  BY <1>4 DEF Abort, Clean
<1>5. QED BY <1>2, <1>3, <1>4 DEF Next, RunStep

\* Where the run goes from the steps before phase 1c.
LEMMA FirstSteps ==
    ASSUME Waiting, [Next]_vars
    PROVE  /\ pc = "idle" => pc' = "idle" \/ RunBegins
           /\ pc = "stop" => pc' = "stop" \/ Answered \/ GivesUp \/ Crash
           /\ pc = "clear" => pc' = "clear" \/ Clear \/ Crash
           /\ pc' = "stop" => pc = "stop" \/ RunBegins
           /\ pc' = "apply" => pc = "apply" \/ Test
<1>1. CASE RunBegins \/ Clear \/ Test \/ Crash
  BY <1>1 DEF RunBegins, Clear, Test, Crash
<1>2. CASE Answered \/ GivesUp
  <2>1. ASSUME NEW ok \in BOOLEAN, Proceed(ok)
        PROVE  pc' \in {"clear", "done", "idle", "start", "poll", "restart", "test", "read"}
    BY <2>1 DEF Proceed
  <2>2. pc \in Calls
    BY <1>2 DEF Answered, GivesUp, Waiting
  <2>3. pc' \in {"clear", "done", "idle", "start", "poll", "restart", "test", "read"}
    BY <1>2, <2>1 DEF Answered, GivesUp
  <2>4. QED BY <1>2, <2>2, <2>3 DEF Calls
<1>3. CASE Load \/ Poll \/ Expire \/ Judge \/ ReadAgain \/ Open \/ Write \/ RunEnds
  BY <1>3 DEF Load, Poll, Expire, Judge, Judged, ReadAgain, Open, Write, RunEnds
<1>4. CASE Call \/ ReaderStep \/ Observe \/ ReportSvin \/ Obey \/ Abort \/ DeletePosition
           \/ UNCHANGED vars
  BY <1>4 DEF Call, ReaderStep, FileReport, FilePosition, FileAnswer, Observe, ReportSvin, Obey,
     Abort, DeletePosition, run, vars
<1>5. QED BY <1>1, <1>2, <1>3, <1>4 DEF Next, RunStep

\* A result is there only for who waits, and only calls wait, after any step.
LEMMA WaitingStep == RunOK /\ Waiting /\ [Next]_vars => Waiting'
<1> SUFFICES ASSUME RunOK, Waiting, [Next]_vars PROVE Waiting'
    OBVIOUS
<1> USE DEF Waiting
<1>1. CASE Call
  <2>1. asked' /\ pc' \in Calls
    BY <1>1, Zenon DEF Call
  <2>2. QED BY <2>1
<1>2. CASE Answered \/ GivesUp \/ Crash
  <2>1. ~asked' /\ result' = "none"
    BY <1>2 DEF Answered, GivesUp, Proceed, Crash
  <2>2. QED BY <2>1
<1>3. CASE FileAnswer
  <2>1. CASE asked
    BY <1>3, <2>1 DEF FileAnswer
  <2>2. CASE ~asked
    BY <1>3, <2>2 DEF FileAnswer
  <2>3. QED BY <2>1, <2>2
<1>4. CASE RunBegins \/ Clear \/ Load \/ Poll \/ Expire \/ Judge \/ Test \/ ReadAgain \/ Open
           \/ Write \/ RunEnds
  <2>1. asked' = asked /\ result' = result /\ pc \notin Calls
    BY <1>4 DEF RunBegins, Clear, Load, Poll, Expire, Judge, Judged, Test, ReadAgain, Open, Write,
       RunEnds, Calls
  <2>2. QED BY <2>1
<1>5. CASE FileReport \/ FilePosition \/ Observe \/ ReportSvin \/ Obey \/ Abort \/ DeletePosition
           \/ UNCHANGED vars
  BY <1>5 DEF FileReport, FilePosition, Observe, ReportSvin, Obey, Abort, DeletePosition, run, vars
<1>6. QED BY <1>1, <1>2, <1>3, <1>4, <1>5 DEF Next, RunStep, ReaderStep

\* The elements of a sequence that grows at its end and is taken from its front.
LEMMA Elements ==
    ASSUME NEW S, NEW s \in Seq(S)
    PROVE  /\ Len(s) \in Nat
           /\ \A i \in 1 .. Len(s) : s[i] \in S
           /\ \A x \in S : /\ Len(Append(s, x)) = Len(s) + 1
                           /\ \A i \in 1 .. Len(s) : Append(s, x)[i] = s[i]
                           /\ Append(s, x)[Len(s) + 1] = x
           /\ s # <<>> => /\ Len(s) > 0 /\ Head(s) = s[1] /\ Len(Tail(s)) = Len(s) - 1
                          /\ \A i \in 1 .. Len(s) - 1 : Tail(s)[i] = s[i + 1]
<1>1. Len(s) \in Nat /\ \A i \in 1 .. Len(s) : s[i] \in S
  BY LenProperties, ElementOfSeq
<1>2. ASSUME NEW x \in S
      PROVE  /\ Len(Append(s, x)) = Len(s) + 1
             /\ \A i \in 1 .. Len(s) : Append(s, x)[i] = s[i]
             /\ Append(s, x)[Len(s) + 1] = x
  BY <1>1, AppendProperties
<1>3. ASSUME s # <<>>
      PROVE  /\ Len(s) > 0 /\ Head(s) = s[1] /\ Len(Tail(s)) = Len(s) - 1
             /\ \A i \in 1 .. Len(s) - 1 : Tail(s)[i] = s[i + 1]
  <2>1. Len(s) # 0
    BY <1>3, EmptySeq
  <2>2. QED BY <1>1, <1>3, <2>1, HeadTailProperties
<1>4. QED BY <1>1, <1>2, <1>3

\* How the wire changes.
LEMMA WireChange ==
    ASSUME TypeInv, [Next]_vars
    PROVE  \/ wire' = wire
           \/ ReportSvin \/ Obey \/ Crash
           \/ (FileReport \/ FileAnswer) /\ wire # <<>> /\ wire' = Tail(wire)
<1>1. CASE ReaderStep
  BY <1>1 DEF ReaderStep, FileReport, FilePosition, FileAnswer, link
<1>2. CASE RunBegins \/ RunStep \/ Expire \/ Observe \/ Abort \/ DeletePosition \/ UNCHANGED vars
  BY <1>2 DEF RunBegins, RunStep, Expire, Observe, Abort, DeletePosition, Call, Answered, GivesUp,
     Proceed, Clear, Load, Poll, Judge, Judged, Test, ReadAgain, Open, Write, RunEnds, link, vars
<1>3. QED BY <1>1, <1>2 DEF Next

\* What the receiver reports now.
Reported ==
    IF mode = "survey"
    THEN [is |-> "svin", active |-> ~valid, valid |-> valid, survey |-> survey, obs |-> obs]
    ELSE [is |-> "svin", active |-> FALSE, valid |-> FALSE, survey |-> 0, obs |-> 0]

\* A report of a receiver that has left the old survey is fresh.
LEMMA ReportedTyped ==
    ASSUME TypeInv
    PROVE  Reported \in Item /\ Reported.is = "svin" /\ (ReceiverFresh => FreshReport(Reported))
<1>1. [is |-> "svin", active |-> ~valid, valid |-> valid, survey |-> survey, obs |-> obs] \in Report
  BY DEF TypeInv, ReceiverOK, Report
<1>2. [is |-> "svin", active |-> FALSE, valid |-> FALSE, survey |-> 0, obs |-> 0] \in Report
  BY MaxSurveysAssumption, ObsMaxAssumption DEF Report
<1>3. mode = "survey" => survey > 0 /\ (valid => obs > 0)
  BY DEF TypeInv, ReceiverOK
<1>4. CASE mode = "survey"
  BY <1>1, <1>3, <1>4 DEF Reported, Item, RealReport, ReceiverFresh, FreshReport
<1>5. CASE mode # "survey"
  BY <1>2, <1>5 DEF Reported, Item, RealReport, FreshReport
<1>6. QED BY <1>4, <1>5

\* A receiver that has left the old survey does not return to it.
LEMMA ReceiverFreshStep ==
    ASSUME TypeInv, ReceiverFresh, mark' = mark, [Next]_vars
    PROVE  ReceiverFresh'
<1> USE DEF ReceiverFresh
<1>1. CASE UNCHANGED receiver
  <2>1. UNCHANGED <<mode, survey>>
    BY <1>1 DEF receiver
  <2>2. QED BY <2>1
<1>2. CASE Observe
  BY <1>2 DEF Observe
<1>3. ASSUME NEW c, CarryOut(c) PROVE ReceiverFresh'
  <2>1. survey \in 0 .. MaxSurveys /\ mark \in 0 .. survey
    BY DEF TypeInv, ReceiverOK, HistoryOK
  <2>2. mode' \in {"off", "fixed"} \/ survey' = survey + 1
    <3>1. CASE c.do = "stop"
      BY <1>3, <3>1 DEF CarryOut
    <3>2. CASE c.do = "start"
      BY <1>3, <3>2 DEF CarryOut
    <3>3. CASE c.do \notin {"stop", "start"}
      BY <1>3, <3>3 DEF CarryOut
    <3>4. QED BY <3>1, <3>2, <3>3
  <2>3. QED BY <2>1, <2>2, MaxSurveysAssumption
<1>4. CASE Obey
  <2>1. CarryOut(Head(out)) \/ UNCHANGED receiver
    BY <1>4 DEF Obey
  <2>2. QED BY <1>1, <1>3, <2>1
<1>5. CASE RunBegins \/ RunStep \/ Expire \/ ReaderStep \/ ReportSvin \/ Abort
           \/ DeletePosition \/ Crash \/ UNCHANGED vars
  <2>1. UNCHANGED receiver
    BY <1>5 DEF RunBegins, RunStep, Expire, ReaderStep, ReportSvin, Abort, DeletePosition, Crash,
       vars, Call, Answered, GivesUp, Proceed, Clear, Load, Poll, Judge, Judged, Test, ReadAgain,
       Open, Write, RunEnds, FileReport, FilePosition, FileAnswer
  <2>2. QED BY <1>1, <2>1
<1>6. QED BY <1>2, <1>4, <1>5 DEF Next

\* Once all that is on the way is fresh it stays so.
LEMMA AllFreshStep ==
    ASSUME TypeInv, AllFresh, mark' = mark, [Next]_vars
    PROVE  AllFresh'
<1>1. ReceiverFresh'
  BY ReceiverFreshStep DEF AllFresh
<1>2. wire \in Seq(Item)
  BY DEF TypeInv, WireOK
<1>3. \A i \in 1 .. Len(wire) : FreshReport(wire[i])
  BY DEF AllFresh, WireFresh
<1>4. WireFresh'
  <2> SUFFICES ASSUME NEW i \in 1 .. Len(wire')
               PROVE  wire'[i].is = "svin" /\ wire'[i].valid => wire'[i].survey > mark
      BY DEF WireFresh, FreshReport
  <2>1. CASE wire' = wire
    BY <1>3, <2>1 DEF FreshReport
  <2>2. ASSUME NEW x \in Item, wire' = Append(wire, x), FreshReport(x)
        PROVE  wire'[i].is = "svin" /\ wire'[i].valid => wire'[i].survey > mark
    BY <1>2, <1>3, <2>2, Elements DEF FreshReport
  <2>3. CASE ReportSvin
    <3>1. wire' = Append(wire, Reported)
      BY <2>3 DEF ReportSvin, Reported
    <3>2. QED BY <2>2, <3>1, ReportedTyped DEF AllFresh
  <2>4. CASE Obey
    <3>1. \/ wire' = wire
          \/ \E done \in BOOLEAN : wire' = Append(wire, [is |-> "answer", ok |-> done])
      BY <2>4 DEF Obey
    <3>2. \A done \in BOOLEAN : /\ [is |-> "answer", ok |-> done] \in Item
                                /\ FreshReport([is |-> "answer", ok |-> done])
      BY DEF Item, Answer, FreshReport
    <3>3. QED BY <2>1, <2>2, <3>1, <3>2
  <2>5. CASE Crash
    <3>1. Len(wire') = 0
      BY <2>5, EmptySeq DEF Crash
    <3>2. QED BY <3>1
  <2>6. CASE wire # <<>> /\ wire' = Tail(wire)
    <3>1. wire'[i] = wire[i + 1] /\ i + 1 \in 1 .. Len(wire)
      BY <1>2, <2>6, Elements
    <3>2. QED BY <1>3, <3>1 DEF FreshReport
  <2>7. QED BY <2>1, <2>3, <2>4, <2>5, <2>6, WireChange
<1>5. HalfFresh'
  <2>1. half # NoReport => FreshReport(half)
    BY DEF AllFresh, HalfFresh
  <2>2. CASE half' = half
    BY <2>1, <2>2 DEF HalfFresh, FreshReport
  <2>3. CASE half' = NoReport
    BY <2>3 DEF HalfFresh
  <2>4. CASE FileReport
    <3>1. wire # <<>> /\ half' \in {half, Head(wire)}
      BY <2>4 DEF FileReport, reader
    <3>2. FreshReport(Head(wire))
      BY <1>2, <1>3, <3>1, Elements
    <3>3. QED BY <2>2, <3>1, <3>2 DEF HalfFresh, FreshReport
  <2>5. CASE FilePosition \/ Crash
    BY <2>3, <2>5 DEF FilePosition, Crash
  <2>6. CASE RunBegins \/ RunStep \/ Expire \/ FileAnswer \/ Observe \/ ReportSvin \/ Obey \/ Abort
             \/ DeletePosition \/ UNCHANGED vars
    BY <2>2, <2>6 DEF RunBegins, RunStep, Expire, FileAnswer, Observe, ReportSvin, Obey, Abort,
       DeletePosition, Call, Answered, GivesUp, Proceed, Clear, Load, Poll, Judge, Judged, Test,
       ReadAgain, Open, Write, RunEnds, reader, vars
  <2>7. QED BY <2>4, <2>5, <2>6 DEF Next, ReaderStep
<1>6. QED BY <1>1, <1>4, <1>5 DEF AllFresh

\* Once the stop has been answered, nothing older reaches the run.
LEMMA StoppedStep ==
    ASSUME TypeInv, Waiting, Stopping, Stopped, [Next]_vars
    PROVE  Stopped'
<1> SUFFICES ASSUME pc' \notin {"idle", "stop"}, Clean' PROVE AllFresh'
    BY DEF Stopped
<1>1. ~RunBegins /\ ~Crash
  BY DEF RunBegins, Crash
<1>2. mark' = mark /\ Clean /\ pc # "idle"
  BY <1>1, CleanStep, FirstSteps
<1>3. CASE pc # "stop"
  BY <1>2, <1>3, AllFreshStep DEF Stopped
<1>4. CASE pc = "stop"
  <2>1. Answered \/ GivesUp
    BY <1>1, <1>4, FirstSteps
  <2>2. ~Proceed(FALSE)
    <3>1. Note({"stop unheard"}) => ~Clean'
      BY <1>2 DEF Note, Clean
    <3>2. Proceed(FALSE) => Note({"stop unheard"})
      BY <1>4 DEF Proceed
    <3>3. QED BY <3>1, <3>2
  <2>3. result = "ack"
    BY <2>1, <2>2 DEF Answered, GivesUp
  <2>4. AllFresh
    BY <1>2, <1>4, <2>3 DEF Stopping, StopAlone
  <2>5. QED BY <1>2, <2>4, AllFreshStep
<1>5. QED BY <1>3, <1>4

\* Once the status has been cleared, what it gets is the run's own.
LEMMA ClearedStep ==
    ASSUME TypeInv, Waiting, Stopped, Cleared, [Next]_vars
    PROVE  Cleared'
<1> SUFFICES ASSUME pc' \notin {"idle", "stop", "clear"}, Clean' PROVE StatusFresh'
    BY DEF Cleared
<1>1. ~RunBegins /\ ~Crash
  BY DEF RunBegins, Crash
<1>2. mark' = mark /\ Clean /\ pc # "idle"
  BY <1>1, CleanStep, FirstSteps
<1>3. pc # "stop"
  <2>1. ASSUME pc = "stop", Proceed(TRUE) \/ Proceed(FALSE) PROVE FALSE
    BY <2>1 DEF Proceed
  <2>2. QED BY <1>1, <2>1, FirstSteps DEF Answered, GivesUp
<1>4. AllFresh
  BY <1>2, <1>3 DEF Stopped
<1>5. status \in [valid : BOOLEAN, obs : 0 .. ObsMax, at : Place]
  BY DEF TypeInv, PlacesOK
<1>6. CASE pc = "clear"
  <2>1. Clear
    BY <1>1, <1>6, FirstSteps
  <2>2. status' = [status EXCEPT !.valid = FALSE, !.obs = 0]
    BY <2>1 DEF Clear
  <2>3. ~status'.valid
    BY <1>5, <2>2
  <2>4. QED BY <2>3 DEF StatusFresh
<1>7. CASE pc # "clear"
  <2>1. StatusFresh
    BY <1>2, <1>3, <1>7 DEF Cleared
  <2>2. CASE UNCHANGED reader
    BY <1>2, <2>1, <2>2 DEF reader, StatusFresh
  <2>3. CASE FileReport
    <3>1. CASE /\ status' = [status EXCEPT !.valid = Head(wire).valid, !.obs = Head(wire).obs]
               /\ half' = Head(wire)
      <4>1. status'.valid = half'.valid
        BY <1>5, <3>1
      <4>2. half' # NoReport
        <5>1. Head(wire).is = "svin"
          BY <2>3 DEF FileReport
        <5>2. QED BY <3>1, <5>1 DEF NoReport
      <4>3. QED BY <4>1, <4>2 DEF StatusFresh
    <3>2. QED BY <2>2, <2>3, <3>1 DEF FileReport
  <2>4. CASE FilePosition
    <3>1. /\ half # NoReport /\ half \in RealReport /\ half.is = "svin"
          /\ status' = [status EXCEPT !.at = PositionOf(half)] /\ half' = NoReport
      BY <2>4 DEF FilePosition, TypeInv, PlacesOK, RealReport, Report
    <3>2. status'.valid = status.valid /\ status'.at = PositionOf(half)
      BY <1>5, <3>1
    <3>3. status.valid => half.valid /\ half.survey > mark
      BY <1>4, <2>1, <3>1 DEF StatusFresh, AllFresh, HalfFresh, FreshReport
    <3>4. status.valid => PositionOf(half).final /\ PositionOf(half).survey > mark
      BY <3>1, <3>3, PositionTyped
    <3>5. QED BY <1>2, <3>1, <3>2, <3>4 DEF StatusFresh
  <2>5. ~Clear
    BY <1>7 DEF Clear
  <2>6. CASE RunStep \/ Expire \/ FileAnswer \/ Observe \/ ReportSvin \/ Obey \/ Abort
             \/ DeletePosition \/ UNCHANGED vars
    BY <2>2, <2>5, <2>6 DEF RunStep, Expire, FileAnswer, Observe, ReportSvin, Obey, Abort,
       DeletePosition, Call, Answered, GivesUp, Proceed, Load, Poll, Judge, Judged, Test,
       ReadAgain, Open, Write, RunEnds, vars
  <2>7. QED BY <1>1, <2>3, <2>4, <2>6 DEF Next, ReaderStep
<1>8. QED BY <1>6, <1>7

\* The position the loop ends with is the one in a fresh status, read whole.
LEMMA ExitingStep ==
    ASSUME TypeInv, Waiting, Cleared, Exiting, [Next]_vars
    PROVE  Exiting'
<1> SUFFICES ASSUME pc' = "apply", ~asked', Clean' PROVE held'.final /\ held'.survey > mark'
    BY DEF Exiting, Exit
<1>1. ~RunBegins /\ ~Crash
  BY DEF RunBegins, Crash
<1>2. mark' = mark /\ Clean
  BY <1>1, CleanStep
<1>3. CASE Test
  <2>1. /\ pc = "test" /\ status.valid /\ held' = status.at /\ Note(Mid)
    BY <1>3 DEF Test
  <2>2. half = NoReport
    <3>1. ASSUME Note({"torn read"}) PROVE ~Clean'
      <4>1. "abort" \notin trouble
        BY <1>2 DEF Clean
      <4>2. "torn read" \in trouble'
        BY <3>1, <4>1 DEF Note
      <4>3. QED BY <4>2 DEF Clean
    <3>2. QED BY <2>1, <3>1 DEF Mid
  <2>3. StatusFresh
    BY <1>2, <2>1 DEF Cleared
  <2>4. QED BY <1>2, <2>1, <2>2, <2>3 DEF StatusFresh
<1>4. CASE ~Test
  <2>1. pc = "apply"
    BY <1>4, FirstSteps
  <2>2. ~Answered /\ ~GivesUp
    <3>1. ASSUME Proceed(TRUE) \/ Proceed(FALSE) PROVE FALSE
      BY <2>1, <3>1 DEF Proceed
    <3>2. QED BY <3>1 DEF Answered, GivesUp
  <2>3. asked' = asked /\ held' = held
    <3>1. CASE Clear \/ Load \/ Poll \/ Judge \/ ReadAgain \/ Open \/ Write \/ RunEnds \/ Expire
      BY <2>1, <3>1 DEF Clear, Load, Poll, Judge, Judged, ReadAgain, Open, Write, RunEnds, Expire
    <3>2. ~Call
      BY DEF Call
    <3>3. CASE ReaderStep \/ Observe \/ ReportSvin \/ Obey \/ Abort \/ DeletePosition
               \/ UNCHANGED vars
      BY <3>3 DEF ReaderStep, FileReport, FilePosition, FileAnswer, Observe, ReportSvin, Obey,
         Abort, DeletePosition, run, vars
    <3>4. QED BY <1>1, <1>4, <2>2, <3>1, <3>2, <3>3 DEF Next, RunStep
  <2>4. held.final /\ held.survey > mark
    BY <1>2, <2>1, <2>3 DEF Exiting, Exit
  <2>5. QED BY <1>2, <2>3, <2>4
<1>5. QED BY <1>3, <1>4

\* The stop of phase 1b goes out, is obeyed and is answered, alone.
LEMMA StoppingStep ==
    ASSUME TypeInv, Waiting, Stopping, [Next]_vars
    PROVE  Stopping'
<1> SUFFICES ASSUME pc' = "stop", Clean' PROVE StopAlone'
    BY DEF Stopping
<1>1. wire \in Seq(Item) /\ out \in Seq(Commands)
  BY DEF TypeInv, WireOK, OutOK
<1>2. ASSUME NoAnswers, wire' = wire PROVE NoAnswers' /\ OneAnswer'
  BY <1>2 DEF NoAnswers, OneAnswer
<1>3. CASE RunBegins
  <2>1. ~asked /\ result = "none"
    BY <1>3 DEF RunBegins, Waiting, Calls
  <2>2. out = <<>> /\ \A i \in DOMAIN wire : wire[i].is = "svin"
    BY <1>3 DEF RunBegins, Clean
  <2>3. NoAnswers
    BY <1>1, <2>2 DEF NoAnswers
  <2>4. wire' = wire /\ out' = <<>> /\ result' = "none"
    BY <1>3, <2>1, <2>2 DEF RunBegins, link
  <2>5. QED BY <1>2, <2>3, <2>4 DEF StopAlone
<1>4. CASE ~RunBegins
  <2>1. pc = "stop" /\ ~Crash
    BY <1>4, FirstSteps DEF Crash
  <2>2. mark' = mark /\ Clean
    BY <1>4, <2>1, CleanStep
  <2>3. StopAlone
    BY <2>1, <2>2 DEF Stopping
  <2>4. /\ AllFresh => AllFresh'
        /\ ReceiverFresh => ReceiverFresh'
        /\ \A r : FreshReport(r) => (FreshReport(r))'
    BY <2>2, AllFreshStep, ReceiverFreshStep DEF FreshReport
  <2>5. CASE UNCHANGED <<out, wire, result, asked>>
    <3>1. OneAnswer' /\ (NoAnswers => NoAnswers')
      BY <2>2, <2>3, <2>4, <2>5 DEF StopAlone, OneAnswer, NoAnswers, FreshReport
    <3>2. QED BY <2>3, <2>4, <2>5, <3>1 DEF StopAlone
  <2>6. CASE Call
    <3>1. NoAnswers /\ result = "none" /\ out = <<>> /\ wire' = wire /\ result' = result
      BY <2>3, <2>6 DEF Call, StopAlone, Waiting
    <3>2. out' = <<[do |-> "stop"]>>
      <4>1. CommandOf("stop", held) = [do |-> "stop"]
        BY DEF CommandOf
      <4>2. out' = Append(<<>>, [do |-> "stop"])
        BY <2>1, <2>6, <3>1, <4>1 DEF Call
      <4>3. QED BY <4>2
    <3>3. asked'
      BY <2>6 DEF Call
    <3>4. QED BY <1>2, <3>1, <3>2, <3>3 DEF StopAlone
  <2>7. CASE FileReport \/ FileAnswer
    <3>1. /\ wire # <<>> /\ wire' = Tail(wire) /\ out' = out /\ asked' = asked
      BY <2>7 DEF FileReport, FileAnswer, run
    <3>2. /\ Len(wire) \in Nat /\ Len(wire) > 0 /\ Head(wire) = wire[1] /\ Len(wire') = Len(wire) - 1
          /\ \A i \in 1 .. Len(wire') : wire'[i] = wire[i + 1] /\ i + 1 \in 1 .. Len(wire)
      BY <1>1, <3>1, Elements
    <3>3. NoAnswers => NoAnswers'
      BY <3>2 DEF NoAnswers
    <3>4. OneAnswer'
      <4> SUFFICES ASSUME NEW i \in 1 .. Len(wire'), wire'[i].is = "answer"
                   PROVE  /\ \A j \in 1 .. Len(wire') :
                               j > i => wire'[j].is = "svin"
                                        /\ (wire'[i].ok => (FreshReport(wire[j]))')
                          /\ wire'[i].ok => ReceiverFresh'
          BY DEF OneAnswer
      <4>1. /\ \A j \in 1 .. Len(wire) :
                 j > i + 1 => wire[j].is = "svin" /\ (wire[i + 1].ok => FreshReport(wire[j]))
            /\ wire[i + 1].ok => ReceiverFresh
        BY <2>3, <3>2 DEF StopAlone, OneAnswer
      <4>2. ASSUME NEW j \in 1 .. Len(wire'), j > i
            PROVE  wire'[j].is = "svin" /\ (wire'[i].ok => (FreshReport(wire[j]))')
        <5>1. /\ wire'[j] = wire[j + 1] /\ wire'[i] = wire[i + 1]
              /\ j + 1 \in 1 .. Len(wire) /\ j + 1 > i + 1
          BY <3>2, <4>2
        <5>2. wire[j + 1].is = "svin" /\ (wire[i + 1].ok => FreshReport(wire[j + 1]))
          BY <4>1, <5>1
        <5>3. QED BY <2>2, <5>1, <5>2 DEF FreshReport
      <4>3. wire'[i].ok => ReceiverFresh'
        BY <2>4, <3>2, <4>1
      <4>4. QED BY <4>2, <4>3
    <3>5. CASE FileReport
      <4>1. result' = result
        BY <3>5 DEF FileReport, run
      <4>2. QED BY <2>3, <2>4, <3>1, <3>3, <3>4, <4>1 DEF StopAlone
    <3>6. CASE FileAnswer
      <4>1. ~NoAnswers /\ wire[1].is = "answer"
        BY <3>2, <3>6 DEF FileAnswer, NoAnswers
      <4>2. asked /\ out = <<>> /\ result = "none"
        BY <2>3, <4>1 DEF StopAlone
      <4>3. NoAnswers'
        BY <2>3, <3>2, <4>1 DEF StopAlone, OneAnswer, NoAnswers
      <4>4. result' = "ack" => AllFresh
        <5> SUFFICES ASSUME wire[1].ok PROVE AllFresh
            BY <3>2, <3>6, <4>2 DEF FileAnswer
        <5>1. ReceiverFresh
          BY <2>3, <3>2, <4>1 DEF StopAlone, OneAnswer
        <5>2. WireFresh
          <6>1. FreshReport(wire[1])
            BY <4>1 DEF FreshReport
          <6>2. \A j \in 1 .. Len(wire) : j > 1 => FreshReport(wire[j])
            BY <2>3, <3>2, <4>1 DEF StopAlone, OneAnswer
          <6>3. QED BY <3>2, <6>1, <6>2 DEF WireFresh
        <5>3. HalfFresh
          BY <3>6 DEF FileAnswer, HalfFresh
        <5>4. QED BY <5>1, <5>2, <5>3 DEF AllFresh
      <4>5. QED BY <2>4, <3>1, <3>4, <4>2, <4>3, <4>4 DEF StopAlone
    <3>7. QED BY <2>7, <3>5, <3>6
  <2>8. ASSUME NEW x \in Item, wire' = Append(wire, x),
               x.is = "svin" => result' = result /\ out' = out /\ asked' = asked,
               x.is = "svin" => (ReceiverFresh => FreshReport(x)),
               x.is = "answer" => /\ NoAnswers /\ result' = "none" /\ out' = <<>> /\ asked'
                                  /\ (x.ok => ReceiverFresh'),
               x.is \in {"svin", "answer"}
        PROVE  StopAlone'
    <3>1. /\ Len(wire) \in Nat /\ Len(wire') = Len(wire) + 1
          /\ \A i \in 1 .. Len(wire) : wire'[i] = wire[i]
          /\ wire'[Len(wire) + 1] = x
      BY <1>1, <2>8, Elements
    <3>2. x.is = "svin" => (NoAnswers => NoAnswers')
      BY <3>1 DEF NoAnswers
    <3>3. OneAnswer'
      <4> SUFFICES ASSUME NEW i \in 1 .. Len(wire'), wire'[i].is = "answer"
                   PROVE  /\ \A j \in 1 .. Len(wire') :
                               j > i => wire'[j].is = "svin"
                                        /\ (wire'[i].ok => (FreshReport(wire[j]))')
                          /\ wire'[i].ok => ReceiverFresh'
          BY DEF OneAnswer
      <4>1. CASE i = Len(wire) + 1
        <5>1. wire'[i] = x
          BY <3>1, <4>1
        <5>2. \A j \in 1 .. Len(wire') : ~(j > i)
          BY <3>1, <4>1
        <5>3. QED BY <2>8, <5>1, <5>2
      <4>2. CASE i \in 1 .. Len(wire)
        <5>1. /\ wire'[i] = wire[i] /\ wire[i].is = "answer" /\ x.is = "svin"
          BY <2>8, <3>1, <4>2 DEF NoAnswers
        <5>2. /\ \A j \in 1 .. Len(wire) :
                   j > i => wire[j].is = "svin" /\ (wire[i].ok => FreshReport(wire[j]))
              /\ wire[i].ok => ReceiverFresh
          BY <2>3, <4>2, <5>1 DEF StopAlone, OneAnswer
        <5>3. ASSUME NEW j \in 1 .. Len(wire'), j > i
              PROVE  wire'[j].is = "svin" /\ (wire'[i].ok => (FreshReport(wire[j]))')
          <6>1. CASE j = Len(wire) + 1
            BY <2>2, <2>8, <3>1, <5>1, <5>2, <6>1 DEF FreshReport
          <6>2. CASE j \in 1 .. Len(wire)
            BY <2>2, <3>1, <5>1, <5>2, <5>3, <6>2 DEF FreshReport
          <6>3. QED BY <3>1, <6>1, <6>2
        <5>4. QED BY <2>4, <5>1, <5>2, <5>3
      <4>3. QED BY <3>1, <4>1, <4>2
    <3>4. QED BY <2>3, <2>4, <2>8, <3>2, <3>3 DEF StopAlone
  <2>9. CASE ReportSvin
    <3>1. wire' = Append(wire, Reported) /\ UNCHANGED <<result, out, asked>>
      BY <2>9 DEF ReportSvin, Reported, run
    <3>2. QED BY <2>8, <3>1, ReportedTyped
  <2>10. CASE Obey
    <3>1. /\ out = <<[do |-> "stop"]>> /\ NoAnswers /\ result = "none" /\ asked
          /\ out' = Tail(out) /\ UNCHANGED <<result, asked>>
      BY <2>3, <2>10 DEF Obey, StopAlone, run
    <3>2. out' = <<>> /\ Head(out).do = "stop"
      BY <3>1
    <3>3. PICK done \in BOOLEAN :
            /\ IF done THEN CarryOut(Head(out)) ELSE UNCHANGED receiver
            /\ wire' = wire \/ wire' = Append(wire, [is |-> "answer", ok |-> done])
      BY <2>10 DEF Obey
    <3>4. done => ReceiverFresh'
      BY <3>2, <3>3 DEF CarryOut, ReceiverFresh
    <3>5. CASE wire' = wire
      BY <1>2, <3>1, <3>2, <3>5 DEF StopAlone
    <3>6. CASE wire' = Append(wire, [is |-> "answer", ok |-> done])
      <4>1. [is |-> "answer", ok |-> done] \in Item
        BY DEF Item, Answer
      <4>2. QED BY <2>8, <3>1, <3>2, <3>4, <3>6, <4>1
    <3>7. QED BY <3>3, <3>5, <3>6
  <2>11. ~Abort
    BY <1>4 DEF Abort, Clean
  <2>12. ~Answered /\ ~GivesUp
    <3>1. ASSUME Proceed(TRUE) \/ Proceed(FALSE) PROVE FALSE
      BY <2>1, <3>1 DEF Proceed
    <3>2. QED BY <3>1 DEF Answered, GivesUp
  <2>13. ~(Clear \/ Load \/ Poll \/ Judge \/ Test \/ ReadAgain \/ Open \/ Write \/ RunEnds \/ Expire)
    BY <2>1 DEF Clear, Load, Poll, Judge, Judged, Test, ReadAgain, Open, Write, RunEnds, Expire
  <2>14. CASE FilePosition \/ Observe \/ DeletePosition \/ UNCHANGED vars
    BY <2>5, <2>14 DEF FilePosition, Observe, DeletePosition, run, link, vars
  <2>15. QED BY <1>4, <2>1, <2>6, <2>7, <2>9, <2>10, <2>11, <2>12, <2>13, <2>14
             DEF Next, RunStep, ReaderStep
<1>5. QED BY <1>3, <1>4

FreshInv == TypeInv /\ Waiting /\ Stopping /\ Stopped /\ Cleared /\ Exiting

\* What is known of the run's result holds at first ...
LEMMA FreshInvInit == Init => FreshInv
<1> SUFFICES ASSUME Init PROVE FreshInv
    OBVIOUS
<1>1. pc = "idle" /\ ~asked /\ result = "none"
  BY DEF Init
<1>2. QED BY <1>1, TypeInvInit
          DEF FreshInv, Waiting, Stopping, Stopped, Cleared, Exiting, Exit

\* ... and after every step.
LEMMA FreshInvStep == FreshInv /\ [Next]_vars => FreshInv'
BY TypeInvStep, WaitingStep, StoppingStep, StoppedStep, ClearedStep, ExitingStep
   DEF FreshInv, TypeInv

\* The loop ends with the complete result of a survey of this run, when its stop
\* was answered, nobody aborted and no read was torn: for every number of surveys
\* and restarts, and whatever the order of reports, answers and updates.
THEOREM ResultIsFreshAlways == Spec => []ResultIsFresh
<1>1. FreshInv => ResultIsFresh
  BY DEF FreshInv, Exiting, Exit, Clean, ResultIsFresh
<1>2. QED BY <1>1, FreshInvInit, FreshInvStep, PTL DEF Spec

-----------------------------------------------------------------------------
(* What the receiver has reported of a complete survey it keeps to          *)

\* A report of the survey of p or of an earlier one, that comes after p was
\* reported complete, is a report of p.
Backed(p, r) == r.is = "svin" /\ 0 < r.survey /\ r.survey <= p.survey => PositionOf(r) = p

\* So it is with what the receiver reports now, and with the wire after item k.
Upheld(p, k, w, now) ==
    Backed(p, now) /\ \A j \in 1 .. Len(w) : j > k => Backed(p, w[j])

WireUpheld(w, now) ==
    \A i \in 1 .. Len(w) :
        w[i].is = "svin" /\ w[i].valid => Upheld(PositionOf(w[i]), i, w, now)

Told ==
    /\ \A i \in 1 .. Len(wire) : wire[i].is = "svin" => wire[i].survey <= survey
    /\ half.is = "svin" => half.survey <= survey
    /\ status.at.survey <= survey

Agree ==
    /\ WireUpheld(wire, Reported)
    /\ half.is = "svin" /\ half.valid => Upheld(PositionOf(half), 0, wire, Reported)
    /\ status.at.final => Upheld(status.at, 0, wire, Reported) /\ Backed(status.at, half)

\* What a report can say: nothing before the first survey, a final position
\* if and only if it is valid.
LEMMA ReportFacts ==
    ASSUME NEW r \in RealReport
    PROVE  /\ r.is = "svin" /\ r.survey \in Nat
           /\ r.survey = 0 => ~r.active /\ ~r.valid /\ r.obs = 0
           /\ r.valid => /\ PositionOf(r) \in Position
                         /\ PositionOf(r).final /\ PositionOf(r).survey = r.survey
           /\ ~r.valid => ~PositionOf(r).final
           /\ PositionOf(r) \in Place /\ PositionOf(r).survey <= r.survey
<1>1. /\ r.is = "svin" /\ r.survey \in 0 .. MaxSurveys /\ r.obs \in 0 .. ObsMax
      /\ r.valid \in BOOLEAN /\ r.active \in BOOLEAN
      /\ (r.obs > 0 \/ r.active => r.survey > 0) /\ (r.valid => r.obs > 0)
  BY DEF RealReport, Report
<1>2. r.survey \in Nat /\ (r.survey = 0 => ~r.active /\ ~r.valid /\ r.obs = 0)
  BY <1>1, MaxSurveysAssumption, ObsMaxAssumption
<1>3. CASE r.obs = 0
  <2>1. ~r.valid
    BY <1>1, <1>3
  <2>2. PositionOf(r) = NoPosition
    BY <1>3 DEF PositionOf
  <2>3. QED BY <1>1, <1>2, <2>1, <2>2 DEF NoPosition, Place
<1>4. CASE r.obs # 0
  <2>1. r.survey \in 1 .. MaxSurveys /\ r.obs \in 1 .. ObsMax
    BY <1>1, <1>4, MaxSurveysAssumption, ObsMaxAssumption
  <2>2. PositionOf(r) = [survey |-> r.survey, obs |-> r.obs, final |-> r.valid]
    BY <1>4 DEF PositionOf
  <2>3. PositionOf(r) \in Position
    BY <1>1, <2>1, <2>2 DEF Position
  <2>4. QED BY <1>1, <1>2, <2>2, <2>3 DEF Place
<1>5. QED BY <1>3, <1>4

\* Filing the first report takes back no result, and those behind it
\* uphold what it says.
LEMMA UpheldTail ==
    ASSUME NEW w \in Seq(Item), w # <<>>, NEW now, WireUpheld(w, now)
    PROVE  /\ WireUpheld(Tail(w), now)
           /\ \A p : Upheld(p, 0, w, now) => Upheld(p, 0, Tail(w), now) /\ Backed(p, Head(w))
           /\ Head(w).is = "svin" /\ Head(w).valid =>
                Upheld(PositionOf(Head(w)), 0, Tail(w), now)
<1>1. /\ Len(w) \in Nat /\ Len(w) > 0 /\ Head(w) = w[1] /\ Len(Tail(w)) = Len(w) - 1
      /\ \A i \in 1 .. Len(Tail(w)) : Tail(w)[i] = w[i + 1] /\ i + 1 \in 1 .. Len(w)
  BY Elements
<1>2. ASSUME NEW p, NEW k \in Nat, NEW l \in Nat, l <= k + 1, Upheld(p, l, w, now)
      PROVE  Upheld(p, k, Tail(w), now)
  <2> SUFFICES ASSUME NEW j \in 1 .. Len(Tail(w)), j > k PROVE Backed(p, Tail(w)[j])
      BY <1>2 DEF Upheld
  <2>1. Tail(w)[j] = w[j + 1] /\ j + 1 \in 1 .. Len(w)
    BY <1>1
  <2>2. j + 1 > l
    BY <1>1, <1>2
  <2>3. QED BY <1>2, <2>1, <2>2 DEF Upheld
<1>3. WireUpheld(Tail(w), now)
  <2> SUFFICES ASSUME NEW i \in 1 .. Len(Tail(w)), Tail(w)[i].is = "svin", Tail(w)[i].valid
               PROVE  Upheld(PositionOf(Tail(w)[i]), i, Tail(w), now)
      BY DEF WireUpheld
  <2>1. Tail(w)[i] = w[i + 1] /\ i + 1 \in 1 .. Len(w) /\ i \in Nat
    BY <1>1
  <2>2. Upheld(PositionOf(Tail(w)[i]), i + 1, w, now)
    BY <2>1 DEF WireUpheld
  <2>3. QED BY <1>2, <2>1, <2>2
<1>4. \A p : Upheld(p, 0, w, now) => Upheld(p, 0, Tail(w), now) /\ Backed(p, Head(w))
  <2> TAKE p
  <2> HAVE Upheld(p, 0, w, now)
  <2>1. Backed(p, Head(w))
    BY <1>1 DEF Upheld
  <2>2. QED BY <1>2, <2>1
<1>5. Head(w).is = "svin" /\ Head(w).valid => Upheld(PositionOf(Head(w)), 0, Tail(w), now)
  <2> HAVE Head(w).is = "svin" /\ Head(w).valid
  <2>1. Upheld(PositionOf(Head(w)), 1, w, now)
    BY <1>1 DEF WireUpheld
  <2>2. QED BY <1>2, <2>1
<1>6. QED BY <1>3, <1>4, <1>5

\* A new report that agrees with the receiver takes back no result.
LEMMA UpheldAppend ==
    ASSUME NEW w \in Seq(Item), NEW now, NEW x \in Item, WireUpheld(w, now),
           x.is = "svin" => x = now,
           x.is = "svin" /\ x.valid => Backed(PositionOf(x), x)
    PROVE  /\ WireUpheld(Append(w, x), now)
           /\ \A p : Upheld(p, 0, w, now) => Upheld(p, 0, Append(w, x), now)
<1>1. /\ Len(w) \in Nat /\ Len(Append(w, x)) = Len(w) + 1
      /\ \A i \in 1 .. Len(w) : Append(w, x)[i] = w[i]
      /\ Append(w, x)[Len(w) + 1] = x
  BY Elements
<1>2. ASSUME NEW p, NEW k \in Nat, Upheld(p, k, w, now) PROVE Upheld(p, k, Append(w, x), now)
  <2>1. Backed(p, now) /\ Backed(p, x)
    BY <1>2 DEF Upheld, Backed
  <2> SUFFICES ASSUME NEW j \in 1 .. Len(w) + 1, j > k PROVE Backed(p, Append(w, x)[j])
      BY <1>1, <2>1 DEF Upheld
  <2>2. CASE j = Len(w) + 1
    BY <1>1, <2>1, <2>2
  <2>3. CASE j \in 1 .. Len(w)
    BY <1>1, <1>2, <2>3 DEF Upheld
  <2>4. QED BY <1>1, <2>2, <2>3
<1>3. WireUpheld(Append(w, x), now)
  <2> SUFFICES ASSUME NEW i \in 1 .. Len(w) + 1,
                      Append(w, x)[i].is = "svin", Append(w, x)[i].valid
               PROVE  Upheld(PositionOf(Append(w, x)[i]), i, Append(w, x), now)
      BY <1>1 DEF WireUpheld
  <2>1. CASE i = Len(w) + 1
    <3>1. Append(w, x)[i] = x /\ Backed(PositionOf(x), now)
      BY <1>1, <2>1
    <3>2. \A j \in 1 .. Len(Append(w, x)) : ~(j > i)
      BY <1>1, <2>1
    <3>3. QED BY <3>1, <3>2 DEF Upheld
  <2>2. CASE i \in 1 .. Len(w)
    <3>1. Append(w, x)[i] = w[i] /\ i \in Nat
      BY <1>1, <2>2
    <3>2. Upheld(PositionOf(Append(w, x)[i]), i, w, now)
      BY <2>2, <3>1 DEF WireUpheld
    <3>3. QED BY <1>2, <3>1, <3>2
  <2>3. QED BY <1>1, <2>1, <2>2
<1>4. QED BY <1>2, <1>3

\* A complete survey goes on as it is, and another one is a later one.
LEMMA PromiseKept ==
    ASSUME TypeInv, [Next]_vars
    PROVE  \A p \in Position :
             p.final /\ p.survey <= survey /\ Backed(p, Reported) => Backed(p, Reported')
<1> SUFFICES ASSUME NEW p \in Position, p.final, p.survey <= survey, Backed(p, Reported)
             PROVE  Backed(p, Reported')
    OBVIOUS
<1>1. survey \in Nat /\ p.survey \in Nat
  BY MaxSurveysAssumption DEF TypeInv, ReceiverOK, Position
<1>2. CASE UNCHANGED receiver
  BY <1>2 DEF receiver, Reported
<1>3. CASE Observe
  <2>1. /\ mode = "survey" /\ ~valid
        /\ Reported = [is |-> "svin", active |-> ~valid, valid |-> valid,
                       survey |-> survey, obs |-> obs]
    BY <1>3 DEF Observe, Reported
  <2>2. PositionOf(Reported) # p
    <3>1. /\ ~Reported.valid
          /\ PositionOf(Reported) = NoPosition \/ PositionOf(Reported).final = Reported.valid
      BY <2>1 DEF PositionOf
    <3>2. QED BY <3>1 DEF NoPosition
  <2>3. Reported.is = "svin" /\ Reported.survey = survey /\ 0 < survey
    BY <2>1 DEF TypeInv, ReceiverOK
  <2>4. p.survey < survey
    BY <1>1, <2>2, <2>3 DEF Backed
  <2>5. Reported'.survey = survey
    BY <1>3, <2>1 DEF Observe, Reported
  <2>6. QED BY <1>1, <2>4, <2>5 DEF Backed
<1>4. ASSUME NEW c, CarryOut(c) PROVE Backed(p, Reported')
  <2>1. \/ mode' \in {"off", "fixed"}
        \/ mode' = "survey" /\ survey' = survey + 1
    BY <1>4 DEF CarryOut
  <2>2. Reported'.survey = 0 \/ Reported'.survey = survey + 1
    BY <2>1 DEF Reported
  <2>3. QED BY <1>1, <2>2 DEF Backed
<1>5. CASE Obey
  BY <1>2, <1>4, <1>5 DEF Obey
<1>6. CASE RunBegins \/ RunStep \/ Expire \/ ReaderStep \/ ReportSvin \/ Abort
           \/ DeletePosition \/ Crash \/ UNCHANGED vars
  <2>1. UNCHANGED receiver
    BY <1>6 DEF RunBegins, RunStep, Expire, ReaderStep, ReportSvin, Abort, DeletePosition, Crash,
       vars, Call, Answered, GivesUp, Proceed, Clear, Load, Poll, Judge, Judged, Test, ReadAgain,
       Open, Write, RunEnds, FileReport, FilePosition, FileAnswer
  <2>2. QED BY <1>2, <2>1
<1>7. QED BY <1>3, <1>5, <1>6 DEF Next

\* What happens on the wire alone.
OnWire ==
    \/ wire' = wire
    \/ ReportSvin /\ wire' = Append(wire, Reported)
    \/ FileAnswer /\ wire' = Tail(wire)
    \/ \E done \in BOOLEAN : wire' = Append(wire, [is |-> "answer", ok |-> done])

\* How the wire and what the reader has of it change, one way at a time.
LEMMA Handling ==
    ASSUME TypeInv, [Next]_vars
    PROVE  \/ Crash \/ FileReport \/ FilePosition
           \/ OnWire /\ half' = half /\ status'.at = status.at
<1>1. status \in [valid : BOOLEAN, obs : 0 .. ObsMax, at : Place]
  BY DEF TypeInv, PlacesOK
<1>2. CASE RunStep
  <2>1. wire' = wire /\ half' = half
    BY <1>2 DEF RunStep, Call, Answered, GivesUp, Proceed, Clear, Load, Poll, Judge, Judged, Test,
       ReadAgain, Open, Write, RunEnds, link, reader
  <2>2. status' = status \/ status' = [status EXCEPT !.valid = FALSE, !.obs = 0]
    BY <1>2 DEF RunStep, Call, Answered, GivesUp, Proceed, Clear, Load, Poll, Judge, Judged, Test,
       ReadAgain, Open, Write, RunEnds, link, reader
  <2>3. status'.at = status.at
    BY <1>1, <2>2
  <2>4. QED BY <2>1, <2>3 DEF OnWire
<1>3. CASE ReportSvin
  <2>1. wire' = Append(wire, Reported) /\ UNCHANGED reader
    BY <1>3 DEF ReportSvin, Reported
  <2>2. QED BY <1>3, <2>1 DEF reader, OnWire
<1>4. CASE Obey
  <2>1. UNCHANGED reader
    BY <1>4 DEF Obey
  <2>2. wire' = wire \/ \E done \in BOOLEAN : wire' = Append(wire, [is |-> "answer", ok |-> done])
    BY <1>4 DEF Obey
  <2>3. QED BY <2>1, <2>2 DEF reader, OnWire
<1>5. CASE FileAnswer
  BY <1>5 DEF FileAnswer, reader, OnWire
<1>6. CASE RunBegins \/ Expire \/ Observe \/ Abort \/ DeletePosition \/ UNCHANGED vars
  BY <1>6 DEF RunBegins, Expire, Observe, Abort, DeletePosition, link, reader, vars, OnWire
<1>7. QED BY <1>2, <1>3, <1>4, <1>5, <1>6 DEF Next, ReaderStep

\* The receiver never reports complete what it has not completed.
LEMMA ReportedFacts ==
    ASSUME TypeInv
    PROVE  /\ Reported \in RealReport /\ Reported.survey <= survey
           /\ Reported.valid => Backed(PositionOf(Reported), Reported)
<1>1. Reported \in RealReport
  <2>1. Reported \in Item /\ Reported.is = "svin"
    BY ReportedTyped
  <2>2. QED BY <2>1 DEF Item, Answer
<1>2. Reported.survey <= survey
  <2>1. survey \in Nat
    BY MaxSurveysAssumption DEF TypeInv, ReceiverOK
  <2>2. QED BY <2>1 DEF Reported
<1>3. QED BY <1>1, <1>2 DEF Backed

\* Only reports are filed, in the order they came.
LEMMA FirstReport ==
    ASSUME TypeInv, FileReport
    PROVE  Head(wire) \in RealReport /\ wire # <<>> /\ wire' = Tail(wire)
<1>1. Head(wire) \in Item
  BY TakeFirst DEF FileReport, TypeInv, WireOK
<1>2. QED BY <1>1 DEF FileReport, Item, Answer

\* Reports are of surveys that were begun.
LEMMA ToldStep == TypeInv /\ Told /\ [Next]_vars => Told'
<1> SUFFICES ASSUME TypeInv, Told, [Next]_vars PROVE Told'
    OBVIOUS
<1>1. wire \in Seq(Item)
  BY DEF TypeInv, WireOK
<1>2. PICK s \in Nat, t \in Nat : s = survey /\ t = survey' /\ s <= t
  <2>1. ReceiverOK' /\ survey' >= survey
    BY ReceiverStep DEF TypeInv
  <2>2. survey \in Nat /\ survey' \in Nat
    BY <2>1, MaxSurveysAssumption DEF TypeInv, ReceiverOK
  <2>3. QED BY <2>1, <2>2
<1>3. /\ \A i \in 1 .. Len(wire) :
           wire[i].is = "svin" => wire[i].survey \in Nat /\ wire[i].survey <= s
      /\ half.is = "svin" => half \in RealReport /\ half.survey \in Nat /\ half.survey <= s
      /\ status.at \in Place /\ status.at.survey \in Nat /\ status.at.survey <= s
  <2>1. \A i \in 1 .. Len(wire) : wire[i] \in Item
    BY <1>1, Elements
  <2>2. \A i \in 1 .. Len(wire) : wire[i].is = "svin" => wire[i].survey \in Nat
    BY <2>1, ReportFacts DEF Item, Answer
  <2>3. half.is = "svin" => half \in RealReport /\ half.survey \in Nat
    BY ReportFacts DEF TypeInv, PlacesOK, NoReport
  <2>4. status.at \in Place /\ status.at.survey \in Nat
    BY MaxSurveysAssumption DEF TypeInv, PlacesOK, Place, Position, NoPosition
  <2>5. QED BY <1>2, <2>2, <2>3, <2>4 DEF Told
<1>4. ASSUME NEW w, NEW h, NEW p,
             \A i \in 1 .. Len(w) : w[i].is = "svin" => w[i].survey \in Nat /\ w[i].survey <= s,
             h.is = "svin" => h.survey \in Nat /\ h.survey <= s,
             p.survey \in Nat, p.survey <= s,
             wire' = w, half' = h, status'.at = p
      PROVE  Told'
  BY <1>2, <1>4 DEF Told
<1>5. ASSUME NEW x \in Item, x.is = "svin" => x.survey \in Nat /\ x.survey <= s
      PROVE  \A i \in 1 .. Len(Append(wire, x)) :
               Append(wire, x)[i].is = "svin" =>
                 Append(wire, x)[i].survey \in Nat /\ Append(wire, x)[i].survey <= s
  <2>1. /\ Len(wire) \in Nat /\ Len(Append(wire, x)) = Len(wire) + 1
        /\ \A i \in 1 .. Len(wire) : Append(wire, x)[i] = wire[i]
        /\ Append(wire, x)[Len(wire) + 1] = x
    BY <1>1, Elements
  <2>2. TAKE i \in 1 .. Len(Append(wire, x))
  <2>3. i = Len(wire) + 1 \/ i \in 1 .. Len(wire)
    BY <2>1
  <2>4. QED BY <1>3, <1>5, <2>1, <2>3
<1>6. ASSUME wire # <<>>
      PROVE  \A i \in 1 .. Len(Tail(wire)) :
               Tail(wire)[i].is = "svin" => Tail(wire)[i].survey \in Nat /\ Tail(wire)[i].survey <= s
  <2>1. /\ Len(wire) \in Nat /\ Len(Tail(wire)) = Len(wire) - 1
        /\ \A i \in 1 .. Len(wire) - 1 : Tail(wire)[i] = wire[i + 1]
    BY <1>1, <1>6, Elements
  <2>2. TAKE i \in 1 .. Len(Tail(wire))
  <2>3. Tail(wire)[i] = wire[i + 1] /\ i + 1 \in 1 .. Len(wire)
    BY <2>1
  <2>4. QED BY <1>3, <2>3
<1>7. CASE Crash
  <2>1. wire' = <<>> /\ half' = NoReport /\ status'.at = NoPosition
    BY <1>7 DEF Crash
  <2>2. NoReport.is # "svin" /\ NoPosition.survey = 0
    BY DEF NoReport, NoPosition
  <2>3. QED BY <1>2, <2>1, <2>2 DEF Told
<1>8. CASE FileReport
  <2>1. /\ Head(wire) \in RealReport /\ wire # <<>> /\ wire' = Tail(wire)
        /\ Head(wire) = wire[1] /\ Len(wire) \in Nat /\ Len(wire) > 0
    BY <1>1, <1>8, FirstReport, Elements
  <2>2. status \in [valid : BOOLEAN, obs : 0 .. ObsMax, at : Place]
    BY DEF TypeInv, PlacesOK
  <2>3. status'.at = status.at /\ half' \in {half, Head(wire)}
    BY <1>8, <2>2 DEF FileReport, reader
  <2>4. wire[1].is = "svin" => wire[1].survey \in Nat /\ wire[1].survey <= s
    BY <1>3, <2>1
  <2>5. half'.is = "svin" => half'.survey \in Nat /\ half'.survey <= s
    BY <1>3, <2>1, <2>3, <2>4
  <2>6. QED BY <1>3, <1>4, <1>6, <2>1, <2>3, <2>5
<1>9. CASE FilePosition
  <2>1. status \in [valid : BOOLEAN, obs : 0 .. ObsMax, at : Place]
    BY DEF TypeInv, PlacesOK
  <2>2. half \in RealReport /\ wire' = wire /\ half' = NoReport /\ status'.at = PositionOf(half)
    BY <1>9, <2>1 DEF FilePosition, TypeInv, PlacesOK, link
  <2>3. PositionOf(half).survey \in Nat /\ PositionOf(half).survey <= half.survey
    BY <2>2, ReportFacts, MaxSurveysAssumption DEF Place, Position, NoPosition
  <2>4. half.survey \in Nat /\ half.survey <= s
    BY <1>3, <2>2, ReportFacts
  <2>5. PositionOf(half).survey <= s
    BY <2>3, <2>4
  <2>6. NoReport.is # "svin"
    BY DEF NoReport
  <2>7. QED BY <1>3, <1>4, <2>2, <2>3, <2>5, <2>6
<1>10. CASE OnWire /\ half' = half /\ status'.at = status.at
  <2>1. CASE wire' = wire
    BY <1>3, <1>4, <1>10, <2>1
  <2>2. CASE ReportSvin /\ wire' = Append(wire, Reported)
    <3>1. Reported \in Item /\ Reported.survey \in Nat /\ Reported.survey <= s
      BY <1>2, ReportedFacts, ReportFacts DEF Item
    <3>2. QED BY <1>3, <1>4, <1>5, <1>10, <2>2, <3>1
  <2>3. CASE \E done \in BOOLEAN : wire' = Append(wire, [is |-> "answer", ok |-> done])
    <3>1. PICK done \in BOOLEAN : wire' = Append(wire, [is |-> "answer", ok |-> done])
      BY <2>3
    <3>2. [is |-> "answer", ok |-> done] \in Item
      BY DEF Item, Answer
    <3>3. QED BY <1>3, <1>4, <1>5, <1>10, <3>1, <3>2
  <2>4. CASE FileAnswer /\ wire' = Tail(wire)
    <3>1. wire # <<>>
      BY <2>4 DEF FileAnswer
    <3>2. QED BY <1>3, <1>4, <1>6, <1>10, <2>4, <3>1
  <2>5. QED BY <1>10, <2>1, <2>2, <2>3, <2>4 DEF OnWire
<1>11. QED BY <1>7, <1>8, <1>9, <1>10, Handling

\* A complete result is not taken back by a report that comes later.
LEMMA AgreeStep == TypeInv /\ Told /\ Agree /\ [Next]_vars => Agree'
<1> SUFFICES ASSUME TypeInv, Told, Agree, [Next]_vars PROVE Agree'
    OBVIOUS
<1>1. wire \in Seq(Item) /\ \A i \in 1 .. Len(wire) : wire[i] \in Item
  BY Elements DEF TypeInv, WireOK
<1>2. status \in [valid : BOOLEAN, obs : 0 .. ObsMax, at : Place]
      /\ half \in RealReport \union {NoReport} /\ (half.is = "svin" => half \in RealReport)
  BY DEF TypeInv, PlacesOK, NoReport
<1>3. /\ WireUpheld(wire, Reported')
      /\ half.is = "svin" /\ half.valid => Upheld(PositionOf(half), 0, wire, Reported')
      /\ status.at.final => Upheld(status.at, 0, wire, Reported') /\ Backed(status.at, half)
  <2>1. \A p \in Position : p.final /\ p.survey <= survey /\ Backed(p, Reported)
                            => Backed(p, Reported')
    BY PromiseKept
  <2>2. WireUpheld(wire, Reported')
    <3> SUFFICES ASSUME NEW i \in 1 .. Len(wire), wire[i].is = "svin", wire[i].valid
                 PROVE  Upheld(PositionOf(wire[i]), i, wire, Reported')
        BY DEF WireUpheld
    <3>1. wire[i] \in RealReport
      BY <1>1 DEF Item, Answer
    <3>2. Upheld(PositionOf(wire[i]), i, wire, Reported) /\ wire[i].survey <= survey
      BY DEF Agree, WireUpheld, Told
    <3>3. Backed(PositionOf(wire[i]), Reported')
      BY <2>1, <3>1, <3>2, ReportFacts DEF Upheld
    <3>4. QED BY <3>2, <3>3 DEF Upheld
  <2>3. ASSUME half.is = "svin", half.valid PROVE Upheld(PositionOf(half), 0, wire, Reported')
    <3>1. Upheld(PositionOf(half), 0, wire, Reported) /\ half.survey <= survey
      BY <2>3 DEF Agree, Told
    <3>2. Backed(PositionOf(half), Reported')
      BY <1>2, <2>1, <2>3, <3>1, ReportFacts DEF Upheld
    <3>3. QED BY <3>1, <3>2 DEF Upheld
  <2>4. ASSUME status.at.final
        PROVE  Upheld(status.at, 0, wire, Reported') /\ Backed(status.at, half)
    <3>1. /\ Upheld(status.at, 0, wire, Reported) /\ Backed(status.at, half)
          /\ status.at.survey <= survey
      BY <2>4 DEF Agree, Told
    <3>2. status.at \in Position
      BY <1>2, <2>4 DEF Place, NoPosition
    <3>3. Backed(status.at, Reported')
      BY <2>1, <2>4, <3>1, <3>2 DEF Upheld
    <3>4. QED BY <3>1, <3>3 DEF Upheld
  <2>5. QED BY <2>2, <2>3, <2>4
<1>4. CASE Crash
  <2>1. wire' = <<>> /\ half' = NoReport /\ status'.at = NoPosition
    BY <1>4 DEF Crash
  <2>2. NoReport.is # "svin" /\ ~NoPosition.final
    BY DEF NoReport, NoPosition
  <2>3. QED BY <2>1, <2>2 DEF Agree, WireUpheld
<1>5. CASE FileReport
  <2>1. Head(wire) \in RealReport /\ wire # <<>> /\ wire' = Tail(wire)
    BY <1>5, FirstReport
  <2>2. /\ WireUpheld(Tail(wire), Reported')
        /\ \A p : Upheld(p, 0, wire, Reported')
                  => Upheld(p, 0, Tail(wire), Reported') /\ Backed(p, Head(wire))
        /\ Head(wire).is = "svin" /\ Head(wire).valid
             => Upheld(PositionOf(Head(wire)), 0, Tail(wire), Reported')
    BY <1>1, <1>3, <2>1, UpheldTail
  <2>3. status'.at = status.at /\ half' \in {half, Head(wire)}
    BY <1>2, <1>5 DEF FileReport, reader
  <2>4. QED BY <1>3, <2>1, <2>2, <2>3 DEF Agree
<1>6. CASE FilePosition
  <2>1. half \in RealReport /\ wire' = wire /\ half' = NoReport /\ status'.at = PositionOf(half)
    BY <1>2, <1>6 DEF FilePosition, link
  <2>2. half.is = "svin" /\ (PositionOf(half).final => half.valid)
    BY <2>1, ReportFacts
  <2>3. NoReport.is # "svin"
    BY DEF NoReport
  <2>4. QED BY <1>3, <2>1, <2>2, <2>3 DEF Agree, Backed
<1>7. CASE OnWire /\ half' = half /\ status'.at = status.at
  <2>1. CASE wire' = wire
    BY <1>3, <1>7, <2>1 DEF Agree
  <2>2. CASE ReportSvin /\ wire' = Append(wire, Reported)
    <3>1. /\ Reported \in Item /\ (Reported.valid => Backed(PositionOf(Reported), Reported))
      BY ReportedFacts DEF Item
    <3>2. /\ WireUpheld(Append(wire, Reported), Reported)
          /\ \A p : Upheld(p, 0, wire, Reported) => Upheld(p, 0, Append(wire, Reported), Reported)
      BY <1>1, <3>1, UpheldAppend DEF Agree
    <3>3. Reported' = Reported
      BY <2>2 DEF ReportSvin, receiver, Reported
    <3>4. QED BY <1>3, <1>7, <2>2, <3>2, <3>3 DEF Agree
  <2>3. CASE \E done \in BOOLEAN : wire' = Append(wire, [is |-> "answer", ok |-> done])
    <3>1. PICK done \in BOOLEAN : wire' = Append(wire, [is |-> "answer", ok |-> done])
      BY <2>3
    <3>2. [is |-> "answer", ok |-> done] \in Item /\ [is |-> "answer", ok |-> done].is # "svin"
      BY DEF Item, Answer
    <3>3. /\ WireUpheld(wire', Reported')
          /\ \A p : Upheld(p, 0, wire, Reported') => Upheld(p, 0, wire', Reported')
      BY <1>1, <1>3, <3>1, <3>2, UpheldAppend
    <3>4. QED BY <1>3, <1>7, <3>3 DEF Agree
  <2>4. CASE FileAnswer /\ wire' = Tail(wire)
    <3>1. wire # <<>>
      BY <2>4 DEF FileAnswer
    <3>2. /\ WireUpheld(wire', Reported')
          /\ \A p : Upheld(p, 0, wire, Reported') => Upheld(p, 0, wire', Reported')
      BY <1>1, <1>3, <2>4, <3>1, UpheldTail
    <3>3. QED BY <1>3, <1>7, <3>2 DEF Agree
  <2>5. QED BY <1>7, <2>1, <2>2, <2>3, <2>4 DEF OnWire
<1>8. QED BY <1>4, <1>5, <1>6, <1>7, Handling

-----------------------------------------------------------------------------
(* What a run without any trouble saves                                    *)

Quiet == trouble = {}

OnlyReports(w) == \A i \in 1 .. Len(w) : w[i].is = "svin"
OneLast(w) == \A i, j \in 1 .. Len(w) : w[i].is = "answer" /\ j > i => w[j].is = "svin"
SaysYes(w) == \E i \in 1 .. Len(w) : w[i].is = "answer" /\ w[i].ok

\* The command on its way is the one the run has come to.
Meant(c) ==
    /\ c.do = "start" => pc = "start" /\ survey = mark
    /\ pc = "apply" => c = [do |-> "fix", at |-> status.at]

\* The run's command is the one on its way, and its answer the only answer.
Alone ==
    /\ ~asked => out = <<>> /\ OnlyReports(wire)
    /\ out # <<>> => Len(out) = 1 /\ OnlyReports(wire) /\ result = "none" /\ Meant(out[1])
    /\ result # "none" => OnlyReports(wire)
    /\ OneLast(wire)

Attended == Quiet /\ pc # "idle" => Alone

\* The run begins at most one survey.
Counted ==
    Quiet /\ pc # "idle" =>
        /\ pc # "restart" /\ survey <= mark + 1
        /\ pc \in {"stop", "clear", "load", "fixSaved"} \/ (pc = "start" /\ ~asked) => survey = mark

\* The loop has ended with the result of that survey, and nothing changes it.
Settled ==
    Quiet /\ pc \in {"apply", "read"} =>
        /\ status.at.final /\ status.at.survey = survey
        /\ half.is = "svin" => half.survey = survey

\* Where the receiver is fixed, and what the run has in its hands from then on.
Accepted == result = "ack" \/ SaysYes(wire)

FixedThere ==
    Quiet =>
        /\ pc = "apply" /\ Accepted => status.at \in fixedAt
        /\ pc = "read" => status.at \in fixedAt
        /\ pc \in {"open", "write"} => held.final /\ held \in fixedAt

\* Only a run that begins, or a boot, forgives a trouble or moves the mark.
LEMMA QuietStep ==
    ASSUME [Next]_vars
    PROVE  RunBegins \/ Crash \/ (mark' = mark /\ (Quiet' => Quiet /\ ~Abort))
<1>1. ASSUME NEW t, Note(t) PROVE Quiet' => Quiet
  BY <1>1 DEF Note, Quiet
<1>2. Abort => mark' = mark /\ ~Quiet'
  BY DEF Abort, Quiet
<1>3. CASE Call \/ Answered \/ GivesUp \/ Test \/ ReadAgain
  <2>1. mark' = mark /\ \E t : Note(t)
    BY <1>3 DEF Call, Answered, GivesUp, Proceed, Test, ReadAgain
  <2>2. QED BY <1>1, <1>2, <2>1
<1>4. CASE Clear \/ Load \/ Poll \/ Judge \/ Open \/ Write \/ RunEnds \/ Expire \/ ReaderStep
           \/ Observe \/ ReportSvin \/ Obey \/ DeletePosition \/ UNCHANGED vars
  <2>1. mark' = mark /\ trouble' = trouble
    BY <1>4 DEF Clear, Load, Poll, Judge, Judged, Open, Write, RunEnds, Expire, ReaderStep,
       FileReport, FilePosition, FileAnswer, Observe, ReportSvin, Obey, DeletePosition, history,
       vars
  <2>2. QED BY <1>2, <2>1 DEF Quiet
<1>5. QED BY <1>2, <1>3, <1>4 DEF Next, RunStep

\* How the run comes to each of its steps.
LEMMA NextSteps ==
    ASSUME Waiting, [Next]_vars, ~RunBegins, ~Crash
    PROVE  /\ pc' \in {"clear", "load", "fixSaved"} =>
                pc \in {"stop", "clear", "load", "fixSaved"}
           /\ pc' = "start" /\ ~asked' => pc \in {"load", "fixSaved"} \/ (pc = "start" /\ ~asked)
           /\ pc' = "restart" => pc = "restart" \/ (pc = "restop" /\ (Answered \/ GivesUp))
           /\ pc' = "read" => pc = "read" \/ (pc = "apply" /\ Answered /\ result = "ack")
           /\ pc' = "open" => pc = "open" \/ ReadAgain
           /\ pc' = "write" => pc = "write" \/ Open
<1>1. ASSUME NEW ok \in BOOLEAN, Proceed(ok), pc \in Calls
      PROVE  /\ pc' = "clear" => pc = "stop"
             /\ pc' = "start" => pc = "fixSaved"
             /\ pc' = "restart" => pc = "restop"
             /\ pc' = "read" => pc = "apply" /\ ok
             /\ pc' \in {"clear", "start", "restart", "read", "poll", "test", "idle", "done"}
  <2>1. CASE pc = "stop"
    BY <1>1, <2>1 DEF Proceed
  <2>2. CASE pc = "fixSaved"
    BY <1>1, <2>2 DEF Proceed
  <2>3. CASE pc \in {"start", "restart"}
    BY <1>1, <2>3 DEF Proceed
  <2>4. CASE pc = "restop"
    BY <1>1, <2>4 DEF Proceed
  <2>5. CASE pc = "apply"
    BY <1>1, <2>5 DEF Proceed
  <2>6. QED BY <1>1, <2>1, <2>2, <2>3, <2>4, <2>5 DEF Calls
<1>2. CASE Answered
  <2>1. pc \in Calls /\ Proceed(result = "ack") /\ (result = "ack") \in BOOLEAN
    BY <1>2 DEF Answered, Waiting
  <2>2. QED BY <1>1, <1>2, <2>1
<1>3. CASE GivesUp
  <2>1. pc \in Calls /\ Proceed(FALSE)
    BY <1>3 DEF GivesUp, Waiting
  <2>2. QED BY <1>1, <1>3, <2>1
<1>4. CASE Clear \/ Load \/ Poll \/ Expire \/ Judge \/ Test \/ ReadAgain \/ Open \/ Write \/ RunEnds
  BY <1>4 DEF Clear, Load, Poll, Expire, Judge, Judged, Test, ReadAgain, Open, Write, RunEnds
<1>5. CASE Call
  <2>1. pc' = pc /\ asked' /\ pc \in Calls
    BY <1>5, Zenon DEF Call
  <2>2. QED BY <2>1 DEF Calls
<1>6. CASE ReaderStep \/ Observe \/ ReportSvin \/ Obey \/ Abort \/ DeletePosition
           \/ UNCHANGED vars
  <2>1. pc' = pc /\ asked' = asked
    BY <1>6 DEF ReaderStep, FileReport, FilePosition, FileAnswer, Observe, ReportSvin, Obey,
       Abort, DeletePosition, run, vars
  <2>2. QED BY <2>1
<1>7. QED BY <1>2, <1>3, <1>4, <1>5, <1>6 DEF Next, RunStep

\* One answer at most is on the wire, until it is read.
LEMMA AnswersTail ==
    ASSUME NEW w \in Seq(Item), w # <<>>
    PROVE  /\ OnlyReports(w) => OnlyReports(Tail(w)) /\ Head(w).is = "svin"
           /\ OneLast(w) => OneLast(Tail(w)) /\ (Head(w).is = "answer" => OnlyReports(Tail(w)))
           /\ SaysYes(Tail(w)) => SaysYes(w)
           /\ Head(w).is = "answer" /\ Head(w).ok => SaysYes(w)
<1>1. /\ Len(w) \in Nat /\ Len(w) > 0 /\ Head(w) = w[1] /\ Len(Tail(w)) = Len(w) - 1
      /\ \A i \in 1 .. Len(Tail(w)) : Tail(w)[i] = w[i + 1] /\ i + 1 \in 1 .. Len(w) /\ i + 1 > 1
  BY Elements
<1>2. OnlyReports(w) => OnlyReports(Tail(w)) /\ Head(w).is = "svin"
  BY <1>1 DEF OnlyReports
<1>3. OneLast(w) => OneLast(Tail(w))
  <2> SUFFICES ASSUME OneLast(w), NEW i \in 1 .. Len(Tail(w)), NEW j \in 1 .. Len(Tail(w)),
                      Tail(w)[i].is = "answer", j > i
               PROVE  Tail(w)[j].is = "svin"
      BY DEF OneLast
  <2>1. Tail(w)[i] = w[i + 1] /\ Tail(w)[j] = w[j + 1] /\ j + 1 > i + 1
        /\ i + 1 \in 1 .. Len(w) /\ j + 1 \in 1 .. Len(w)
    BY <1>1
  <2>2. QED BY <2>1 DEF OneLast
<1>4. OneLast(w) /\ Head(w).is = "answer" => OnlyReports(Tail(w))
  BY <1>1 DEF OneLast, OnlyReports
<1>5. SaysYes(Tail(w)) => SaysYes(w)
  BY <1>1 DEF SaysYes
<1>6. Head(w).is = "answer" /\ Head(w).ok => SaysYes(w)
  <2>1. 1 \in 1 .. Len(w)
    BY <1>1
  <2>2. QED BY <1>1, <2>1 DEF SaysYes
<1>7. QED BY <1>2, <1>3, <1>4, <1>5, <1>6

\* A report leaves the answers as they are; an answer is one more.
LEMMA AnswersAppend ==
    ASSUME NEW w \in Seq(Item), NEW x \in Item
    PROVE  /\ OnlyReports(w) => OneLast(Append(w, x)) /\ (x.is = "svin" => OnlyReports(Append(w, x)))
           /\ OneLast(w) /\ x.is = "svin" => OneLast(Append(w, x))
           /\ SaysYes(Append(w, x)) => SaysYes(w) \/ (x.is = "answer" /\ x.ok)
<1>1. /\ Len(w) \in Nat /\ Len(Append(w, x)) = Len(w) + 1
      /\ \A i \in 1 .. Len(w) : Append(w, x)[i] = w[i]
      /\ Append(w, x)[Len(w) + 1] = x
  BY Elements
<1>2. \A i \in 1 .. Len(Append(w, x)) : i \in 1 .. Len(w) \/ i = Len(w) + 1
  BY <1>1
<1>3. OnlyReports(w) /\ x.is = "svin" => OnlyReports(Append(w, x))
  BY <1>1, <1>2 DEF OnlyReports
<1>4. ASSUME NEW i \in 1 .. Len(Append(w, x)), NEW j \in 1 .. Len(Append(w, x)),
             Append(w, x)[i].is = "answer", j > i
      PROVE  /\ OnlyReports(w) => FALSE
             /\ OneLast(w) /\ x.is = "svin" => Append(w, x)[j].is = "svin"
  <2>1. i \in 1 .. Len(w)
    BY <1>1, <1>4
  <2>2. w[i].is = "answer"
    BY <1>1, <1>4, <2>1
  <2>3. QED BY <1>1, <1>2, <1>4, <2>1, <2>2 DEF OnlyReports, OneLast
<1>5. SaysYes(Append(w, x)) => SaysYes(w) \/ (x.is = "answer" /\ x.ok)
  BY <1>1, <1>2 DEF SaysYes
<1>6. QED BY <1>3, <1>4, <1>5 DEF OneLast

\* Without an answer on the wire nobody said yes.
LEMMA OnlyReportsSayNothing == \A w : OnlyReports(w) => OneLast(w) /\ ~SaysYes(w)
BY DEF OnlyReports, OneLast, SaysYes

\* From the end of the loop on, what the reader files is the same result again.
LEMMA StatusKept ==
    ASSUME TypeInv, Told, Agree, Settled, Quiet, pc \in {"apply", "read"}, [Next]_vars, ~Crash
    PROVE  status'.at = status.at /\ (half'.is = "svin" => half'.survey = survey)
<1>1. /\ status.at.final /\ status.at.survey = survey
      /\ half.is = "svin" => half.survey = survey
  BY DEF Settled
<1>2. /\ status \in [valid : BOOLEAN, obs : 0 .. ObsMax, at : Place]
      /\ half \in RealReport \union {NoReport} /\ wire \in Seq(Item)
  BY DEF TypeInv, PlacesOK, WireOK
<1>3. status.at \in Position /\ status.at # NoPosition /\ survey \in Nat /\ survey > 0
  <2>1. status.at \in Position /\ status.at # NoPosition
    BY <1>1, <1>2 DEF Place, NoPosition
  <2>2. QED BY <1>1, <2>1, MaxSurveysAssumption DEF Position
<1>4. Backed(status.at, half) /\ Upheld(status.at, 0, wire, Reported) /\ WireUpheld(wire, Reported)
  BY <1>1 DEF Agree
<1>5. ASSUME NEW r \in RealReport, Backed(status.at, r), r.survey <= survey, r.survey # 0
      PROVE  r.survey = survey /\ PositionOf(r) = status.at
  <2>1. r.is = "svin" /\ r.survey \in Nat
    BY <1>5, ReportFacts
  <2>2. PositionOf(r) = status.at
    BY <1>1, <1>3, <1>5, <2>1 DEF Backed
  <2>3. QED BY <1>1, <1>5, <2>2, ReportFacts
<1>6. CASE FileReport
  <2>1. /\ Head(wire) \in RealReport /\ wire # <<>> /\ Head(wire) = wire[1]
        /\ Len(wire) \in Nat /\ Len(wire) > 0
    BY <1>2, <1>6, FirstReport, Elements
  <2>2. Backed(status.at, Head(wire))
    BY <1>2, <1>4, <2>1, UpheldTail
  <2>3. Head(wire).survey <= survey
    BY <2>1, ReportFacts DEF Told
  <2>4. CASE Ignored(Head(wire))
    BY <1>1, <1>6, <2>4 DEF FileReport, reader
  <2>5. CASE ~Ignored(Head(wire))
    <3>1. Head(wire).survey # 0
      BY <1>3, <2>1, <2>5, ReportFacts DEF Ignored
    <3>2. Head(wire).survey = survey
      BY <1>5, <2>1, <2>2, <2>3, <3>1
    <3>3. status' = [status EXCEPT !.valid = Head(wire).valid, !.obs = Head(wire).obs]
          /\ half' = Head(wire)
      BY <1>6, <2>5 DEF FileReport
    <3>4. QED BY <1>2, <3>2, <3>3
  <2>6. QED BY <2>4, <2>5
<1>7. CASE FilePosition
  <2>1. /\ half \in RealReport /\ half' = NoReport
        /\ status' = [status EXCEPT !.at = PositionOf(half)]
    BY <1>2, <1>7 DEF FilePosition
  <2>2. half.survey = survey
    BY <1>1, <2>1, ReportFacts
  <2>3. PositionOf(half) = status.at
    BY <1>3, <1>4, <1>5, <2>1, <2>2
  <2>4. QED BY <1>2, <2>1, <2>3 DEF NoReport
<1>8. CASE half' = half /\ status'.at = status.at
  BY <1>1, <1>8
<1>9. QED BY <1>6, <1>7, <1>8, Handling

\* The commands and answers of a run that nobody aborts are those of its calls.
LEMMA AttendedStep ==
    ASSUME TypeInv, Waiting, Told, Agree, Attended, Counted, Settled, [Next]_vars
    PROVE  Attended'
<1> SUFFICES ASSUME Quiet', pc' # "idle" PROVE Alone'
    BY DEF Attended
<1>1. wire \in Seq(Item) /\ out \in Seq(Commands)
  BY DEF TypeInv, WireOK, OutOK
<1>2. ~Crash
  BY DEF Crash
<1>3. CASE RunBegins
  <2>1. ~asked /\ result = "none"
    BY <1>3 DEF RunBegins, Waiting, Calls
  <2>2. out = <<>> /\ \A i \in DOMAIN wire : wire[i].is = "svin"
    BY <1>3 DEF RunBegins, Quiet
  <2>3. OnlyReports(wire)
    BY <1>1, <2>2 DEF OnlyReports
  <2>4. wire' = wire /\ out' = <<>> /\ result' = "none"
    BY <1>3, <2>1, <2>2 DEF RunBegins, link
  <2>5. QED BY <2>3, <2>4, OnlyReportsSayNothing DEF Alone
<1>4. CASE ~RunBegins
  <2>1. Quiet /\ mark' = mark /\ pc # "idle" /\ ~Abort
    BY <1>2, <1>4, QuietStep, FirstSteps
  <2>2. Alone
    BY <2>1 DEF Attended
  <2>3. ASSUME UNCHANGED <<pc, survey>>, pc = "apply" => status'.at = status.at, NEW c, Meant(c)
        PROVE  (pc' = "apply" => c = [do |-> "fix", at |-> status'.at])
               /\ (c.do = "start" => pc' = "start" /\ survey' = mark')
    BY <2>1, <2>3 DEF Meant
  <2>4. ASSUME UNCHANGED <<pc, survey, out, asked, result>>,
               OnlyReports(wire) => OnlyReports(wire'), OneLast(wire')
        PROVE  Alone'
    <3>1. pc = "apply" => status'.at = status.at
      BY <1>2, <2>1, StatusKept
    <3>2. out # <<>> => Meant(out[1])'
      BY <2>1, <2>2, <2>4, <3>1 DEF Alone, Meant
    <3>3. QED BY <2>2, <2>4, <3>2 DEF Alone
  <2>5. CASE Call
    <3>1. /\ ~asked /\ out = <<>> /\ OnlyReports(wire) /\ result = "none"
          /\ wire' = wire /\ result' = result /\ pc' = pc /\ status' = status /\ survey' = survey
          /\ asked'
      BY <2>2, <2>5 DEF Call, Alone, Waiting, reader, receiver
    <3>2. PICK c : c = CommandOf(pc, IF pc = "apply" THEN status.at ELSE held) /\ out' = <<c>>
      <4>1. out' = Append(<<>>, CommandOf(pc, IF pc = "apply" THEN status.at ELSE held))
        BY <2>5, <3>1 DEF Call
      <4>2. QED BY <4>1
    <3>3. Meant(c)
      <4>1. pc # "restart" /\ (pc = "start" => survey = mark)
        BY <2>1, <3>1 DEF Counted
      <4>2. CASE pc = "start"
        BY <4>1, <4>2 DEF Meant
      <4>3. CASE pc # "start"
        <5>1. CASE pc \in {"stop", "restop"}
          <6>1. c = [do |-> "stop"]
            BY <3>2, <5>1 DEF CommandOf
          <6>2. c.do # "start"
            BY <6>1
          <6>3. QED BY <5>1, <6>2 DEF Meant
        <5>2. CASE pc \notin {"stop", "restop"}
          <6>1. c = [do |-> "fix", at |-> IF pc = "apply" THEN status.at ELSE held]
            BY <3>2, <4>1, <4>3, <5>2 DEF CommandOf
          <6>2. c.do # "start"
            BY <6>1
          <6>3. QED BY <6>1, <6>2 DEF Meant
        <5>3. QED BY <5>1, <5>2
      <4>4. QED BY <4>2, <4>3
    <3>4. Len(out') = 1 /\ Meant(out[1])'
      <4>1. Len(out') = 1 /\ out'[1] = c
        BY <3>2
      <4>2. QED BY <2>1, <3>1, <3>3, <4>1 DEF Meant
    <3>5. OneLast(wire')
      BY <3>1, OnlyReportsSayNothing
    <3>6. QED BY <3>1, <3>4, <3>5 DEF Alone
  <2>6. CASE Answered \/ GivesUp
    <3>1. ~asked' /\ result' = "none" /\ out' = out /\ wire' = wire
      BY <2>6 DEF Answered, GivesUp, Proceed, link
    <3>2. out = <<>> /\ OnlyReports(wire)
      <4>1. CASE Answered
        BY <2>2, <4>1 DEF Answered, Alone
      <4>2. CASE GivesUp
        BY <4>2 DEF GivesUp, OnlyReports
      <4>3. QED BY <2>6, <4>1, <4>2
    <3>3. QED BY <3>1, <3>2, OnlyReportsSayNothing DEF Alone
  <2>7. CASE FileReport
    <3>1. /\ wire # <<>> /\ wire' = Tail(wire)
          /\ UNCHANGED <<pc, survey, out, asked, result>>
      BY <2>7 DEF FileReport, run, receiver
    <3>2. QED BY <1>1, <2>2, <2>4, <3>1, AnswersTail DEF Alone
  <2>8. CASE FileAnswer
    <3>1. /\ wire # <<>> /\ wire' = Tail(wire) /\ Head(wire).is = "answer"
          /\ out' = out /\ asked' = asked
      BY <2>8 DEF FileAnswer
    <3>2. ~OnlyReports(wire) /\ OnlyReports(wire')
      BY <1>1, <2>2, <3>1, AnswersTail DEF Alone
    <3>3. out = <<>> /\ asked
      BY <2>2, <3>2 DEF Alone
    <3>4. QED BY <3>1, <3>2, <3>3, OnlyReportsSayNothing DEF Alone
  <2>9. CASE ReportSvin
    <3>1. /\ wire' = Append(wire, Reported)
          /\ UNCHANGED <<pc, survey, out, asked, result>>
      BY <2>9 DEF ReportSvin, Reported, run, receiver
    <3>2. Reported \in Item /\ Reported.is = "svin"
      BY ReportedTyped
    <3>3. QED BY <1>1, <2>2, <2>4, <3>1, <3>2, AnswersAppend DEF Alone
  <2>10. CASE Obey
    <3>1. /\ out # <<>> /\ Len(out) = 1 /\ OnlyReports(wire) /\ result = "none" /\ asked
          /\ out' = Tail(out) /\ UNCHANGED <<result, asked>>
      BY <2>2, <2>10 DEF Obey, Alone, run
    <3>2. out' = <<>>
      BY <1>1, <3>1, TakeFirst, EmptySeq
    <3>3. PICK done \in BOOLEAN :
            wire' = wire \/ wire' = Append(wire, [is |-> "answer", ok |-> done])
      BY <2>10 DEF Obey
    <3>4. [is |-> "answer", ok |-> done] \in Item
      BY DEF Item, Answer
    <3>5. OneLast(wire')
      BY <1>1, <3>1, <3>3, <3>4, AnswersAppend, OnlyReportsSayNothing
    <3>6. QED BY <3>1, <3>2, <3>5 DEF Alone
  <2>11. CASE FilePosition \/ Observe \/ DeletePosition \/ UNCHANGED vars
    <3>1. UNCHANGED <<pc, survey, out, asked, result, wire>>
      BY <2>11 DEF FilePosition, Observe, DeletePosition, run, link, receiver, vars
    <3>2. QED BY <2>2, <2>4, <3>1 DEF Alone
  <2>12. CASE Clear \/ Load \/ Poll \/ Judge \/ Test \/ ReadAgain \/ Open \/ Write \/ RunEnds \/ Expire
    <3>1. pc \notin Calls /\ UNCHANGED <<out, asked, result, wire>>
      BY <2>12 DEF Clear, Load, Poll, Judge, Judged, Test, ReadAgain, Open, Write, RunEnds, Expire,
         Calls, link
    <3>2. ~asked /\ out = <<>> /\ OnlyReports(wire)
      BY <2>2, <3>1 DEF Waiting, Alone
    <3>3. result = "none"
      BY <3>2 DEF Waiting
    <3>4. QED BY <3>1, <3>2, <3>3, OnlyReportsSayNothing DEF Alone
  <2>13. QED BY <1>2, <1>4, <2>1, <2>5, <2>6, <2>7, <2>8, <2>9, <2>10, <2>11, <2>12
             DEF Next, RunStep, ReaderStep
<1>5. QED BY <1>3, <1>4

\* What a step does to the receiver's count of surveys and to where it was fixed.
LEMMA ReceiverChange ==
    ASSUME TypeInv, [Next]_vars
    PROVE  /\ fixedAt \subseteq fixedAt'
           /\ \/ survey' = survey
              \/ Obey /\ Head(out).do = "start" /\ survey' = survey + 1
<1>1. CASE Obey
  <2>1. ASSUME NEW c, CarryOut(c)
        PROVE  /\ fixedAt \subseteq fixedAt'
               /\ survey' = survey \/ (c.do = "start" /\ survey' = survey + 1)
    <3>1. CASE c.do = "stop"
      BY <2>1, <3>1 DEF CarryOut
    <3>2. CASE c.do = "start"
      BY <2>1, <3>2 DEF CarryOut
    <3>3. CASE c.do \notin {"stop", "start"}
      BY <2>1, <3>3 DEF CarryOut
    <3>4. QED BY <3>1, <3>2, <3>3
  <2>2. CarryOut(Head(out)) \/ UNCHANGED receiver
    BY <1>1 DEF Obey
  <2>3. UNCHANGED receiver => fixedAt' = fixedAt /\ survey' = survey
    BY DEF receiver
  <2>4. QED BY <1>1, <2>1, <2>2, <2>3
<1>2. CASE Observe
  BY <1>2 DEF Observe
<1>3. CASE RunBegins \/ RunStep \/ Expire \/ ReaderStep \/ ReportSvin \/ Abort
           \/ DeletePosition \/ Crash \/ UNCHANGED vars
  <2>1. UNCHANGED receiver
    BY <1>3 DEF RunBegins, RunStep, Expire, ReaderStep, ReportSvin, Abort, DeletePosition, Crash,
       vars, Call, Answered, GivesUp, Proceed, Clear, Load, Poll, Judge, Judged, Test, ReadAgain,
       Open, Write, RunEnds, FileReport, FilePosition, FileAnswer
  <2>2. QED BY <2>1 DEF receiver
<1>4. QED BY <1>1, <1>2, <1>3 DEF Next

\* The command the receiver obeys is the one the run has come to.
LEMMA ObeyedIsMeant ==
    ASSUME TypeInv, Attended, Quiet, pc # "idle", Obey
    PROVE  Meant(Head(out)) /\ asked /\ OnlyReports(wire)
<1>1. Alone /\ out # <<>>
  BY DEF Attended, Obey
<1>2. out \in Seq(Commands) /\ Head(out) = out[1]
  BY <1>1, HeadTailProperties DEF TypeInv, OutOK
<1>3. QED BY <1>1, <1>2 DEF Alone

\* A run without trouble begins one survey at most, after any step.
LEMMA CountedStep ==
    ASSUME TypeInv, Waiting, Attended, Counted, [Next]_vars
    PROVE  Counted'
<1> SUFFICES ASSUME Quiet', pc' # "idle"
             PROVE  /\ pc' # "restart" /\ survey' <= mark' + 1
                    /\ pc' \in {"stop", "clear", "load", "fixSaved"} \/ (pc' = "start" /\ ~asked')
                         => survey' = mark'
    BY DEF Counted
<1>1. survey \in Nat /\ mark \in Nat
  BY MaxSurveysAssumption DEF TypeInv, ReceiverOK, HistoryOK
<1>2. ~Crash
  BY DEF Crash
<1>3. CASE RunBegins
  <2>1. pc' = "stop" /\ mark' = survey /\ survey' = survey
    BY <1>3 DEF RunBegins, receiver
  <2>2. QED BY <1>1, <2>1
<1>4. CASE ~RunBegins
  <2>1. Quiet /\ mark' = mark /\ pc # "idle"
    BY <1>2, <1>4, QuietStep, FirstSteps
  <2>2. /\ pc # "restart" /\ survey <= mark + 1
        /\ pc \in {"stop", "clear", "load", "fixSaved"} \/ (pc = "start" /\ ~asked) => survey = mark
    BY <2>1 DEF Counted
  <2>3. pc' # "restart"
    <3>1. ASSUME pc = "restop", NEW ok \in BOOLEAN, Proceed(ok) PROVE FALSE
      <4>1. Note({"restart"})
        BY <3>1 DEF Proceed
      <4>2. "restart" \in trouble'
        BY <2>1, <4>1 DEF Note, Quiet
      <4>3. QED BY <4>2 DEF Quiet
    <3>2. ASSUME pc = "restop", Answered \/ GivesUp PROVE FALSE
      BY <3>1, <3>2 DEF Answered, GivesUp
    <3>3. QED BY <1>2, <1>4, <2>2, <3>2, NextSteps
  <2>4. CASE survey' = survey
    <3>1. pc' = "stop" => pc = "stop"
      BY <1>4, FirstSteps
    <3>2. QED BY <1>2, <1>4, <2>1, <2>2, <2>3, <2>4, <3>1, NextSteps
  <2>5. CASE Obey /\ Head(out).do = "start" /\ survey' = survey + 1
    <3>1. pc = "start" /\ survey = mark /\ asked
      BY <2>1, <2>5, ObeyedIsMeant DEF Meant
    <3>2. pc' = pc /\ asked' = asked
      BY <2>5 DEF Obey, run
    <3>3. QED BY <1>1, <2>1, <2>5, <3>1, <3>2
  <2>6. QED BY <2>4, <2>5, ReceiverChange
<1>5. QED BY <1>3, <1>4

\* From the end of the poll loop on the three reads of the status agree,
\* whatever is reported meanwhile.
LEMMA SettledStep ==
    ASSUME TypeInv, Waiting, Told, Agree, Cleared, Attended, Counted, Settled, [Next]_vars
    PROVE  Settled'
<1> SUFFICES ASSUME Quiet', pc' \in {"apply", "read"}
             PROVE  /\ status'.at.final /\ status'.at.survey = survey'
                    /\ half'.is = "svin" => half'.survey = survey'
    BY DEF Settled
<1>1. ~RunBegins /\ ~Crash
  BY DEF RunBegins, Crash
<1>2. Quiet /\ pc # "idle" /\ mark' = mark
  BY <1>1, QuietStep, FirstSteps
<1>3. CASE Test
  <2>1. pc = "test" /\ pc' = "apply" /\ status.valid /\ Note(Mid)
    BY <1>3 DEF Test
  <2>2. half = NoReport
    <3>1. "torn read" \notin Mid
      BY <1>2, <2>1 DEF Note, Quiet
    <3>2. QED BY <3>1 DEF Mid
  <2>3. status.at.final /\ status.at.survey > mark
    <3>1. Clean
      BY <1>2 DEF Quiet, Clean
    <3>2. QED BY <2>1, <2>2, <3>1 DEF Cleared, StatusFresh
  <2>4. status.at.survey = survey
    <3>1. PICK s \in Nat, m \in Nat, q \in Nat : s = survey /\ m = mark /\ q = status.at.survey
      BY MaxSurveysAssumption
         DEF TypeInv, ReceiverOK, HistoryOK, PlacesOK, Place, Position, NoPosition
    <3>2. q > m /\ q <= s /\ s <= m + 1
      BY <1>2, <2>1, <2>3, <3>1 DEF Told, Counted
    <3>3. QED BY <3>1, <3>2
  <2>5. UNCHANGED <<status, half, survey>>
    BY <1>3 DEF Test, reader, receiver
  <2>6. QED BY <2>2, <2>3, <2>4, <2>5 DEF NoReport
<1>4. CASE ~Test
  <2>1. pc \in {"apply", "read"}
    BY <1>1, <1>4, FirstSteps, NextSteps
  <2>2. status'.at = status.at /\ (half'.is = "svin" => half'.survey = survey)
    BY <1>1, <1>2, <2>1, StatusKept
  <2>3. survey' = survey
    <3>1. ~(Obey /\ Head(out).do = "start")
      BY <1>2, <2>1, ObeyedIsMeant DEF Meant
    <3>2. QED BY <3>1, ReceiverChange
  <2>4. QED BY <1>2, <2>1, <2>2, <2>3 DEF Settled
<1>5. QED BY <1>3, <1>4

\* An answer that says yes comes from a receiver fixed at the position.
LEMMA FixedThereStep ==
    ASSUME TypeInv, Waiting, Told, Agree, Attended, Settled, FixedThere, [Next]_vars
    PROVE  FixedThere'
<1> SUFFICES ASSUME Quiet'
             PROVE  /\ pc' = "apply" /\ Accepted' => status'.at \in fixedAt'
                    /\ pc' = "read" => status'.at \in fixedAt'
                    /\ pc' \in {"open", "write"} => held'.final /\ held' \in fixedAt'
    BY DEF FixedThere
<1>1. CASE RunBegins \/ Crash
  BY <1>1 DEF RunBegins, Crash
<1>2. CASE ~RunBegins /\ ~Crash
  <2>1. Quiet
    BY <1>2, QuietStep
  <2>2. fixedAt \subseteq fixedAt'
    BY ReceiverChange
  <2>3. ASSUME pc' = "apply", Accepted' PROVE status'.at \in fixedAt'
    <3>1. CASE Test
      <4>1. pc = "test" /\ wire' = wire /\ result' = result
        BY <3>1 DEF Test, link
      <4>2. ~asked /\ result = "none"
        BY <4>1 DEF Waiting, Calls
      <4>3. OnlyReports(wire)
        BY <2>1, <4>1, <4>2 DEF Attended, Alone
      <4>4. QED BY <2>3, <4>1, <4>2, <4>3, OnlyReportsSayNothing DEF Accepted
    <3>2. CASE ~Test
      <4>1. pc = "apply"
        BY <2>3, <3>2, FirstSteps
      <4>2. status'.at = status.at
        BY <1>2, <2>1, <4>1, StatusKept
      <4>3. CASE Accepted
        BY <2>1, <2>2, <4>1, <4>2, <4>3 DEF FixedThere
      <4>4. CASE ~Accepted
        <5>1. Obey /\ Accepted' => status.at \in fixedAt'
          <6> SUFFICES ASSUME Obey PROVE Accepted' => status.at \in fixedAt'
              OBVIOUS
          <6>1. Head(out) = [do |-> "fix", at |-> status.at] /\ OnlyReports(wire)
            BY <2>1, <4>1, ObeyedIsMeant DEF Meant
          <6>2. result' = result
            BY DEF Obey, run
          <6>3. PICK done \in BOOLEAN :
                  /\ done => CarryOut(Head(out))
                  /\ wire' = wire \/ wire' = Append(wire, [is |-> "answer", ok |-> done])
            BY DEF Obey
          <6>4. Accepted' => done
            <7>1. wire \in Seq(Item) /\ [is |-> "answer", ok |-> done] \in Item
              BY DEF TypeInv, WireOK, Item, Answer
            <7>2. SaysYes(wire') => SaysYes(wire) \/ done
              BY <6>3, <7>1, AnswersAppend
            <7>3. QED BY <4>4, <6>2, <7>2 DEF Accepted
          <6>5. CarryOut(Head(out)) => status.at \in fixedAt'
            <7>1. status.at.final
              BY <2>1, <4>1 DEF Settled
            <7>2. Head(out).do = "fix" /\ Head(out).at = status.at
              BY <6>1
            <7>3. QED BY <7>1, <7>2 DEF CarryOut
          <6>6. QED BY <6>3, <6>4, <6>5
        <5>2. ~Obey => ~Accepted'
          <6> SUFFICES ASSUME ~Obey PROVE ~Accepted'
              OBVIOUS
          <6>1. wire \in Seq(Item)
            BY DEF TypeInv, WireOK
          <6>2. CASE FileAnswer
            <7>1. /\ wire # <<>> /\ wire' = Tail(wire) /\ Head(wire).is = "answer"
                  /\ result' = "ack" => result = "ack" \/ Head(wire).ok
              BY <6>2 DEF FileAnswer
            <7>2. QED BY <4>4, <6>1, <7>1, AnswersTail DEF Accepted
          <6>3. CASE FileReport
            <7>1. wire # <<>> /\ wire' = Tail(wire) /\ result' = result
              BY <6>3 DEF FileReport, run
            <7>2. QED BY <4>4, <6>1, <7>1, AnswersTail DEF Accepted
          <6>4. CASE ReportSvin
            <7>1. wire' = Append(wire, Reported) /\ result' = result
              BY <6>4 DEF ReportSvin, Reported, run
            <7>2. QED BY <4>4, <6>1, <7>1, ReportedTyped, AnswersAppend DEF Accepted
          <6>5. CASE Answered \/ GivesUp
            <7>1. ASSUME NEW ok \in BOOLEAN, Proceed(ok) PROVE FALSE
              BY <2>3, <4>1, <7>1 DEF Proceed
            <7>2. QED BY <6>5, <7>1 DEF Answered, GivesUp
          <6>6. CASE Call \/ Clear \/ Load \/ Poll \/ Judge \/ Test \/ ReadAgain \/ Open \/ Write
                     \/ RunEnds \/ Expire \/ FilePosition \/ Observe \/ Abort \/ DeletePosition
                     \/ UNCHANGED vars
            <7>1. wire' = wire /\ result' = result
              BY <6>6 DEF Call, Clear, Load, Poll, Judge, Judged, Test, ReadAgain, Open, Write,
                 RunEnds, Expire, FilePosition, Observe, Abort, DeletePosition, run, link, vars
            <7>2. QED BY <4>4, <7>1 DEF Accepted
          <6>7. QED BY <1>2, <6>2, <6>3, <6>4, <6>5, <6>6 DEF Next, RunStep, ReaderStep
        <5>3. QED BY <2>3, <4>2, <5>1, <5>2
      <4>5. QED BY <4>3, <4>4
    <3>3. QED BY <3>1, <3>2
  <2>4. ASSUME pc' = "read" PROVE status'.at \in fixedAt'
    <3>1. pc = "read" \/ (pc = "apply" /\ Answered /\ result = "ack")
      BY <1>2, <2>4, NextSteps
    <3>2. status.at \in fixedAt
      BY <2>1, <3>1 DEF FixedThere, Accepted
    <3>3. status'.at = status.at
      BY <1>2, <2>1, <3>1, StatusKept
    <3>4. QED BY <2>2, <3>2, <3>3
  <2>5. ASSUME pc' \in {"open", "write"} PROVE held'.final /\ held' \in fixedAt'
    <3>1. CASE ReadAgain
      <4>1. pc = "read" /\ held' = status.at
        BY <3>1 DEF ReadAgain
      <4>2. status.at.final /\ status.at \in fixedAt
        BY <2>1, <4>1 DEF Settled, FixedThere
      <4>3. QED BY <2>2, <4>1, <4>2
    <3>2. CASE ~ReadAgain
      <4>1. pc \in {"open", "write"}
        <5>1. Open => pc = "open"
          BY DEF Open
        <5>2. QED BY <1>2, <2>5, <3>2, <5>1, NextSteps
      <4>2. held' = held
        <5>1. CASE Answered \/ GivesUp \/ Open
          BY <5>1 DEF Answered, GivesUp, Proceed, Open
        <5>2. CASE ReaderStep \/ Observe \/ ReportSvin \/ Obey \/ Abort \/ DeletePosition
                   \/ UNCHANGED vars
          BY <5>2 DEF ReaderStep, FileReport, FilePosition, FileAnswer, Observe, ReportSvin, Obey,
             Abort, DeletePosition, run, vars
        <5>3. ~(Call \/ Clear \/ Load \/ Poll \/ Judge \/ Test \/ RunEnds \/ Expire \/ Write)
          BY <2>5, <4>1 DEF Call, Calls, Clear, Load, Poll, Judge, Judged, Test, RunEnds, Expire,
             Write
        <5>4. QED BY <1>2, <3>2, <5>1, <5>2, <5>3 DEF Next, RunStep
      <4>3. QED BY <2>1, <2>2, <4>1, <4>2 DEF FixedThere
    <3>3. QED BY <3>1, <3>2
  <2>6. QED BY <2>3, <2>4, <2>5
<1>3. QED BY <1>1, <1>2

\* The file gets what the run has in its hands, or stays as it is.
LEMMA SavedStep ==
    ASSUME TypeInv, FixedThere, SavedIsFixed, [Next]_vars
    PROVE  SavedIsFixed'
<1> SUFFICES ASSUME trusted', file' = "whole" PROVE saved'.final /\ saved' \in fixedAt'
    BY DEF SavedIsFixed
<1>1. fixedAt \subseteq fixedAt'
  BY ReceiverChange
<1>2. CASE UNCHANGED <<file, saved, trusted>>
  BY <1>1, <1>2 DEF SavedIsFixed
<1>3. CASE Write /\ file' = "whole" /\ saved' = held /\ trusted' = (trouble = {})
  <2>1. pc = "write" /\ Quiet
    BY <1>3 DEF Write, Quiet
  <2>2. QED BY <1>1, <1>3, <2>1 DEF FixedThere
<1>4. CASE Write
  BY <1>2, <1>3, <1>4 DEF Write
<1>5. CASE Open
  BY <1>2, <1>5 DEF Open, disk
<1>6. CASE DeletePosition
  BY <1>6 DEF DeletePosition
<1>7. CASE Call \/ Answered \/ GivesUp \/ Clear \/ Load \/ Poll \/ Judge \/ Test \/ ReadAgain
           \/ RunEnds \/ RunBegins \/ Expire \/ ReaderStep
  BY <1>2, <1>7 DEF Call, Answered, GivesUp, Proceed, Clear, Load, Poll, Judge, Judged, Test,
     ReadAgain, RunEnds, RunBegins, Expire, ReaderStep, FileReport, FilePosition, FileAnswer,
     disk, history
<1>8. CASE Observe \/ ReportSvin \/ Obey \/ Abort \/ Crash \/ UNCHANGED vars
  BY <1>2, <1>8 DEF Observe, ReportSvin, Obey, Abort, Crash, disk, history, vars
<1>9. QED BY <1>4, <1>5, <1>6, <1>7, <1>8 DEF Next, RunStep

SavedInv ==
    FreshInv /\ Told /\ Agree /\ Attended /\ Counted /\ Settled /\ FixedThere /\ SavedIsFixed

\* What is known of the saved position holds at first ...
LEMMA SavedInvInit == Init => SavedInv
<1> SUFFICES ASSUME Init PROVE SavedInv
    OBVIOUS
<1>1. pc = "idle" /\ wire = <<>> /\ half = NoReport /\ status.at = NoPosition /\ survey = 0
      /\ file = "absent"
  BY DEF Init
<1>2. NoReport.is = "none" /\ ~NoPosition.final /\ NoPosition.survey = 0
  BY DEF NoReport, NoPosition
<1>3. Told /\ Agree
  BY <1>1, <1>2 DEF Told, Agree, WireUpheld
<1>4. Attended /\ Counted /\ Settled /\ FixedThere /\ SavedIsFixed
  BY <1>1 DEF Attended, Counted, Settled, FixedThere, SavedIsFixed
<1>5. QED BY <1>3, <1>4, FreshInvInit DEF SavedInv

\* ... and after every step.
LEMMA SavedInvStep == SavedInv /\ [Next]_vars => SavedInv'
BY FreshInvStep, ToldStep, AgreeStep, AttendedStep, CountedStep, SettledStep, FixedThereStep,
   SavedStep DEF SavedInv, FreshInv

\* A position file that a run without trouble has left can only hold the complete
\* result of a survey the receiver was fixed at, for every number and length of
\* surveys and of the queues: whatever is reported after the loop has ended,
\* whoever deletes the file, and whenever the service dies.
THEOREM SavedIsFixedAlways == Spec => []SavedIsFixed
<1>1. SavedInv => SavedIsFixed
  BY DEF SavedInv
<1>2. QED BY <1>1, SavedInvInit, SavedInvStep, PTL DEF Spec

=============================================================================
