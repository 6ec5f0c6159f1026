-------------------------- MODULE BaseRoutesProofs --------------------------
(***************************************************************************)
(* Theorems about BaseRoutes, for every set of positions, length of the    *)
(* queue, set of orchestrator states and number of calls.                  *)
(***************************************************************************)
EXTENDS BaseRoutes, SequenceTheorems, TLAPS

Step == [cmd : Command, required : BOOLEAN]

-----------------------------------------------------------------------------
(* Type correctness                                                        *)

\* Every command the routes and the runs send is one.
LEMMA CommandsTyped ==
    /\ {RtcmOff, RtcmOn, TmodeOff, Survey, HotStart} \subseteq Command
    /\ \A p \in Positions, keep \in BOOLEAN : Fixed(p, keep) \in Command
BY DEF Command, FixedAny

\* Taking the first of a sequence.
LEMMA TakeFirst ==
    ASSUME NEW S, NEW s \in Seq(S), s # <<>>
    PROVE  Head(s) \in S /\ Tail(s) \in Seq(S) /\ Len(Tail(s)) = Len(s) - 1
BY HeadTailProperties

\* send_command keeps the queue within its limit.
LEMMA PushTyped ==
    ASSUME NEW l \in Seq(Command), Len(l) <= LineMax, NEW c \in Command
    PROVE  Push(l, c) \in Seq(Command) /\ Len(Push(l, c)) <= LineMax
<1>1. CASE Len(l) < LineMax
  <2>1. Append(l, c) \in Seq(Command) /\ Len(Append(l, c)) = Len(l) + 1
    BY AppendProperties
  <2>2. QED BY <1>1, <2>1, LineMaxAssumption DEF Push
<1>2. CASE ~(Len(l) < LineMax)
  BY <1>2 DEF Push
<1>3. QED BY <1>1, <1>2

\* A route of three steps is a sequence of steps.
LEMMA ThreeOf ==
    ASSUME NEW S, NEW a \in S, NEW b \in S, NEW c \in S
    PROVE  <<a, b, c>> \in Seq(S) /\ Len(<<a, b, c>>) = 3
OBVIOUS

\* Each route that waits for answers has something to send.
LEMMA ProgramsTyped ==
    /\ \A p \in Positions, rtcmWanted \in BOOLEAN :
         FixedProgram(p, rtcmWanted) \in Seq(Step) /\ FixedProgram(p, rtcmWanted) # <<>>
    /\ SurveyProgram \in Seq(Step) /\ SurveyProgram # <<>>
    /\ StopProgram \in Seq(Step) /\ StopProgram # <<>>
<1>1. \A c \in Command : Required(c) \in Step /\ Optional(c) \in Step
  BY DEF Required, Optional, Step
<1>2. ASSUME NEW p \in Positions, NEW rtcmWanted \in BOOLEAN
      PROVE  /\ FixedProgram(p, rtcmWanted) \in Seq(Step)
             /\ FixedProgram(p, rtcmWanted) # <<>>
  <2> DEFINE first == <<Optional(RtcmOff), Required(TmodeOff), Required(Fixed(p, TRUE))>>
             then  == IF rtcmWanted THEN <<Required(RtcmOn)>> ELSE <<>>
  <2>1. first \in Seq(Step) /\ Len(first) = 3
    <3>1. Optional(RtcmOff) \in Step /\ Required(TmodeOff) \in Step
          /\ Required(Fixed(p, TRUE)) \in Step
      BY <1>1, CommandsTyped
    <3>2. QED BY <3>1, ThreeOf
  <2>2. then \in Seq(Step) /\ Len(then) \in Nat
    BY <1>1, CommandsTyped
  <2>3. first \o then \in Seq(Step) /\ Len(first \o then) = 3 + Len(then)
    BY <2>1, <2>2, ConcatProperties
  <2>4. Len(first \o then) # 0
    BY <2>2, <2>3
  <2>5. QED BY <2>3, <2>4, EmptySeq DEF FixedProgram
<1>3. SurveyProgram \in Seq(Step) /\ SurveyProgram # <<>>
  BY <1>1, CommandsTyped DEF SurveyProgram
<1>4. StopProgram \in Seq(Step) /\ StopProgram # <<>>
  BY <1>1, CommandsTyped DEF StopProgram
<1>5. QED BY <1>2, <1>3, <1>4

\* The outbound queue: send_command, the line, the orchestrator.
LEMMA LineStep == LineOK /\ TypeOK /\ (step \in {"begin", "rest", "await"} => todo # <<>>)
                  /\ [Next]_vars => LineOK'
<1> SUFFICES ASSUME LineOK, TypeOK, [Next]_vars,
                    step \in {"begin", "rest", "await"} => todo # <<>>
             PROVE  LineOK'
    OBVIOUS
<1> USE DEF LineOK
<1> DEFINE Fits(l) == l \in Seq(Command) /\ Len(l) <= LineMax
<1>1. \A l, c : Fits(l) /\ c \in Command => Fits(Push(l, c))
  BY PushTyped
<1>2. \A l : l \in {line, Push(Push(line, RtcmOff), TmodeOff)} => Fits(l)
  BY <1>1, CommandsTyped
<1> HIDE DEF Fits
<1>3. CASE UNCHANGED line
  BY <1>3
<1>4. CASE Serve
  <2>1. line' \in Seq(Command) /\ Len(line') = Len(line) - 1 /\ Len(line) \in Nat
    BY <1>4, TakeFirst, LenProperties DEF Serve
  <2>2. QED BY <2>1, LineMaxAssumption
<1>5. CASE RunCommand
  <2>1. \E c \in Command : line' = <<c>>
    BY <1>5, CommandsTyped DEF RunCommand
  <2>2. QED BY <2>1, LineMaxAssumption
<1>6. CASE Issue
  <2>1. Head(todo).cmd \in Command
    <3>1. todo \in Seq(Step) /\ todo # <<>>
      BY <1>6 DEF Issue, TypeOK, Step
    <3>2. Head(todo) \in Step
      BY <3>1, TakeFirst
    <3>3. QED BY <3>2 DEF Step
  <2>2. Fits(line') BY <1>1, <1>6, <2>1 DEF Issue, Fits
  <2>3. QED BY <2>2 DEF Fits
<1>7. CASE line' \in {line, Push(Push(line, RtcmOff), TmodeOff)}
  BY <1>2, <1>7 DEF Fits
<1>8. CASE FireCommand \/ ModeBase
  <2>1. \E c \in Command : line' = Push(line, c)
    BY <1>8, CommandsTyped DEF FireCommand, ModeBase
  <2>2. Fits(line') BY <1>1, <2>1 DEF Fits
  <2>3. QED BY <2>2 DEF Fits
<1>9. CASE ResetReceiver
  <2>1. \/ line' = line
        \/ \E l \in {line, Push(Push(line, RtcmOff), TmodeOff)} : line' = Push(l, HotStart)
    BY <1>9 DEF ResetReceiver, Warn, channel
  <2>2. Fits(line') BY <1>1, <1>2, <2>1, CommandsTyped DEF Fits
  <2>3. QED BY <2>2 DEF Fits
<1>10. CASE BeginFixed \/ BeginSurvey \/ BeginStop
  BY <1>2, <1>7, <1>10 DEF BeginFixed, BeginSurvey, BeginStop, Warn, Abort, channel
<1>11. CASE Acked \/ Unacked \/ FinishFixed \/ FinishOther \/ DeletePosition
            \/ SurveyCompletes \/ FlowChanges \/ UNCHANGED vars
  BY <1>11 DEF Acked, Unacked, awaitFrame, FinishFixed, FinishOther, DeletePosition,
       SurveyCompletes, FlowChanges, channel, vars
<1>12. QED BY <1>4, <1>5, <1>6, <1>8, <1>9, <1>10, <1>11
           DEF Next, RouteContinues, RouteBegins

\* While a route sends and waits it has commands left.
Pending == step \in {"begin", "rest", "await"} => todo # <<>>

\* Whatever happens, a route that sends has a command left to send.
LEMMA ProgramStep == TypeOK /\ Pending /\ [Next]_vars => (todo \in Seq(Step) /\ Pending)'
<1> SUFFICES ASSUME TypeOK, Pending, [Next]_vars PROVE (todo \in Seq(Step) /\ Pending)'
    OBVIOUS
<1>1. todo \in Seq(Step)
  BY DEF TypeOK, Step
<1> USE DEF Pending
<1>2. CASE UNCHANGED todo /\ (step' = step \/ step' = "idle")
  BY <1>1, <1>2
<1>3. CASE Issue
  BY <1>1, <1>3 DEF Issue
<1>4. CASE Acked \/ Unacked
  <2>1. todo # <<>>
    BY <1>4 DEF Acked, Unacked
  <2>2. Tail(todo) \in Seq(Step)
    BY <1>1, <2>1, TakeFirst
  <2>3. CASE Advance
    BY <2>2, <2>3 DEF Advance
  <2>4. CASE Fail
    BY <2>4 DEF Fail
  <2>5. QED BY <1>4, <2>3, <2>4 DEF Acked, Unacked
<1>5. CASE BeginFixed \/ BeginSurvey \/ BeginStop
  <2>1. \/ \E p \in Positions, w \in BOOLEAN : todo' = FixedProgram(p, w)
        \/ todo' \in {SurveyProgram, StopProgram}
        \/ UNCHANGED <<todo, step>>
    BY <1>5 DEF BeginFixed, BeginSurvey, BeginStop, Starts, Warn
  <2>2. QED BY <1>1, <2>1, ProgramsTyped
<1>6. CASE FireCommand \/ ModeBase \/ ResetReceiver \/ DeletePosition
  BY <1>2, <1>6 DEF FireCommand, ModeBase, ResetReceiver, DeletePosition, AtOnce,
     atOnceFrame, Warn
<1>7. CASE FinishFixed \/ FinishOther \/ Serve \/ SurveyCompletes \/ FlowChanges
           \/ RunCommand \/ UNCHANGED vars
  BY <1>2, <1>7 DEF FinishFixed, FinishOther, Serve, SurveyCompletes, FlowChanges,
     RunCommand, course, vars
<1>8. QED BY <1>3, <1>4, <1>5, <1>6, <1>7 DEF Next, RouteContinues, RouteBegins

\* The receiver follows commands only.
LEMMA EffectTyped ==
    ASSUME tmode \in {"off", "survey"} \union Positions, bbr \in {"off"} \union Positions,
           NEW c \in Command, Effect(c)
    PROVE  /\ tmode' \in {"off", "survey"} \union Positions
           /\ bbr' \in {"off"} \union Positions
           /\ rtcm' \in BOOLEAN
<1>1. CASE c \in FixedAny
  <2>1. PICK p \in Positions, keep \in BOOLEAN : c = Fixed(p, keep)
    BY <1>1 DEF FixedAny
  <2>2. c.op = "fixed" /\ c.pos \in Positions
    BY <2>1 DEF Fixed
  <2>3. QED BY <2>2 DEF Effect
<1>2. CASE c \in {RtcmOff, RtcmOn, TmodeOff, Survey, HotStart}
  <2>1. c.op # "fixed"
    BY <1>2 DEF RtcmOff, RtcmOn, TmodeOff, Survey, HotStart
  <2>2. QED BY <2>1 DEF Effect
<1>3. QED BY <1>1, <1>2 DEF Command

\* The receiver's settings stay within their types: only commands and the
\* reset change them.
LEMMA ReceiverStep ==
    TypeOK /\ [Next]_vars =>
        /\ tmode' \in {"off", "survey"} \union Positions
        /\ bbr' \in {"off"} \union Positions
        /\ rtcm' \in BOOLEAN
<1> SUFFICES ASSUME TypeOK, [Next]_vars
             PROVE  /\ tmode' \in {"off", "survey"} \union Positions
                    /\ bbr' \in {"off"} \union Positions
                    /\ rtcm' \in BOOLEAN
    OBVIOUS
<1>1. CASE UNCHANGED receiver
  BY <1>1 DEF receiver, TypeOK
<1>2. CASE Serve /\ Effect(Head(line))
  <2>1. Head(line) \in Command
    <3>1. line \in Seq(Command) /\ line # <<>>
      BY <1>2 DEF Serve, TypeOK, LineOK
    <3>2. QED BY <3>1, TakeFirst
  <2>2. QED BY <1>2, <2>1, EffectTyped DEF TypeOK
<1>3. UNCHANGED receiver \/ (Serve /\ Effect(Head(line)))
  BY DEF Next, RouteContinues, RouteBegins, Serve, Issue, Acked, Unacked, awaitFrame,
     FinishFixed, FinishOther, BeginFixed, BeginSurvey, BeginStop, Starts, Warn,
     FireCommand, ModeBase, ResetReceiver, DeletePosition, AtOnce, atOnceFrame,
     SurveyCompletes, FlowChanges, RunCommand, vars
<1>4. QED BY <1>1, <1>2, <1>3

\* The records of the routes, the request and the orchestrator.
FieldsOK ==
    /\ answer \in {"none", "ack", "nak"}
    /\ base \in {"none", "survey"} \union Positions
    /\ baseRtcm \in BOOLEAN /\ rtcmState \in BOOLEAN /\ valid \in BOOLEAN
    /\ file \in {"none"} \union (Positions \ {Null})
    /\ ntrip \in BOOLEAN
    /\ route \in {"fire", "fixed", "survey", "stop"}
    /\ pos \in Positions /\ want \in BOOLEAN
    /\ step \in {"idle", "begin", "rest", "await", "finish"}
    /\ result \in {"none", "ok", "failed", "warned"}
    /\ flow \in Flows /\ disturbed \in BOOLEAN

\* The calls stay within their bound.
LEMMA CallsStep == calls \in 0 .. MaxCalls /\ [Next]_vars => calls' \in 0 .. MaxCalls
<1> SUFFICES ASSUME calls \in 0 .. MaxCalls, [Next]_vars PROVE calls' \in 0 .. MaxCalls
    OBVIOUS
<1>1. UNCHANGED calls \/ (calls < MaxCalls /\ calls' = calls + 1)
  BY DEF Next, RouteContinues, RouteBegins, Serve, Issue, Acked, Unacked, awaitFrame,
     FinishFixed, FinishOther, BeginFixed, BeginSurvey, BeginStop, Call,
     FireCommand, ModeBase, ResetReceiver, DeletePosition, AtOnce,
     SurveyCompletes, FlowChanges, RunCommand, request, vars
<1>2. QED BY <1>1, MaxCallsAssumption

\* The type invariant and the step it needs, together, are inductive.
LEMMA FieldsStep == FieldsOK /\ [Next]_vars => FieldsOK'
<1> SUFFICES ASSUME FieldsOK, [Next]_vars PROVE FieldsOK'
    OBVIOUS
<1>idle. "IDLE" \in Flows
  BY FlowsAssumption
<1> USE NullAssumption DEF FieldsOK, records, status, request, course, runs, channel
<1>1. CASE Issue \/ FinishFixed \/ FinishOther
  BY <1>1, CasterAssumption DEF Issue, FinishFixed, SavePosition, FinishOther
<1>2. CASE Acked \/ Unacked
  BY <1>2 DEF Acked, Unacked, awaitFrame, Advance, Fail
<1>3. CASE BeginFixed \/ BeginStop
  BY <1>idle, <1>3, CasterAssumption DEF BeginFixed, BeginStop, Call, Starts, Abort
<1>4. CASE BeginSurvey
  BY <1>idle, <1>4 DEF BeginSurvey, Call, Starts, Abort, Warn
<1>5. CASE FireCommand \/ ModeBase \/ DeletePosition
  BY <1>5 DEF FireCommand, ModeBase, DeletePosition, AtOnce, atOnceFrame, Call
<1>6. CASE ResetReceiver
  BY <1>idle, <1>6 DEF ResetReceiver, AtOnce, atOnceFrame, Call, Warn
<1>7. CASE Serve
  BY <1>7 DEF Serve, Answer
<1>8. CASE SurveyCompletes \/ FlowChanges
  <2>1. CASE SurveyCompletes
    BY <2>1 DEF SurveyCompletes
  <2>2. CASE FlowChanges
    <3>1. flow' \in Flows
      BY <2>2 DEF FlowChanges
    <3>2. QED BY <2>2, <3>1 DEF FlowChanges
  <2>3. QED BY <1>8, <2>1, <2>2
<1>9. CASE RunCommand
  <2>1. disturbed' = TRUE /\ UNCHANGED <<answer, records, status, request, course, flow>>
    BY <1>9 DEF RunCommand
  <2>2. QED BY <2>1
<1>10. CASE UNCHANGED vars
  BY <1>10 DEF vars
<1>11. QED BY <1>1, <1>2, <1>3, <1>4, <1>5, <1>6, <1>7, <1>8, <1>9, <1>10
          DEF Next, RouteContinues, RouteBegins

\* Every variable stays within its type, and the outbound queue within its limit:
\* a route that sends always has a command to send (send_command drops what does
\* not fit).
THEOREM TypeCorrect == Spec => []TypeOK
<1>1. Init => TypeOK /\ Pending
  <2> SUFFICES ASSUME Init PROVE TypeOK /\ Pending
      OBVIOUS
  <2>1. FieldsOK
    <3>1. "IDLE" \in Flows
      BY FlowsAssumption
    <3>2. QED BY <3>1, NullAssumption DEF Init, FieldsOK
  <2>2. LineOK /\ Pending /\ todo \in Seq(Step) /\ calls \in 0 .. MaxCalls
    BY LineMaxAssumption, MaxCallsAssumption DEF Init, LineOK, Pending
  <2>3. tmode \in {"off"} \union Positions /\ bbr = tmode /\ rtcm \in BOOLEAN
    BY DEF Init
  <2>4. QED BY <2>1, <2>2, <2>3 DEF TypeOK, FieldsOK, Step
<1>2. TypeOK /\ Pending /\ [Next]_vars => (TypeOK /\ Pending)'
  <2> SUFFICES ASSUME TypeOK, Pending, [Next]_vars PROVE (TypeOK /\ Pending)'
      OBVIOUS
  <2>1. FieldsOK'
    BY FieldsStep DEF TypeOK, FieldsOK
  <2>2. LineOK'
    BY LineStep DEF TypeOK, Pending
  <2>3. calls' \in 0 .. MaxCalls
    BY CallsStep DEF TypeOK
  <2>4. QED BY <2>1, <2>2, <2>3, ReceiverStep, ProgramStep DEF TypeOK, FieldsOK, Step
<1>3. QED BY <1>1, <1>2, PTL DEF Spec

-----------------------------------------------------------------------------
(* The course of /base/fixed                                               *)

\* What is left of its program from each of its steps on.
Whole(p, w) ==
    IF w THEN <<Optional(RtcmOff), Required(TmodeOff), Required(Fixed(p, TRUE)), Required(RtcmOn)>>
         ELSE <<Optional(RtcmOff), Required(TmodeOff), Required(Fixed(p, TRUE))>>

FromOff(p, w) ==
    IF w THEN <<Required(TmodeOff), Required(Fixed(p, TRUE)), Required(RtcmOn)>>
         ELSE <<Required(TmodeOff), Required(Fixed(p, TRUE))>>

FromFix(p, w) ==
    IF w THEN <<Required(Fixed(p, TRUE)), Required(RtcmOn)>> ELSE <<Required(Fixed(p, TRUE))>>

FromOn(w) == IF w THEN <<Required(RtcmOn)>> ELSE <<>>

\* Short sequences taken apart.
LEMMA Lengths ==
    ASSUME NEW a, NEW b, NEW c, NEW d
    PROVE  /\ Len(<<a, b, c, d>>) = 4 /\ Len(<<a, b, c>>) = 3
           /\ Len(<<a, b>>) = 2 /\ Len(<<a>>) = 1
OBVIOUS

\* What is left of a route after each of its steps.
LEMMA Tails ==
    ASSUME NEW a, NEW b, NEW c, NEW d
    PROVE  /\ Tail(<<a, b, c, d>>) = <<b, c, d>> /\ Tail(<<a, b, c>>) = <<b, c>>
           /\ Tail(<<a, b>>) = <<b>> /\ Tail(<<a>>) = <<>>
           /\ Head(<<a, b, c>>) = a /\ Head(<<a, b>>) = a /\ Head(<<a>>) = a
OBVIOUS

\* A /base/fixed is three steps, and a fourth if it wants RTCM.
LEMMA Joined ==
    ASSUME NEW a, NEW b, NEW c, NEW d
    PROVE  /\ <<a, b, c>> \o <<d>> = <<a, b, c, d>>
           /\ <<a, b, c>> \o <<>> = <<a, b, c>>
<1> DEFINE S == {a, b, c, d}
<1>1. <<a, b, c>> \in Seq(S) /\ <<d>> \in Seq(S) /\ <<a, b, c, d>> \in Seq(S)
  OBVIOUS
<1>2. <<a, b, c>> \o <<d>> = <<a, b, c, d>>
  <2>1. Len(<<a, b, c>> \o <<d>>) = 4 /\ <<a, b, c>> \o <<d>> \in Seq(S)
    BY <1>1, ConcatProperties
  <2>2. \A i \in 1 .. 4 : (<<a, b, c>> \o <<d>>)[i] = <<a, b, c, d>>[i]
    BY <1>1, ConcatProperties
  <2>3. QED BY <1>1, <2>1, <2>2, SeqEqual
<1>3. QED BY <1>1, <1>2, ConcatEmptySeq

\* The steps lead from each of them to the next.
LEMMA Parts ==
    ASSUME NEW p \in Positions, NEW w \in BOOLEAN
    PROVE  /\ FixedProgram(p, w) = Whole(p, w)
           /\ Tail(Whole(p, w)) = FromOff(p, w)
           /\ Tail(FromOff(p, w)) = FromFix(p, w)
           /\ Tail(FromFix(p, w)) = FromOn(w)
           /\ w => Tail(FromOn(w)) = <<>>
           /\ Head(FromOff(p, w)) = Required(TmodeOff)
           /\ Head(FromFix(p, w)) = Required(Fixed(p, TRUE))
           /\ w => Head(FromOn(w)) = Required(RtcmOn)
<1> USE Tails DEF Whole, FromOff, FromFix, FromOn
<1>1. FixedProgram(p, w) = Whole(p, w)
  <2>1. CASE w
    <3>1. FixedProgram(p, w)
            = <<Optional(RtcmOff), Required(TmodeOff), Required(Fixed(p, TRUE))>> \o <<Required(RtcmOn)>>
      BY <2>1 DEF FixedProgram
    <3> DEFINE a == Optional(RtcmOff)
               b == Required(TmodeOff)
               c == Required(Fixed(p, TRUE))
               d == Required(RtcmOn)
    <3>2. FixedProgram(p, w) = <<a, b, c>> \o <<d>> /\ Whole(p, w) = <<a, b, c, d>>
      BY <2>1, <3>1
    <3> HIDE DEF a, b, c, d
    <3>3. QED BY <3>2, Joined
  <2>2. CASE ~w
    <3>1. FixedProgram(p, w)
            = <<Optional(RtcmOff), Required(TmodeOff), Required(Fixed(p, TRUE))>> \o <<>>
      BY <2>2 DEF FixedProgram
    <3>2. QED BY <2>2, <3>1, Joined
  <2>3. QED BY <2>1, <2>2
<1>2. Tail(Whole(p, w)) = FromOff(p, w)
  OBVIOUS
<1>3. Tail(FromOff(p, w)) = FromFix(p, w) /\ Head(FromOff(p, w)) = Required(TmodeOff)
  OBVIOUS
<1>4. Tail(FromFix(p, w)) = FromOn(w) /\ Head(FromFix(p, w)) = Required(Fixed(p, TRUE))
  OBVIOUS
<1>5. w => Tail(FromOn(w)) = <<>> /\ Head(FromOn(w)) = Required(RtcmOn)
  OBVIOUS
<1>6. QED BY <1>1, <1>2, <1>3, <1>4, <1>5

\* What is left to send tells where in its course a /base/fixed is.
LEMMA PartsDiffer ==
    ASSUME NEW p \in Positions, NEW w \in BOOLEAN
    PROVE  /\ Whole(p, w) \notin {FromOff(p, w), FromFix(p, w), FromOn(w), <<>>}
           /\ FromOff(p, w) \notin {FromFix(p, w), FromOn(w), <<>>}
           /\ FromFix(p, w) \notin {FromOn(w), <<>>}
           /\ w => FromOn(w) # <<>>
<1> DEFINE k == IF w THEN 1 ELSE 0
<1>1. /\ Len(Whole(p, w)) = 3 + k
      /\ Len(FromOff(p, w)) = 2 + k
      /\ Len(FromFix(p, w)) = 1 + k
      /\ Len(FromOn(w)) = k
      /\ Len(<<>>) = 0
  <2>1. CASE w
    BY <2>1, Lengths DEF Whole, FromOff, FromFix, FromOn
  <2>2. CASE ~w
    BY <2>2, Lengths DEF Whole, FromOff, FromFix, FromOn
  <2>3. QED BY <2>1, <2>2
<1>2. k \in {0, 1} /\ (w => k = 1)
  OBVIOUS
<1> HIDE DEF k
<1>3. QED BY <1>1, <1>2

\* The command to send at each of the last three steps, and that it is required.
LEMMA Due ==
    ASSUME NEW p \in Positions, NEW w \in BOOLEAN
    PROVE  /\ Head(FromOff(p, w)).cmd = TmodeOff /\ Head(FromOff(p, w)).required
           /\ Head(FromFix(p, w)).cmd = Fixed(p, TRUE) /\ Head(FromFix(p, w)).required
           /\ w => Head(FromOn(w)).cmd = RtcmOn /\ Head(FromOn(w)).required
<1>1. \A c : Required(c).cmd = c /\ Required(c).required
  BY DEF Required
<1>2. QED BY <1>1, Parts, Zenon

\* What the three commands that matter do.
LEMMA Effects ==
    ASSUME NEW p \in Positions
    PROVE  /\ Effect(TmodeOff) => tmode' = "off"
           /\ Effect(Fixed(p, TRUE)) => tmode' = p /\ bbr' = p
           /\ Effect(RtcmOn) => tmode' = tmode /\ bbr' = bbr /\ rtcm'
BY DEF Effect, TmodeOff, Fixed, RtcmOn, RtcmOff, Survey, HotStart

\* How far /base/fixed has got.
Course == route = "fixed" =>
    /\ step = "begin" => todo = Whole(pos, want)
    /\ step = "rest"  => todo \in {FromOff(pos, want), FromFix(pos, want)}
                         \/ (want /\ todo = FromOn(want))
    /\ step = "await" => todo \in {Whole(pos, want), FromOff(pos, want), FromFix(pos, want)}
                         \/ (want /\ todo = FromOn(want))
    /\ step = "finish" => todo = <<>>
    /\ step # "idle" => result = "none"

\* An answered step of /base/fixed leaves the steps behind it.
LEMMA Onward ==
    ASSUME FieldsOK, Course, route = "fixed", step = "await", Advance
    PROVE  /\ todo = Whole(pos, want) => step' = "rest" /\ todo' = FromOff(pos, want)
           /\ todo = FromOff(pos, want) => step' = "rest" /\ todo' = FromFix(pos, want)
           /\ todo = FromFix(pos, want) =>
                 /\ todo' = FromOn(want)
                 /\ step' = IF want THEN "rest" ELSE "finish"
           /\ want /\ todo = FromOn(want) => todo' = <<>> /\ step' = "finish"
<1>1. pos \in Positions /\ want \in BOOLEAN
  BY DEF FieldsOK
<1>2. ~want => FromOn(want) = <<>>
  BY DEF FromOn
<1>3. todo' = Tail(todo) /\ step' = IF Tail(todo) = <<>> THEN "finish" ELSE "rest"
  BY DEF Advance
<1>4. QED BY <1>1, <1>2, <1>3, Parts, PartsDiffer

\* No step takes a /base/fixed off its course.
LEMMA CourseStep == FieldsOK /\ Course /\ [Next]_vars => Course'
<1> SUFFICES ASSUME FieldsOK, Course, [Next]_vars PROVE Course'
    OBVIOUS
<1>1. CASE UNCHANGED <<route, pos, want, step, todo, result>>
  BY <1>1 DEF Course
<1>2. CASE route' # "fixed"
  BY <1>2 DEF Course
<1>3. CASE BeginFixed
  <2>1. pos' \in Positions /\ want' \in BOOLEAN /\ todo' = FixedProgram(pos', want')
        /\ step' = "begin" /\ result' = "none"
    BY <1>3 DEF BeginFixed, Call, Starts
  <2>2. todo' = Whole(pos', want')
    BY <2>1, Parts
  <2>3. QED BY <2>1, <2>2 DEF Course
<1>4. CASE Issue
  <2>1. UNCHANGED <<route, pos, want, todo, result>> /\ step' = "await"
        /\ step \in {"begin", "rest"}
    BY <1>4 DEF Issue, request
  <2>2. QED BY <2>1 DEF Course
<1>5. CASE Acked \/ Unacked
  <2>1. UNCHANGED <<route, pos, want>> /\ step = "await"
    BY <1>5 DEF Acked, Unacked, awaitFrame, request
  <2>2. CASE Fail
    BY <2>1, <2>2 DEF Fail, Course
  <2>3. CASE Advance /\ route = "fixed"
    <3>1. result' = result
      BY <2>3 DEF Advance
    <3>2. \/ step' = "rest" /\ todo' \in {FromOff(pos, want), FromFix(pos, want)}
          \/ step' = "rest" /\ want /\ todo' = FromOn(want)
          \/ step' = "finish" /\ todo' = <<>>
      <4>1. ~want => FromOn(want) = <<>>
        BY DEF FromOn
      <4>2. QED BY <2>1, <2>3, <4>1, Onward DEF Course, FieldsOK
    <3>3. QED BY <2>1, <2>3, <3>1, <3>2 DEF Course
  <2>4. CASE route # "fixed"
    BY <2>1, <2>4 DEF Course
  <2>5. QED BY <1>5, <2>2, <2>3, <2>4 DEF Acked, Unacked
<1>6. CASE FinishFixed
  BY <1>6 DEF FinishFixed, request, Course
<1>7. CASE FinishOther
  <2>1. route' # "fixed"
    BY <1>7 DEF FinishOther, request
  <2>2. QED BY <1>2, <2>1
<1>8. CASE BeginSurvey \/ BeginStop \/ FireCommand \/ ModeBase \/ ResetReceiver \/ DeletePosition
  <2>1. route' # "fixed"
    BY <1>8 DEF BeginSurvey, BeginStop, FireCommand, ModeBase, ResetReceiver,
       DeletePosition, AtOnce, Call
  <2>2. QED BY <1>2, <2>1
<1>9. CASE Serve \/ SurveyCompletes \/ FlowChanges \/ RunCommand \/ UNCHANGED vars
  BY <1>1, <1>9 DEF Serve, SurveyCompletes, FlowChanges, RunCommand, request, course, vars
<1>10. QED BY <1>3, <1>4, <1>5, <1>6, <1>7, <1>8, <1>9
           DEF Next, RouteContinues, RouteBegins

-----------------------------------------------------------------------------
(* What an undisturbed /base/fixed has done to the receiver                *)

\* Command c is the only one under way, or it has gone.
Waits(c) == line \in {<<>>, <<c>>} /\ (answer # "none" => line = <<>>)

FixedHere == tmode = pos /\ bbr = pos

\* Steps 2, 3 and 4, and the end.
LeavingMode ==
    step = "await" /\ todo = FromOff(pos, want)
        => Waits(TmodeOff) /\ (answer = "ack" => tmode = "off")

Fixing ==
    /\ step = "rest" /\ todo = FromFix(pos, want) => line = <<>> /\ tmode = "off"
    /\ step = "await" /\ todo = FromFix(pos, want)
         => /\ Waits(Fixed(pos, TRUE)) /\ tmode \in {"off", pos}
            /\ answer = "ack" => FixedHere

Enabling ==
    /\ step = "rest" /\ want /\ todo = FromOn(want) => line = <<>> /\ FixedHere
    /\ step = "await" /\ want /\ todo = FromOn(want)
         => Waits(RtcmOn) /\ FixedHere /\ (answer = "ack" => rtcm)

Over ==
    /\ step = "finish" => line = <<>> /\ FixedHere /\ (want => rtcm)
    /\ step = "idle" /\ result = "ok"
         => /\ line = <<>> /\ FixedHere /\ (want => rtcm)
            /\ base = pos /\ (ntrip => rtcm)

Undisturbed ==
    route = "fixed" /\ ~disturbed
        => (step # "idle" => ~ntrip) /\ LeavingMode /\ Fixing /\ Enabling /\ Over

\* Between two steps the line is empty; a command put on it is alone there.
LEMMA Alone ==
    ASSUME NEW c
    PROVE  /\ Push(<<>>, c) = <<c>>
           /\ Head(<<c>>) = c /\ Tail(<<c>>) = <<>> /\ <<c>> # <<>>
BY LineMaxAssumption DEF Push

\* The route sends its next command.
LEMMA IssueKeeps ==
    ASSUME Prompt, FieldsOK, Course, Undisturbed, Issue PROVE Undisturbed'
<1> SUFFICES ASSUME route = "fixed", ~disturbed PROVE Undisturbed'
    BY DEF Issue, request, runs, Undisturbed
<1>1. UNCHANGED <<tmode, bbr, rtcm, route, pos, want, todo, ntrip, disturbed>>
      /\ step' = "await" /\ answer' = "none" /\ line' = Push(line, Head(todo).cmd)
      /\ step \in {"begin", "rest"}
  BY DEF Issue, receiver, status, request, runs
<1>2. todo = Whole(pos, want) \/ (step = "rest" /\ line = <<>>)
  BY <1>1 DEF Issue, Settled, Course
<1>3. pos \in Positions /\ want \in BOOLEAN
  BY DEF FieldsOK
<1>4. todo # Whole(pos, want) => line' = <<Head(todo).cmd>>
  BY <1>1, <1>2, Alone
<1>5. ~ntrip
  BY <1>1 DEF Undisturbed
<1>6. LeavingMode'
  <2> SUFFICES ASSUME todo = FromOff(pos, want) PROVE Waits(TmodeOff)'
      BY <1>1 DEF LeavingMode
  <2>1. Head(todo).cmd = TmodeOff
    BY <1>3, Due
  <2>2. QED BY <1>1, <1>3, <1>4, <2>1, PartsDiffer DEF Waits
<1>7. Fixing'
  <2> SUFFICES ASSUME todo = FromFix(pos, want)
               PROVE  Waits(Fixed(pos, TRUE))' /\ tmode = "off"
      BY <1>1 DEF Fixing
  <2>1. Head(todo).cmd = Fixed(pos, TRUE)
    BY <1>3, Due
  <2>2. todo # Whole(pos, want)
    BY <1>3, PartsDiffer
  <2>3. Waits(Fixed(pos, TRUE))'
    BY <1>1, <1>4, <2>1, <2>2 DEF Waits
  <2>4. QED BY <1>2, <2>2, <2>3 DEF Undisturbed, Fixing
<1>8. Enabling'
  <2> SUFFICES ASSUME want, todo = FromOn(want)
               PROVE  Waits(RtcmOn)' /\ FixedHere
      BY <1>1 DEF Enabling, FixedHere
  <2>1. Head(todo).cmd = RtcmOn
    BY <1>3, Due
  <2>2. todo # Whole(pos, want)
    BY <1>3, PartsDiffer
  <2>3. Waits(RtcmOn)'
    BY <1>1, <1>4, <2>1, <2>2 DEF Waits
  <2>4. QED BY <1>2, <2>2, <2>3 DEF Undisturbed, Enabling
<1>9. Over'
  BY <1>1 DEF Over
<1>10. QED BY <1>1, <1>5, <1>6, <1>7, <1>8, <1>9 DEF Undisturbed

\* The receiver deals with the only command under way.
LEMMA ServeKeeps ==
    ASSUME FieldsOK, Undisturbed, Serve PROVE Undisturbed'
<1> SUFFICES ASSUME route = "fixed", ~disturbed PROVE Undisturbed'
    BY DEF Serve, request, runs, Undisturbed
<1>1. UNCHANGED <<route, pos, want, todo, step, result, ntrip, disturbed, base>>
      /\ line # <<>> /\ line' = Tail(line)
  BY DEF Serve, records, status, request, course, runs
<1>2. pos \in Positions /\ want \in BOOLEAN
  BY DEF FieldsOK
<1>3. \/ Effect(Head(line)) /\ Answer("ack")
      \/ UNCHANGED receiver /\ Answer("nak")
      \/ UNCHANGED receiver /\ UNCHANGED answer
      \/ Effect(Head(line)) /\ UNCHANGED answer
  BY DEF Serve
<1>4. \A c : line \in {<<>>, <<c>>} => Head(line) = c /\ line' = <<>>
  BY <1>1, Alone
<1>5. LeavingMode'
  <2> SUFFICES ASSUME step = "await", todo = FromOff(pos, want)
               PROVE  Waits(TmodeOff)' /\ (answer' = "ack" => tmode' = "off")
      BY <1>1 DEF LeavingMode
  <2>1. Head(line) = TmodeOff /\ line' = <<>> /\ answer = "none"
    BY <1>1, <1>4 DEF Undisturbed, LeavingMode, Waits
  <2>2. QED BY <1>2, <1>3, <2>1, Effects DEF Answer, Waits
<1>6. Fixing'
  <2>1. step = "rest" /\ todo = FromFix(pos, want) => FALSE
    BY <1>1 DEF Undisturbed, Fixing
  <2> SUFFICES ASSUME step = "await", todo = FromFix(pos, want)
               PROVE  /\ Waits(Fixed(pos, TRUE))' /\ tmode' \in {"off", pos}
                      /\ answer' = "ack" => tmode' = pos /\ bbr' = pos
      BY <1>1, <2>1 DEF Fixing, FixedHere
  <2>2. Head(line) = Fixed(pos, TRUE) /\ line' = <<>> /\ answer = "none"
        /\ tmode \in {"off", pos}
    <3>1. Waits(Fixed(pos, TRUE)) /\ tmode \in {"off", pos}
      BY DEF Undisturbed, Fixing
    <3>2. line \in {<<>>, <<Fixed(pos, TRUE)>>} /\ (answer # "none" => line = <<>>)
      BY <3>1 DEF Waits
    <3> DEFINE c == Fixed(pos, TRUE)
    <3>3. line \in {<<>>, <<c>>}
      BY <3>2
    <3> HIDE DEF c
    <3>4. Head(line) = c /\ line' = <<>>
      BY <1>4, <3>3
    <3>5. answer = "none"
      BY <1>1, <1>2, <3>1 DEF Waits, FieldsOK
    <3>6. QED BY <3>1, <3>4, <3>5 DEF c
  <2>3. QED BY <1>2, <1>3, <2>2, Effects DEF Answer, Waits, receiver
<1>7. Enabling'
  <2>1. step = "rest" /\ want /\ todo = FromOn(want) => FALSE
    BY <1>1 DEF Undisturbed, Enabling
  <2> SUFFICES ASSUME step = "await", want, todo = FromOn(want)
               PROVE  /\ Waits(RtcmOn)' /\ tmode' = pos /\ bbr' = pos
                      /\ answer' = "ack" => rtcm'
      BY <1>1, <2>1 DEF Enabling, FixedHere
  <2>2. Head(line) = RtcmOn /\ line' = <<>> /\ answer = "none" /\ tmode = pos /\ bbr = pos
    BY <1>1, <1>4 DEF Undisturbed, Enabling, FixedHere, Waits
  <2>3. QED BY <1>2, <1>3, <2>2, Effects DEF Answer, Waits, receiver
<1>8. Over'
  <2>1. step # "finish" /\ ~(step = "idle" /\ result = "ok")
    BY <1>1 DEF Undisturbed, Over
  <2>2. QED BY <1>1, <2>1 DEF Over
<1>9. QED BY <1>1, <1>5, <1>6, <1>7, <1>8 DEF Undisturbed

\* An answer, or none, is judged.  After step 1 the route goes on whatever the
\* answer; from step 2 on it goes on after an acknowledgement only.
LEMMA JudgeKeeps ==
    ASSUME FieldsOK, Course, Undisturbed, Acked \/ Unacked PROVE Undisturbed'
<1>1. UNCHANGED <<tmode, bbr, rtcm, line, base, ntrip, route, pos, want, disturbed>>
      /\ step = "await"
  BY DEF Acked, Unacked, awaitFrame, receiver, records, request, runs
<1> SUFFICES ASSUME route = "fixed", ~disturbed PROVE Undisturbed'
    BY <1>1 DEF Undisturbed
<1>2. pos \in Positions /\ want \in BOOLEAN /\ ~ntrip
  BY <1>1 DEF FieldsOK, Undisturbed
<1>3. CASE Fail
  <2>1. step' = "idle" /\ result' = "failed"
    BY <1>3 DEF Fail
  <2>2. QED BY <1>1, <2>1 DEF Undisturbed, LeavingMode, Fixing, Enabling, Over
<1>4. CASE Advance
  <2>1. Head(todo).required => answer = "ack"
    BY <1>4 DEF Acked, Unacked, Fail, Advance
  <2>2. ~want => FromOn(want) = <<>>
    BY DEF FromOn
  <2>3. CASE todo = Whole(pos, want)
    <3>1. step' = "rest" /\ todo' = FromOff(pos, want)
      BY <1>1, <1>4, <2>3, Onward
    <3>2. todo' # FromFix(pos, want) /\ (want => todo' # FromOn(want))
      BY <1>2, <3>1, PartsDiffer
    <3>3. QED BY <1>1, <1>2, <3>1, <3>2 DEF Undisturbed, LeavingMode, Fixing, Enabling, Over
  <2>4. CASE todo = FromOff(pos, want)
    <3>1. step' = "rest" /\ todo' = FromFix(pos, want)
      BY <1>1, <1>4, <2>4, Onward
    <3>2. want => todo' # FromOn(want)
      BY <1>2, <3>1, PartsDiffer
    <3>3. line = <<>> /\ tmode = "off"
      BY <1>1, <1>2, <2>1, <2>4, Due DEF Undisturbed, LeavingMode, Waits
    <3>4. QED BY <1>1, <1>2, <3>1, <3>2, <3>3
              DEF Undisturbed, LeavingMode, Fixing, Enabling, Over
  <2>5. CASE todo = FromFix(pos, want)
    <3>1. todo' = FromOn(want) /\ step' = IF want THEN "rest" ELSE "finish"
      BY <1>1, <1>4, <2>5, Onward
    <3>2. todo' # FromFix(pos, want)
      BY <1>2, <3>1, PartsDiffer
    <3>3. line = <<>> /\ FixedHere
      BY <1>1, <1>2, <2>1, <2>5, Due DEF Undisturbed, Fixing, Waits
    <3>4. QED BY <1>1, <1>2, <3>1, <3>2, <3>3
              DEF Undisturbed, LeavingMode, Fixing, Enabling, Over, FixedHere
  <2>6. CASE want /\ todo = FromOn(want)
    <3>1. todo' = <<>> /\ step' = "finish"
      BY <1>1, <1>4, <2>6, Onward
    <3>2. line = <<>> /\ FixedHere /\ rtcm
      BY <1>1, <1>2, <2>1, <2>6, Due DEF Undisturbed, Enabling, Waits
    <3>3. QED BY <1>1, <1>2, <3>1, <3>2
              DEF Undisturbed, LeavingMode, Fixing, Enabling, Over, FixedHere
  <2>7. QED BY <1>1, <2>3, <2>4, <2>5, <2>6 DEF Course
<1>5. QED BY <1>3, <1>4 DEF Acked, Unacked

\* With prompt answers, what an undisturbed /base/fixed has done to the
\* receiver is preserved by every step.
LEMMA UndisturbedStep ==
    Prompt /\ FieldsOK /\ Course /\ Undisturbed /\ [Next]_vars => Undisturbed'
<1> SUFFICES ASSUME Prompt, FieldsOK, Course, Undisturbed, [Next]_vars PROVE Undisturbed'
    OBVIOUS
<1>1. CASE route' # "fixed" \/ disturbed'
  BY <1>1 DEF Undisturbed
<1>2. CASE UNCHANGED <<tmode, bbr, rtcm, line, answer, base, ntrip, route, pos,
                       want, step, todo, result, disturbed>>
  BY <1>2 DEF Undisturbed, LeavingMode, Fixing, Enabling, Over, Waits, FixedHere
<1>3. CASE Issue \/ Serve \/ Acked \/ Unacked
  BY <1>3, IssueKeeps, ServeKeeps, JudgeKeeps
<1>4. CASE BeginFixed
  <2>1. step' = "begin" /\ ntrip' = FALSE
    BY <1>4 DEF BeginFixed, Starts, Abort
  <2>2. QED BY <2>1 DEF Undisturbed, LeavingMode, Fixing, Enabling, Over
<1>5. CASE FinishFixed
  <2> SUFFICES ASSUME route = "fixed", ~disturbed PROVE Undisturbed'
    BY <1>5 DEF FinishFixed, request, runs, Undisturbed
  <2>1. /\ UNCHANGED <<tmode, bbr, rtcm, line, route, pos, want>>
        /\ step' = "idle" /\ base' = pos
        /\ ntrip' => ntrip \/ want
        /\ step = "finish"
    BY <1>5 DEF FinishFixed, receiver, channel, request
  <2>2. line = <<>> /\ FixedHere /\ (want => rtcm) /\ ~ntrip
    BY <2>1 DEF Undisturbed, Over
  <2>3. QED BY <2>1, <2>2 DEF Undisturbed, LeavingMode, Fixing, Enabling, Over, FixedHere
<1>6. CASE FinishOther \/ BeginSurvey \/ BeginStop \/ FireCommand \/ ModeBase
           \/ ResetReceiver \/ DeletePosition
  <2>1. route' # "fixed"
    BY <1>6 DEF FinishOther, BeginSurvey, BeginStop, FireCommand, ModeBase, ResetReceiver,
       DeletePosition, AtOnce, Call, request
  <2>2. QED BY <1>1, <2>1
<1>7. CASE RunCommand
  BY <1>1, <1>7 DEF RunCommand
<1>8. CASE SurveyCompletes \/ FlowChanges \/ UNCHANGED vars
  BY <1>2, <1>8 DEF SurveyCompletes, FlowChanges, receiver, channel, records, status,
     request, course, runs, vars
<1>9. QED BY <1>3, <1>4, <1>5, <1>6, <1>7, <1>8 DEF Next, RouteContinues, RouteBegins

\* The invariant of /base/fixed when answers come before the next step or never.
LEMMA FixedInv == Prompt /\ Spec => [](FieldsOK /\ Course /\ Undisturbed)
<1> SUFFICES ASSUME Prompt PROVE Spec => [](FieldsOK /\ Course /\ Undisturbed)
    OBVIOUS
<1>1. Init => FieldsOK /\ Course /\ Undisturbed
  <2> SUFFICES ASSUME Init PROVE FieldsOK /\ Course /\ Undisturbed
      OBVIOUS
  <2>1. "IDLE" \in Flows
    BY FlowsAssumption
  <2>2. FieldsOK
    BY <2>1, NullAssumption DEF Init, FieldsOK
  <2>3. QED BY <2>2 DEF Init, Course, Undisturbed
<1>2. FieldsOK /\ Course /\ Undisturbed /\ [Next]_vars
        => (FieldsOK /\ Course /\ Undisturbed)'
  BY FieldsStep, CourseStep, UndisturbedStep
<1>3. QED BY <1>1, <1>2, PTL DEF Spec

\* With answers that come before the next step or never: a /base/fixed that no run
\* disturbed and that reports success has fixed the receiver at its position, through
\* a reset too, and the record and the caster agree with it.
THEOREM FixedAppliedAlways == Prompt /\ Spec => []FixedApplied
<1>1. FieldsOK /\ Course /\ Undisturbed => FixedApplied
  <2> SUFFICES ASSUME FieldsOK, Course, Undisturbed, route = "fixed", result = "ok", ~disturbed
               PROVE  FixedApplied
      BY DEF FixedApplied
  <2>1. step = "idle"
    BY DEF Course
  <2>2. QED BY <2>1 DEF Undisturbed, Over, FixedHere, FixedApplied
<1>2. QED BY <1>1, FixedInv, PTL

\* ... and from the acknowledgement of its step 2 on the receiver is at no other
\* position ("prevent broadcasting stale position"), success or not.
THEOREM NoStalePositionEver == Prompt /\ Spec => []NoStalePosition
<1>1. FieldsOK /\ Course /\ Undisturbed => NoStalePosition
  <2> SUFFICES ASSUME FieldsOK, Course, Undisturbed, route = "fixed", ~disturbed,
                      ~Leaving, step # "idle" \/ result = "ok"
               PROVE  tmode \in {"off", pos}
      BY DEF NoStalePosition
  <2>1. pos \in Positions /\ want \in BOOLEAN
    BY DEF FieldsOK
  <2>2. todo # Whole(pos, want) /\ todo # FromOff(pos, want)
    <3>1. /\ Len(Whole(pos, want)) >= 2 /\ Whole(pos, want)[2] = Required(TmodeOff)
          /\ Len(FromOff(pos, want)) >= 1 /\ FromOff(pos, want)[1] = Required(TmodeOff)
      BY <2>1, Lengths DEF Whole, FromOff
    <3>2. Required(TmodeOff).cmd = TmodeOff
      BY DEF Required
    <3>3. QED BY <3>1, <3>2 DEF Leaving
  <2>3. CASE step = "idle"
    BY <2>3 DEF Undisturbed, Over, FixedHere
  <2>4. CASE step = "finish"
    BY <2>4 DEF Undisturbed, Over, FixedHere
  <2>5. CASE step \in {"rest", "await"} /\ todo = FromFix(pos, want)
    BY <2>5 DEF Undisturbed, Fixing
  <2>6. CASE step \in {"rest", "await"} /\ want /\ todo = FromOn(want)
    BY <2>6 DEF Undisturbed, Enabling, FixedHere
  <2>7. QED BY <2>2, <2>3, <2>4, <2>5, <2>6 DEF Course, FieldsOK
<1>2. QED BY <1>1, FixedInv, PTL

=============================================================================
