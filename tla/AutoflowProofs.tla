--------------------------- MODULE AutoflowProofs ---------------------------
(***************************************************************************)
(* Proofs about Autoflow, for every choice of Replies, Calls, NtripChoices *)
(* and Links: the type invariant, that accepted triggers are not lost, and *)
(* that STREAMING means a fixed base position with RTCM output, and that   *)
(* the orchestrator implements BaseStation.                                *)
(***************************************************************************)
EXTENDS Autoflow, TLAPS

-----------------------------------------------------------------------------
(* Type correctness                                                        *)

\* A step that only moves the orchestrator keeps the types.
LEMMA GotoType ==
    ASSUME NEW from, NEW to \in Steps, TypeOK, Goto(from, to)
    PROVE  TypeOK'
BY DEF Goto, TypeOK, shared, config, locals, receiver, history

\* So does a step that also writes a legal state.
LEMMA SetStateType ==
    ASSUME NEW from, NEW new \in States, NEW to \in Steps, TypeOK,
           SetState(from, new, to)
    PROVE  TypeOK'
BY DEF SetState, TypeOK, config, locals, receiver, history

\* So does a command that asks for a legal TMODE and RTCM setting.
LEMMA IssueType ==
    ASSUME NEW from, NEW t \in {"off", "survey", "fixed"}, NEW r \in BOOLEAN,
           NEW to \in Steps, TypeOK, Issue(from, t, r, to)
    PROVE  TypeOK'
BY RepliesAssumption
   DEF Issue, Possible, Effect, TypeOK, Reply, shared, config, history

\* Where a command is answered is a step of the thread.
LEMMA AckSteps ==
    {"rtcm_off_ack", "survey_off_ack", "fix_saved_ack", "survey_on_ack",
     "restart_off_ack", "restart_on_ack", "fix_survey_ack", "rtcm_on_ack"} \subseteq Steps
BY DEF Steps, RunSteps

\* The receiver's settings, as TypeOK has them.
LEMMA ReceiverType ==
    ASSUME TypeOK
    PROVE  /\ tmode \in {"off", "survey", "fixed"} /\ rtcm \in BOOLEAN
           /\ "off" \in {"off", "survey", "fixed"}
           /\ "survey" \in {"off", "survey", "fixed"}
           /\ "fixed" \in {"off", "survey", "fixed"}
BY DEF TypeOK

\* Every step of the two threads and of the environment keeps the types.
LEMMA TypeStep == TypeOK /\ [Next]_vars => TypeOK'
<1> SUFFICES ASSUME TypeOK, [Next]_vars PROVE TypeOK'
  OBVIOUS
<1> USE DEF shared, config, locals, receiver, history, apiFrame
<1>1. CASE Awake
  BY <1>1, GotoType DEF Awake, Steps, LoopSteps, RecoverySteps, RunSteps
<1>2. CASE Exit
  BY <1>2, GotoType DEF Exit, Steps, LoopSteps, RecoverySteps, RunSteps
<1>3. CASE WakeUp
  <2>1. CASE ClearTrigger
    <3>1. triggerEvent' \in BOOLEAN
      BY <2>1 DEF ClearTrigger
    <3>2. pc' \in Steps
      BY <2>1 DEF ClearTrigger, Steps, LoopSteps
    <3>3. QED
      BY <2>1, <3>1, <3>2 DEF ClearTrigger, TypeOK
  <2>2. CASE ReadState
    BY <2>2, GotoType DEF ReadState, Steps, LoopSteps, RunSteps
  <2>3. QED
    BY <1>3, <2>1, <2>2 DEF WakeUp
<1>4. CASE Crash
  BY <1>4, SetStateType DEF Crash, Steps, LoopSteps, RecoverySteps, RunSteps,
     States
<1>5. CASE FailedCleanup
  BY <1>5 DEF FailedCleanup, TypeOK, Steps, LoopSteps, RecoverySteps,
     RunSteps, Clients
<1>6. CASE RecoverWait
  BY <1>6, GotoType DEF RecoverWait, Steps, LoopSteps, RecoverySteps,
     RunSteps
<1>7. CASE RecoverIdle
  BY <1>7, SetStateType DEF RecoverIdle, Steps, LoopSteps, RecoverySteps,
     RunSteps, States
<1>8. CASE RecoverLock
  BY <1>8 DEF RecoverLock, AcceptTrigger, TypeOK, Steps, LoopSteps,
     RecoverySteps, RunSteps, States
<1>9. CASE RecoverSet
  BY <1>9 DEF RecoverSet, TypeOK, Steps, LoopSteps, RecoverySteps, RunSteps
<1>10. CASE BeginRun
  BY <1>10 DEF BeginRun, AbortSteps, TypeOK, Steps, LoopSteps, RecoverySteps,
     RunSteps, States
<1>11. CASE WaitSerial
  BY <1>11, GotoType DEF WaitSerial, Halted, Steps, LoopSteps, RecoverySteps,
     RunSteps
<1>12. CASE RtcmOff
  BY <1>12, IssueType, AckSteps, ReceiverType DEF RtcmOff
<1>13. CASE SurveyOff
  BY <1>13, IssueType, AckSteps, ReceiverType DEF SurveyOff
<1>14. CASE PhaseOneAck
  BY <1>14 DEF PhaseOneAck, Answered, TypeOK, Steps, LoopSteps,
     RecoverySteps, RunSteps, Reply
<1>15. CASE ClearSurvey
  <2>1. pc' \in Steps /\ svinValid' \in BOOLEAN
    <3>1. CASE Halted
      BY <1>15, <3>1 DEF ClearSurvey, TypeOK, Steps, LoopSteps
    <3>2. CASE ~Halted
      BY <1>15, <3>2 DEF ClearSurvey, Steps, RunSteps
    <3>3. QED
      BY <3>1, <3>2
  <2>2. QED
    BY <1>15, <2>1 DEF ClearSurvey, TypeOK
<1>16. CASE SetChecking
  BY <1>16, SetStateType DEF SetChecking, Steps, LoopSteps, RecoverySteps,
     RunSteps, States
<1>17. CASE LoadPosition
  BY <1>17 DEF LoadPosition, TypeOK, Steps, LoopSteps, RecoverySteps,
     RunSteps
<1>18. CASE ChooseSaved
  BY <1>18, GotoType DEF ChooseSaved, Halted, Steps, LoopSteps,
     RecoverySteps, RunSteps
<1>19. CASE SetApply
  BY <1>19, SetStateType DEF SetApply, Steps, LoopSteps, RecoverySteps,
     RunSteps, States
<1>20. CASE FixSaved
  BY <1>20, IssueType, AckSteps, ReceiverType DEF FixSaved
<1>21. CASE FixSavedAck
  BY <1>21 DEF FixSavedAck, Answered, TypeOK, Steps, LoopSteps,
     RecoverySteps, RunSteps, Reply
<1>22. CASE ChooseSurvey
  BY <1>22, GotoType DEF ChooseSurvey, Halted, Steps, LoopSteps,
     RecoverySteps, RunSteps
<1>23. CASE SetSurvey
  BY <1>23, SetStateType DEF SetSurvey, Steps, LoopSteps, RecoverySteps,
     RunSteps, States
<1>24. CASE SurveyOn
  BY <1>24, IssueType, AckSteps, ReceiverType DEF SurveyOn
<1>25. CASE SurveyOnAck
  BY <1>25 DEF SurveyOnAck, Required, Answered, TypeOK, Steps, LoopSteps,
     RecoverySteps, RunSteps, States, Reply
<1>26. CASE Poll
  BY <1>26, GotoType, SetStateType DEF Poll, Halted, Steps, LoopSteps,
     RecoverySteps, RunSteps, States
<1>27. CASE RestartOff
  BY <1>27, IssueType, AckSteps, ReceiverType DEF RestartOff
<1>28. CASE RestartOffAck
  BY <1>28 DEF RestartOffAck, Answered, TypeOK, Steps, LoopSteps,
     RecoverySteps, RunSteps, Reply
<1>29. CASE RestartOn
  BY <1>29, IssueType, AckSteps, ReceiverType DEF RestartOn
<1>30. CASE RestartOnAck
  BY <1>30 DEF RestartOnAck, Required, Answered, TypeOK, Steps, LoopSteps,
     RecoverySteps, RunSteps, States, Reply
<1>31. CASE SurveyDone
  BY <1>31, GotoType DEF SurveyDone, Halted, Steps, LoopSteps, RecoverySteps,
     RunSteps
<1>32. CASE FixSurvey
  BY <1>32, IssueType, AckSteps, ReceiverType DEF FixSurvey
<1>33. CASE FixSurveyAck
  <2>1. savedPos' \in BOOLEAN
    BY <1>33 DEF FixSurveyAck, TypeOK
  <2>2. state' \in States /\ pc' \in Steps /\ reply' = "none"
    BY <1>33 DEF FixSurveyAck, Required, Answered, TypeOK, States, Steps,
                LoopSteps, RunSteps
  <2>3. UNCHANGED <<stopEvent, triggerEvent, client, enabled, ntripConf, useSaved,
                    runNtrip, snap, api, connected, tmode, rtcm, svinValid,
                    history>>
    BY <1>33 DEF FixSurveyAck, Required
  <2>4. QED
    BY <2>1, <2>2, <2>3 DEF TypeOK
<1>34. CASE SetEnabling
  BY <1>34, SetStateType DEF SetEnabling, Steps, LoopSteps, RecoverySteps,
     RunSteps, States
<1>35. CASE RtcmOn
  BY <1>35, IssueType, AckSteps, ReceiverType DEF RtcmOn
<1>36. CASE RtcmOnAck
  BY <1>36 DEF RtcmOnAck, Required, Answered, TypeOK, Steps, LoopSteps,
     RecoverySteps, RunSteps, States, Reply
<1>37. CASE Settle
  BY <1>37, GotoType DEF Settle, Halted, Steps, LoopSteps, RecoverySteps,
     RunSteps
<1>38. CASE SetReady
  BY <1>38, SetStateType DEF SetReady, Steps, LoopSteps, RecoverySteps,
     RunSteps, States
<1>39. CASE SetConnect
  BY <1>39, SetStateType DEF SetConnect, Steps, LoopSteps, RecoverySteps,
     RunSteps, States
<1>40. CASE StartNtrip
  BY <1>40 DEF StartNtrip, TypeOK, Steps, LoopSteps, RecoverySteps, RunSteps,
     Clients
<1>41. CASE AwaitNtrip
  BY <1>41, GotoType DEF AwaitNtrip, Halted, Steps, LoopSteps, RecoverySteps,
     RunSteps
<1>42. CASE AwaitLog
  BY <1>42, GotoType DEF AwaitLog, Steps, LoopSteps, RecoverySteps, RunSteps
<1>43. CASE AwaitUse
  BY <1>43, GotoType DEF AwaitUse, Steps, LoopSteps, RecoverySteps, RunSteps
<1>44. CASE AwaitDone
  BY <1>44, GotoType DEF AwaitDone, Halted, Steps, LoopSteps, RecoverySteps,
     RunSteps
<1>45. CASE SetStreaming
  BY <1>45, SetStateType DEF SetStreaming, Steps, LoopSteps, RecoverySteps,
     RunSteps, States
<1>46. CASE Monitor
  BY <1>46, GotoType DEF Monitor, Halted, Steps, LoopSteps, RecoverySteps,
     RunSteps
<1>47. CASE MonitorRead
  BY <1>47 DEF MonitorRead, TypeOK, Steps, LoopSteps, RecoverySteps,
     RunSteps, Clients
<1>48. CASE MonitorGaveUp
  BY <1>48, GotoType DEF MonitorGaveUp, Steps, LoopSteps, RecoverySteps,
     RunSteps
<1>49. CASE MonitorPark
  BY <1>49, SetStateType DEF MonitorPark, Steps, LoopSteps, RecoverySteps,
     RunSteps, States
<1>50. CASE MonitorStale
  BY <1>50 DEF MonitorStale, TypeOK, Steps, LoopSteps, RecoverySteps,
     RunSteps, Clients
<1>51. CASE MonitorFlip
  BY <1>51 DEF MonitorFlip, TypeOK, Steps, LoopSteps, RecoverySteps,
     RunSteps, Clients
<1>52. CASE MonitorDown
  BY <1>52, SetStateType DEF MonitorDown, Steps, LoopSteps, RecoverySteps,
     RunSteps, States
<1>53. CASE MonitorUp
  BY <1>53, SetStateType DEF MonitorUp, Steps, LoopSteps, RecoverySteps,
     RunSteps, States
<1>54. CASE Boot
  BY <1>54 DEF Boot, TypeOK, Steps, LoopSteps, RecoverySteps, RunSteps,
     ApiSteps, AbortSteps
<1>55. CASE TriggerLock
  <2>1. state' \in States /\ api' \in ApiSteps
    BY <1>55 DEF TriggerLock, AcceptTrigger, TypeOK, States, ApiSteps
  <2>2. aborted' \in BOOLEAN
    BY <1>55 DEF TriggerLock, TypeOK
  <2>3. QED
    BY <1>55, <2>1, <2>2 DEF TriggerLock, TypeOK
<1>56. CASE TriggerSet
  BY <1>56 DEF TriggerSet, SetTrigger, TypeOK, ApiSteps, AbortSteps
<1>57. CASE AbortLock
  BY <1>57 DEF AbortLock, TypeOK, ApiSteps, AbortSteps, States
<1>58. CASE AbortClean
  BY <1>58 DEF AbortClean, DropClient, TypeOK, ApiSteps, AbortSteps, Clients
<1>59. CASE AbortQuiet
  <2>1. tmode' \in {"off", "survey", "fixed"} /\ rtcm' \in BOOLEAN
    <3>1. CASE Fire(tmode, FALSE)
      BY <3>1 DEF Fire, Effect, TypeOK
    <3>2. CASE Fire("off", rtcm)
      BY <3>2 DEF Fire, Effect, TypeOK
    <3>3. QED
      BY <1>59, <3>1, <3>2 DEF AbortQuiet
  <2>2. api' \in ApiSteps
    BY <1>59 DEF AbortQuiet, ApiSteps, AbortSteps
  <2>3. QED
    BY <1>59, <2>1, <2>2 DEF AbortQuiet, TypeOK
<1>60. CASE AbortSet
  BY <1>60 DEF AbortSet, SetTrigger, TypeOK, ApiSteps, AbortSteps
<1>61. CASE StopSet
  BY <1>61 DEF StopSet, SetTrigger, TypeOK, ApiSteps, AbortSteps
<1>62. CASE StopJoin
  BY <1>62 DEF StopJoin, TypeOK, ApiSteps, AbortSteps
<1>63. CASE StopClean
  BY <1>63 DEF StopClean, DropClient, TypeOK, ApiSteps, AbortSteps, Clients
<1>64. CASE StartRoute
  BY <1>64 DEF StartRoute, Serve, TypeOK, ApiSteps, AbortSteps
<1>65. CASE StopRoute
  BY <1>65 DEF StopRoute, Serve, TypeOK, ApiSteps, AbortSteps
<1>66. CASE ConfigRoute
  BY <1>66, NtripChoicesAssumption DEF ConfigRoute, Serve, SaveConfig,
     TypeOK, ApiSteps, AbortSteps
<1>67. CASE EnableRoute
  BY <1>67 DEF EnableRoute, FlagRoute, Serve, SaveConfig, TypeOK, ApiSteps,
     AbortSteps
<1>68. CASE DisableRoute
  <2>1. enabled' \in BOOLEAN
    BY <1>68 DEF DisableRoute, FlagRoute
  <2>2. api' \in ApiSteps
    BY <1>68 DEF DisableRoute, FlagRoute, Serve, SaveConfig, ApiSteps, AbortSteps
  <2>3. QED
    BY <1>68, <2>1, <2>2 DEF DisableRoute, FlagRoute, TypeOK
<1>69. CASE NtripRoute
  BY <1>69 DEF NtripRoute, Serve, TypeOK, ApiSteps, AbortSteps, Clients
<1>70. CASE DeletePosition
  <2>1. savedPos' \in BOOLEAN
    BY <1>70 DEF DeletePosition
  <2>2. api' \in ApiSteps
    BY <1>70 DEF DeletePosition, Serve, ApiSteps
  <2>3. QED
    BY <1>70, <2>1, <2>2 DEF DeletePosition, TypeOK
<1>71. CASE Shutdown
  BY <1>71 DEF Shutdown, Serve, TypeOK, ApiSteps, AbortSteps
<1>72. CASE SerialChanges
  BY <1>72, LinksAssumption DEF SerialChanges, TypeOK
<1>73. CASE SurveyCompletes
  BY <1>73 DEF SurveyCompletes, TypeOK
<1>74. CASE ClientChanges
  BY <1>74 DEF ClientChanges, Clients, TypeOK
<1>75. CASE UNCHANGED vars
  BY <1>75 DEF vars, TypeOK
<1>76. QED
  BY <1>1, <1>2, <1>3, <1>4, <1>5, <1>6, <1>7, <1>8, <1>9, <1>10, <1>11,
     <1>12, <1>13, <1>14, <1>15, <1>16, <1>17, <1>18, <1>19, <1>20, <1>21,
     <1>22, <1>23, <1>24, <1>25, <1>26, <1>27, <1>28, <1>29, <1>30, <1>31,
     <1>32, <1>33, <1>34, <1>35, <1>36, <1>37, <1>38, <1>39, <1>40, <1>41,
     <1>42, <1>43, <1>44, <1>45, <1>46, <1>47, <1>48, <1>49, <1>50, <1>51,
     <1>52, <1>53, <1>54, <1>55, <1>56, <1>57, <1>58, <1>59, <1>60, <1>61,
     <1>62, <1>63, <1>64, <1>65, <1>66, <1>67, <1>68, <1>69, <1>70, <1>71,
     <1>72, <1>73, <1>74, <1>75 DEF Next, Orchestrator, RunLoop, Execute,
     ApiContinue, ApiCall, Environment, Terminated

\* The program stays within its types: in particular no step of _run_loop,
\* _execute or the API enters AWAITING_CONFIRM.
THEOREM TypeCorrect == Spec => []TypeOK
<1>1. Init => TypeOK
  BY NtripChoicesAssumption, LinksAssumption
     DEF Init, TypeOK, Steps, LoopSteps, ApiSteps, States, Clients
<1>2. QED
  BY <1>1, TypeStep, PTL DEF Spec

-----------------------------------------------------------------------------
(* The base position                                                       *)

\* The steps of a run that has switched RTCM output on.
RtcmSteps == {"settle", "set_connect", "start_ntrip", "await", "await_log",
              "await_use", "await_done", "set_streaming", "monitor", "mon_read",
              "mon_gaveup", "mon_park", "mon_stale", "mon_flip", "mon_down",
              "mon_up", "set_ready"}

\* The steps of a run that has its fixed base position.
BaseSteps == {"set_enabling", "rtcm_on", "rtcm_on_ack"} \union RtcmSteps

\* The steps at which the state may be STREAMING: the monitor, and the loop
\* until the next run has begun.
StreamSteps == {"monitor", "mon_read", "mon_gaveup", "mon_park", "mon_stale",
                "mon_flip", "mon_down", "mon_up", "wait", "clear", "read",
                "set_waiting", "exited"}

\* What may disturb a run: a shutdown, an abort that has written IDLE and has
\* not finished, and an abort that the running thread has not overwritten.
Disturbance ==
    \/ stopEvent
    \/ api \in AbortSteps \ {"abort_lock"}
    \/ state = "IDLE" /\ pc \in RunSteps \ {"set_waiting"}

DisturbanceSeen == Disturbance => disturbed

\* What an undisturbed run has reached when it stands at a step.
RunKeepsBase ==
    ~disturbed =>
        /\ pc \in BaseSteps => tmode = "fixed"
        /\ pc \in RtcmSteps => rtcm
        /\ pc \in {"fix_saved_ack", "fix_survey_ack"} /\ reply = "ack" => tmode = "fixed"
        /\ pc = "choose_survey" /\ useSaved => tmode = "fixed"
        /\ pc = "rtcm_on_ack" /\ reply = "ack" => rtcm

StreamingWhere == state = "STREAMING" => pc \in StreamSteps

BaseInv == DisturbanceSeen /\ RunKeepsBase /\ StreamingWhere /\ StreamingHasBase

\* Every step preserves the inductive invariant behind StreamingHasBase.
LEMMA BaseStep == BaseInv /\ [Next]_vars => BaseInv'
<1> SUFFICES ASSUME BaseInv, [Next]_vars PROVE BaseInv'
  OBVIOUS
<1> USE DEF BaseInv, DisturbanceSeen, Disturbance, RunKeepsBase, StreamingWhere,
            StreamingHasBase, RtcmSteps, BaseSteps, StreamSteps, RunSteps,
            AbortSteps, shared, config, locals, receiver, history, apiFrame
<1>1. CASE Awake
  BY <1>1 DEF Awake, Goto
<1>2. CASE Exit
  BY <1>2 DEF Exit, Goto
<1>3. CASE WakeUp
  BY <1>3 DEF WakeUp, ClearTrigger, ReadState, Goto
<1>4. CASE Crash
  BY <1>4 DEF Crash, SetState
<1>5. CASE FailedCleanup
  BY <1>5 DEF FailedCleanup
<1>6. CASE RecoverWait
  BY <1>6 DEF RecoverWait, Goto
<1>7. CASE RecoverIdle
  BY <1>7 DEF RecoverIdle, SetState
<1>8. CASE RecoverLock
  BY <1>8 DEF RecoverLock, AcceptTrigger, Ignoring
<1>9. CASE RecoverSet
  BY <1>9 DEF RecoverSet
<1>10. CASE BeginRun
  BY <1>10 DEF BeginRun
<1>11. CASE WaitSerial
  BY <1>11 DEF WaitSerial, Halted, Goto
<1>12. CASE RtcmOff
  BY <1>12 DEF RtcmOff, Issue, Possible, Effect
<1>13. CASE SurveyOff
  BY <1>13 DEF SurveyOff, Issue, Possible, Effect
<1>14. CASE PhaseOneAck
  BY <1>14 DEF PhaseOneAck, Answered
<1>15. CASE ClearSurvey
  BY <1>15 DEF ClearSurvey, Halted
<1>16. CASE SetChecking
  BY <1>16 DEF SetChecking, SetState
<1>17. CASE LoadPosition
  BY <1>17 DEF LoadPosition
<1>18. CASE ChooseSaved
  BY <1>18 DEF ChooseSaved, Halted, Goto
<1>19. CASE SetApply
  BY <1>19 DEF SetApply, SetState
<1>20. CASE FixSaved
  BY <1>20 DEF FixSaved, Issue, Possible, Effect
<1>21. CASE FixSavedAck
  BY <1>21 DEF FixSavedAck, Answered
<1>22. CASE ChooseSurvey
  BY <1>22 DEF ChooseSurvey, Halted, Goto
<1>23. CASE SetSurvey
  BY <1>23 DEF SetSurvey, SetState
<1>24. CASE SurveyOn
  BY <1>24 DEF SurveyOn, Issue, Possible, Effect
<1>25. CASE SurveyOnAck
  BY <1>25 DEF SurveyOnAck, Required, Answered
<1>26. CASE Poll
  BY <1>26 DEF Poll, Halted, Goto, SetState
<1>27. CASE RestartOff
  BY <1>27 DEF RestartOff, Issue, Possible, Effect
<1>28. CASE RestartOffAck
  BY <1>28 DEF RestartOffAck, Answered
<1>29. CASE RestartOn
  BY <1>29 DEF RestartOn, Issue, Possible, Effect
<1>30. CASE RestartOnAck
  BY <1>30 DEF RestartOnAck, Required, Answered
<1>31. CASE SurveyDone
  BY <1>31 DEF SurveyDone, Halted, Goto
<1>32. CASE FixSurvey
  BY <1>32 DEF FixSurvey, Issue, Possible, Effect
<1>33. CASE FixSurveyAck
  BY <1>33 DEF FixSurveyAck, Required, Answered
<1>34. CASE SetEnabling
  BY <1>34 DEF SetEnabling, SetState
<1>35. CASE RtcmOn
  BY <1>35 DEF RtcmOn, Issue, Possible, Effect
<1>36. CASE RtcmOnAck
  BY <1>36 DEF RtcmOnAck, Required, Answered
<1>37. CASE Settle
  BY <1>37 DEF Settle, Halted, Goto
<1>38. CASE SetReady
  BY <1>38 DEF SetReady, SetState
<1>39. CASE SetConnect
  BY <1>39 DEF SetConnect, SetState
<1>40. CASE StartNtrip
  BY <1>40 DEF StartNtrip
<1>41. CASE AwaitNtrip
  BY <1>41 DEF AwaitNtrip, Halted, Goto
<1>42. CASE AwaitLog
  BY <1>42 DEF AwaitLog, Goto
<1>43. CASE AwaitUse
  BY <1>43 DEF AwaitUse, Goto
<1>44. CASE AwaitDone
  BY <1>44 DEF AwaitDone, Halted, Goto
<1>45. CASE SetStreaming
  BY <1>45 DEF SetStreaming, SetState
<1>46. CASE Monitor
  BY <1>46 DEF Monitor, Halted, Goto
<1>47. CASE MonitorRead
  BY <1>47 DEF MonitorRead
<1>48. CASE MonitorGaveUp
  BY <1>48 DEF MonitorGaveUp, Goto
<1>49. CASE MonitorPark
  BY <1>49 DEF MonitorPark, SetState
<1>50. CASE MonitorStale
  BY <1>50 DEF MonitorStale
<1>51. CASE MonitorFlip
  BY <1>51 DEF MonitorFlip, SnapUp
<1>52. CASE MonitorDown
  BY <1>52 DEF MonitorDown, SetState
<1>53. CASE MonitorUp
  BY <1>53 DEF MonitorUp, SetState
<1>54. CASE Boot
  BY <1>54 DEF Boot
<1>55. CASE TriggerLock
  BY <1>55 DEF TriggerLock, AcceptTrigger, Ignoring
<1>56. CASE TriggerSet
  BY <1>56 DEF TriggerSet, SetTrigger
<1>57. CASE AbortLock
  BY <1>57 DEF AbortLock
<1>58. CASE AbortClean
  BY <1>58 DEF AbortClean, DropClient
<1>59. CASE AbortQuiet
  BY <1>59 DEF AbortQuiet, Fire, Possible, Effect
<1>60. CASE AbortSet
  BY <1>60 DEF AbortSet, SetTrigger
<1>61. CASE StopSet
  BY <1>61 DEF StopSet, SetTrigger
<1>62. CASE StopJoin
  BY <1>62 DEF StopJoin
<1>63. CASE StopClean
  BY <1>63 DEF StopClean, DropClient
<1>64. CASE StartRoute
  BY <1>64 DEF StartRoute, Serve
<1>65. CASE StopRoute
  BY <1>65 DEF StopRoute, Serve
<1>66. CASE ConfigRoute
  BY <1>66 DEF ConfigRoute, Serve, SaveConfig
<1>67. CASE EnableRoute
  BY <1>67 DEF EnableRoute, FlagRoute, Serve, SaveConfig
<1>68. CASE DisableRoute
  BY <1>68 DEF DisableRoute, FlagRoute, Serve, SaveConfig
<1>69. CASE NtripRoute
  BY <1>69 DEF NtripRoute, Serve
<1>70. CASE DeletePosition
  BY <1>70 DEF DeletePosition, Serve
<1>71. CASE Shutdown
  BY <1>71 DEF Shutdown, Serve
<1>72. CASE SerialChanges
  BY <1>72 DEF SerialChanges
<1>73. CASE SurveyCompletes
  BY <1>73 DEF SurveyCompletes
<1>74. CASE ClientChanges
  BY <1>74 DEF ClientChanges, Clients
<1>75. CASE UNCHANGED vars
  BY <1>75 DEF vars
<1>76. QED
  BY <1>1, <1>2, <1>3, <1>4, <1>5, <1>6, <1>7, <1>8, <1>9, <1>10, <1>11,
     <1>12, <1>13, <1>14, <1>15, <1>16, <1>17, <1>18, <1>19, <1>20, <1>21,
     <1>22, <1>23, <1>24, <1>25, <1>26, <1>27, <1>28, <1>29, <1>30, <1>31,
     <1>32, <1>33, <1>34, <1>35, <1>36, <1>37, <1>38, <1>39, <1>40, <1>41,
     <1>42, <1>43, <1>44, <1>45, <1>46, <1>47, <1>48, <1>49, <1>50, <1>51,
     <1>52, <1>53, <1>54, <1>55, <1>56, <1>57, <1>58, <1>59, <1>60, <1>61,
     <1>62, <1>63, <1>64, <1>65, <1>66, <1>67, <1>68, <1>69, <1>70, <1>71,
     <1>72, <1>73, <1>74, <1>75 DEF Next, Orchestrator, RunLoop, Execute,
     ApiContinue, ApiCall, Environment, Terminated

\* Whatever the receiver answers and whatever the API calls are, a STREAMING
\* station whose run was not disturbed has a fixed base and sends RTCM.
THEOREM StreamingHasBaseAlways == Spec => []StreamingHasBase
<1>1. Init => BaseInv
  BY DEF Init, BaseInv, DisturbanceSeen, Disturbance, RunKeepsBase,
         StreamingWhere, StreamingHasBase, RtcmSteps, BaseSteps, RunSteps,
         AbortSteps
<1>2. BaseInv => StreamingHasBase
  BY DEF BaseInv
<1>3. QED
  BY <1>1, <1>2, BaseStep, PTL DEF Spec

-----------------------------------------------------------------------------
(* Triggers                                                                *)

\* start() is called once, before any other call: until then the thread has
\* not started, the state is IDLE and nobody has asked it to stop.
BootFirst ==
    /\ pc = "unstarted" <=> api = "boot"
    /\ api = "boot" => state = "IDLE" /\ ~stopEvent

\* When the exception handler calls trigger_run, the trigger is not ignored.
RecoveryAccepted == pc = "recover_lock" => state \notin Ignoring

TriggerInv == TriggerNotLost /\ BootFirst /\ RecoveryAccepted

\* Every step preserves the inductive invariant behind TriggerNotLost.
LEMMA TriggerStep == TriggerInv /\ [Next]_vars => TriggerInv'
<1> SUFFICES ASSUME TriggerInv, [Next]_vars PROVE TriggerInv'
  OBVIOUS
<1> USE DEF TriggerInv, TriggerNotLost, BootFirst, RecoveryAccepted, Ignoring,
            shared, config, locals, receiver, history, apiFrame
<1>1. CASE Awake
  BY <1>1 DEF Awake, Goto
<1>2. CASE Exit
  BY <1>2 DEF Exit, Goto
<1>3. CASE WakeUp
  BY <1>3 DEF WakeUp, ClearTrigger, ReadState, Goto
<1>4. CASE Crash
  BY <1>4 DEF Crash, SetState
<1>5. CASE FailedCleanup
  BY <1>5 DEF FailedCleanup
<1>6. CASE RecoverWait
  BY <1>6 DEF RecoverWait, Goto
<1>7. CASE RecoverIdle
  BY <1>7 DEF RecoverIdle, SetState
<1>8. CASE RecoverLock
  BY <1>8 DEF RecoverLock, AcceptTrigger, Ignoring
<1>9. CASE RecoverSet
  BY <1>9 DEF RecoverSet
<1>10. CASE BeginRun
  BY <1>10 DEF BeginRun, AbortSteps
<1>11. CASE WaitSerial
  BY <1>11 DEF WaitSerial, Halted, Goto
<1>12. CASE RtcmOff
  BY <1>12 DEF RtcmOff, Issue, Possible, Effect
<1>13. CASE SurveyOff
  BY <1>13 DEF SurveyOff, Issue, Possible, Effect
<1>14. CASE PhaseOneAck
  BY <1>14 DEF PhaseOneAck, Answered
<1>15. CASE ClearSurvey
  BY <1>15 DEF ClearSurvey, Halted
<1>16. CASE SetChecking
  BY <1>16 DEF SetChecking, SetState
<1>17. CASE LoadPosition
  BY <1>17 DEF LoadPosition
<1>18. CASE ChooseSaved
  BY <1>18 DEF ChooseSaved, Halted, Goto
<1>19. CASE SetApply
  BY <1>19 DEF SetApply, SetState
<1>20. CASE FixSaved
  BY <1>20 DEF FixSaved, Issue, Possible, Effect
<1>21. CASE FixSavedAck
  BY <1>21 DEF FixSavedAck, Answered
<1>22. CASE ChooseSurvey
  BY <1>22 DEF ChooseSurvey, Halted, Goto
<1>23. CASE SetSurvey
  BY <1>23 DEF SetSurvey, SetState
<1>24. CASE SurveyOn
  BY <1>24 DEF SurveyOn, Issue, Possible, Effect
<1>25. CASE SurveyOnAck
  BY <1>25 DEF SurveyOnAck, Required, Answered
<1>26. CASE Poll
  BY <1>26 DEF Poll, Halted, Goto, SetState
<1>27. CASE RestartOff
  BY <1>27 DEF RestartOff, Issue, Possible, Effect
<1>28. CASE RestartOffAck
  BY <1>28 DEF RestartOffAck, Answered
<1>29. CASE RestartOn
  BY <1>29 DEF RestartOn, Issue, Possible, Effect
<1>30. CASE RestartOnAck
  BY <1>30 DEF RestartOnAck, Required, Answered
<1>31. CASE SurveyDone
  BY <1>31 DEF SurveyDone, Halted, Goto
<1>32. CASE FixSurvey
  BY <1>32 DEF FixSurvey, Issue, Possible, Effect
<1>33. CASE FixSurveyAck
  BY <1>33 DEF FixSurveyAck, Required, Answered
<1>34. CASE SetEnabling
  BY <1>34 DEF SetEnabling, SetState
<1>35. CASE RtcmOn
  BY <1>35 DEF RtcmOn, Issue, Possible, Effect
<1>36. CASE RtcmOnAck
  BY <1>36 DEF RtcmOnAck, Required, Answered
<1>37. CASE Settle
  BY <1>37 DEF Settle, Halted, Goto
<1>38. CASE SetReady
  BY <1>38 DEF SetReady, SetState
<1>39. CASE SetConnect
  BY <1>39 DEF SetConnect, SetState
<1>40. CASE StartNtrip
  BY <1>40 DEF StartNtrip
<1>41. CASE AwaitNtrip
  BY <1>41 DEF AwaitNtrip, Halted, Goto
<1>42. CASE AwaitLog
  BY <1>42 DEF AwaitLog, Goto
<1>43. CASE AwaitUse
  BY <1>43 DEF AwaitUse, Goto
<1>44. CASE AwaitDone
  BY <1>44 DEF AwaitDone, Halted, Goto
<1>45. CASE SetStreaming
  BY <1>45 DEF SetStreaming, SetState
<1>46. CASE Monitor
  BY <1>46 DEF Monitor, Halted, Goto
<1>47. CASE MonitorRead
  BY <1>47 DEF MonitorRead
<1>48. CASE MonitorGaveUp
  BY <1>48 DEF MonitorGaveUp, Goto
<1>49. CASE MonitorPark
  BY <1>49 DEF MonitorPark, SetState
<1>50. CASE MonitorStale
  BY <1>50 DEF MonitorStale
<1>51. CASE MonitorFlip
  BY <1>51 DEF MonitorFlip, SnapUp
<1>52. CASE MonitorDown
  BY <1>52 DEF MonitorDown, SetState
<1>53. CASE MonitorUp
  BY <1>53 DEF MonitorUp, SetState
<1>54. CASE Boot
  BY <1>54 DEF Boot
<1>55. CASE TriggerLock
  BY <1>55 DEF TriggerLock, AcceptTrigger, Ignoring
<1>56. CASE TriggerSet
  BY <1>56 DEF TriggerSet, SetTrigger
<1>57. CASE AbortLock
  BY <1>57 DEF AbortLock
<1>58. CASE AbortClean
  BY <1>58 DEF AbortClean, DropClient
<1>59. CASE AbortQuiet
  BY <1>59 DEF AbortQuiet, Fire, Possible, Effect
<1>60. CASE AbortSet
  BY <1>60 DEF AbortSet, SetTrigger
<1>61. CASE StopSet
  BY <1>61 DEF StopSet, SetTrigger
<1>62. CASE StopJoin
  BY <1>62 DEF StopJoin
<1>63. CASE StopClean
  BY <1>63 DEF StopClean, DropClient
<1>64. CASE StartRoute
  BY <1>64 DEF StartRoute, Serve
<1>65. CASE StopRoute
  BY <1>65 DEF StopRoute, Serve
<1>66. CASE ConfigRoute
  BY <1>66 DEF ConfigRoute, Serve, SaveConfig
<1>67. CASE EnableRoute
  BY <1>67 DEF EnableRoute, FlagRoute, Serve, SaveConfig
<1>68. CASE DisableRoute
  BY <1>68 DEF DisableRoute, FlagRoute, Serve, SaveConfig
<1>69. CASE NtripRoute
  BY <1>69 DEF NtripRoute, Serve
<1>70. CASE DeletePosition
  BY <1>70 DEF DeletePosition, Serve
<1>71. CASE Shutdown
  BY <1>71 DEF Shutdown, Serve
<1>72. CASE SerialChanges
  BY <1>72 DEF SerialChanges
<1>73. CASE SurveyCompletes
  BY <1>73 DEF SurveyCompletes
<1>74. CASE ClientChanges
  BY <1>74 DEF ClientChanges, Clients
<1>75. CASE UNCHANGED vars
  BY <1>75 DEF vars
<1>76. QED
  BY <1>1, <1>2, <1>3, <1>4, <1>5, <1>6, <1>7, <1>8, <1>9, <1>10, <1>11,
     <1>12, <1>13, <1>14, <1>15, <1>16, <1>17, <1>18, <1>19, <1>20, <1>21,
     <1>22, <1>23, <1>24, <1>25, <1>26, <1>27, <1>28, <1>29, <1>30, <1>31,
     <1>32, <1>33, <1>34, <1>35, <1>36, <1>37, <1>38, <1>39, <1>40, <1>41,
     <1>42, <1>43, <1>44, <1>45, <1>46, <1>47, <1>48, <1>49, <1>50, <1>51,
     <1>52, <1>53, <1>54, <1>55, <1>56, <1>57, <1>58, <1>59, <1>60, <1>61,
     <1>62, <1>63, <1>64, <1>65, <1>66, <1>67, <1>68, <1>69, <1>70, <1>71,
     <1>72, <1>73, <1>74, <1>75 DEF Next, Orchestrator, RunLoop, Execute,
     ApiContinue, ApiCall, Environment, Terminated

\* No interleaving of trigger_run, abort, stop and the exception handler with
\* the clearing of the event and the reading of the state loses a trigger.
THEOREM TriggerNotLostAlways == Spec => []TriggerNotLost
<1>1. Init => TriggerInv
  BY DEF Init, TriggerInv, TriggerNotLost, BootFirst, RecoveryAccepted, Ignoring
<1>2. TriggerInv => TriggerNotLost
  BY DEF TriggerInv
<1>3. QED
  BY <1>1, <1>2, TriggerStep, PTL DEF Spec

\* The exception handler's own trigger_run never finds a state in which it is
\* ignored, so a run that crashed always asks for the next one.
THEOREM RecoveryAcceptedAlways == Spec => [](pc = "recover_lock" => state \notin Ignoring)
<1>1. Init => TriggerInv
  BY DEF Init, TriggerInv, TriggerNotLost, BootFirst, RecoveryAccepted, Ignoring
<1>2. TriggerInv => (pc = "recover_lock" => state \notin Ignoring)
  BY DEF TriggerInv, RecoveryAccepted
<1>3. QED
  BY <1>1, <1>2, TriggerStep, PTL DEF Spec

-----------------------------------------------------------------------------
(* The state machine                                                       *)

\* The state an undisturbed orchestrator shows at each of its steps, and that
\* whoever has asked for a run finds one asked for.
StateWhere ==
    ~disturbed =>
        /\ pc \in {"serial", "rtcm_off", "rtcm_off_ack", "survey_off", "survey_off_ack",
                   "clear_survey", "set_checking", "recover_set"}
               => state = "WAITING_SERIAL"
        /\ pc \in {"load", "choose", "set_apply"}
               => state \in {"WAITING_SERIAL", "CHECKING_POSITION"}
        /\ pc \in {"fix_saved", "fix_saved_ack"}
               => state \in {"WAITING_SERIAL", "APPLY_FIXED_BASE"}
        /\ pc \in {"choose_survey", "set_survey"}
               => state \in {"WAITING_SERIAL", "CHECKING_POSITION", "APPLY_FIXED_BASE"}
        /\ pc = "choose_survey" /\ useSaved => state \in {"WAITING_SERIAL", "APPLY_FIXED_BASE"}
        /\ pc \in {"survey_on", "survey_on_ack", "poll", "restart_off", "restart_off_ack",
                   "restart_on", "restart_on_ack", "survey_done", "fix_survey", "fix_survey_ack"}
               => state = "SURVEY"
        /\ pc = "set_enabling" => state \in {"WAITING_SERIAL", "APPLY_FIXED_BASE", "SURVEY"}
        /\ pc \in {"rtcm_on", "rtcm_on_ack", "settle", "set_connect", "set_ready"}
               => state = "ENABLING_RTCM"
        /\ pc \in {"start_ntrip", "await", "await_log", "await_use", "await_done",
                   "set_streaming", "mon_up", "crashed"}
               => state = "NTRIP_CONNECT"
        /\ pc \in {"mon_park", "mon_down"} => state = "STREAMING"
        /\ pc \in {"monitor", "mon_read", "mon_gaveup", "mon_stale", "mon_flip"}
               => state \in {"NTRIP_CONNECT", "STREAMING"}
        /\ pc \in {"failed_cleanup", "recover_wait", "recover_idle"}
               => state \in {"WAITING_SERIAL", "FAILED"}
        /\ pc = "recover_lock" => state \in {"IDLE", "WAITING_SERIAL"}
        /\ pc \in {"clear", "read", "set_waiting"}
               => state \in {"WAITING_SERIAL", "STREAMING", "FAILED"}
        /\ pc \in {"unstarted", "wait"}
               => state \in {"IDLE", "WAITING_SERIAL", "STREAMING", "FAILED"}
        /\ triggerEvent \/ api = "trig_set" => state # "IDLE" \/ pc = "recover_lock"
        /\ pc # "exited"

\* A shutdown begins with the stop event.
StopStands == api \in {"stop_set", "stop_join", "stop_clean", "down"} => stopEvent

StationInv == BaseInv /\ TriggerInv /\ StopStands /\ StateWhere

\* Every step of the two threads shows the state that belongs to it.
LEMMA WhereStep == StationInv /\ [Next]_vars => StopStands' /\ StateWhere'
<1> SUFFICES ASSUME StationInv, [Next]_vars PROVE StopStands' /\ StateWhere'
  OBVIOUS
<1> USE DEF StationInv, StopStands, StateWhere, TriggerInv, BootFirst,
            BaseInv, DisturbanceSeen, Disturbance, RunSteps,
            AbortSteps, shared, config, locals, receiver, history, apiFrame
<1>1. CASE Awake
  BY <1>1 DEF Awake, Goto
<1>2. CASE Exit
  BY <1>2 DEF Exit, Goto
<1>3. CASE WakeUp
  BY <1>3 DEF WakeUp, ClearTrigger, ReadState, Goto
<1>4. CASE Crash
  BY <1>4 DEF Crash, SetState
<1>5. CASE FailedCleanup
  BY <1>5 DEF FailedCleanup
<1>6. CASE RecoverWait
  BY <1>6 DEF RecoverWait, Goto
<1>7. CASE RecoverIdle
  BY <1>7 DEF RecoverIdle, SetState
<1>8. CASE RecoverLock
  BY <1>8 DEF RecoverLock, AcceptTrigger, Ignoring
<1>9. CASE RecoverSet
  BY <1>9 DEF RecoverSet
<1>10. CASE BeginRun
  BY <1>10 DEF BeginRun
<1>11. CASE WaitSerial
  BY <1>11 DEF WaitSerial, Halted, Goto
<1>12. CASE RtcmOff
  BY <1>12 DEF RtcmOff, Issue, Possible, Effect
<1>13. CASE SurveyOff
  BY <1>13 DEF SurveyOff, Issue, Possible, Effect
<1>14. CASE PhaseOneAck
  BY <1>14 DEF PhaseOneAck, Answered
<1>15. CASE ClearSurvey
  BY <1>15 DEF ClearSurvey, Halted
<1>16. CASE SetChecking
  BY <1>16 DEF SetChecking, SetState
<1>17. CASE LoadPosition
  BY <1>17 DEF LoadPosition
<1>18. CASE ChooseSaved
  BY <1>18 DEF ChooseSaved, Halted, Goto
<1>19. CASE SetApply
  BY <1>19 DEF SetApply, SetState
<1>20. CASE FixSaved
  BY <1>20 DEF FixSaved, Issue, Possible, Effect
<1>21. CASE FixSavedAck
  BY <1>21 DEF FixSavedAck, Answered
<1>22. CASE ChooseSurvey
  BY <1>22 DEF ChooseSurvey, Halted, Goto
<1>23. CASE SetSurvey
  BY <1>23 DEF SetSurvey, SetState
<1>24. CASE SurveyOn
  BY <1>24 DEF SurveyOn, Issue, Possible, Effect
<1>25. CASE SurveyOnAck
  BY <1>25 DEF SurveyOnAck, Required, Answered
<1>26. CASE Poll
  BY <1>26 DEF Poll, Halted, Goto, SetState
<1>27. CASE RestartOff
  BY <1>27 DEF RestartOff, Issue, Possible, Effect
<1>28. CASE RestartOffAck
  BY <1>28 DEF RestartOffAck, Answered
<1>29. CASE RestartOn
  BY <1>29 DEF RestartOn, Issue, Possible, Effect
<1>30. CASE RestartOnAck
  BY <1>30 DEF RestartOnAck, Required, Answered
<1>31. CASE SurveyDone
  BY <1>31 DEF SurveyDone, Halted, Goto
<1>32. CASE FixSurvey
  BY <1>32 DEF FixSurvey, Issue, Possible, Effect
<1>33. CASE FixSurveyAck
  BY <1>33 DEF FixSurveyAck, Required, Answered
<1>34. CASE SetEnabling
  BY <1>34 DEF SetEnabling, SetState
<1>35. CASE RtcmOn
  BY <1>35 DEF RtcmOn, Issue, Possible, Effect
<1>36. CASE RtcmOnAck
  BY <1>36 DEF RtcmOnAck, Required, Answered
<1>37. CASE Settle
  BY <1>37 DEF Settle, Halted, Goto
<1>38. CASE SetReady
  BY <1>38 DEF SetReady, SetState
<1>39. CASE SetConnect
  BY <1>39 DEF SetConnect, SetState
<1>40. CASE StartNtrip
  BY <1>40 DEF StartNtrip
<1>41. CASE AwaitNtrip
  BY <1>41 DEF AwaitNtrip, Halted, Goto
<1>42. CASE AwaitLog
  BY <1>42 DEF AwaitLog, Goto
<1>43. CASE AwaitUse
  BY <1>43 DEF AwaitUse, Goto
<1>44. CASE AwaitDone
  BY <1>44 DEF AwaitDone, Halted, Goto
<1>45. CASE SetStreaming
  BY <1>45 DEF SetStreaming, SetState
<1>46. CASE Monitor
  BY <1>46 DEF Monitor, Halted, Goto
<1>47. CASE MonitorRead
  BY <1>47 DEF MonitorRead
<1>48. CASE MonitorGaveUp
  BY <1>48 DEF MonitorGaveUp, Goto
<1>49. CASE MonitorPark
  BY <1>49 DEF MonitorPark, SetState
<1>50. CASE MonitorStale
  BY <1>50 DEF MonitorStale
<1>51. CASE MonitorFlip
  BY <1>51 DEF MonitorFlip, SnapUp
<1>52. CASE MonitorDown
  BY <1>52 DEF MonitorDown, SetState
<1>53. CASE MonitorUp
  BY <1>53 DEF MonitorUp, SetState
<1>54. CASE Boot
  BY <1>54 DEF Boot
<1>55. CASE TriggerLock
  BY <1>55 DEF TriggerLock, AcceptTrigger, Ignoring
<1>56. CASE TriggerSet
  BY <1>56 DEF TriggerSet, SetTrigger
<1>57. CASE AbortLock
  BY <1>57 DEF AbortLock
<1>58. CASE AbortClean
  BY <1>58 DEF AbortClean, DropClient
<1>59. CASE AbortQuiet
  BY <1>59 DEF AbortQuiet, Fire, Possible, Effect
<1>60. CASE AbortSet
  BY <1>60 DEF AbortSet, SetTrigger
<1>61. CASE StopSet
  BY <1>61 DEF StopSet, SetTrigger
<1>62. CASE StopJoin
  BY <1>62 DEF StopJoin
<1>63. CASE StopClean
  BY <1>63 DEF StopClean, DropClient
<1>64. CASE StartRoute
  BY <1>64 DEF StartRoute, Serve
<1>65. CASE StopRoute
  BY <1>65 DEF StopRoute, Serve
<1>66. CASE ConfigRoute
  BY <1>66 DEF ConfigRoute, Serve, SaveConfig
<1>67. CASE EnableRoute
  BY <1>67 DEF EnableRoute, FlagRoute, Serve, SaveConfig
<1>68. CASE DisableRoute
  BY <1>68 DEF DisableRoute, FlagRoute, Serve, SaveConfig
<1>69. CASE NtripRoute
  BY <1>69 DEF NtripRoute, Serve
<1>70. CASE DeletePosition
  BY <1>70 DEF DeletePosition, Serve
<1>71. CASE Shutdown
  BY <1>71 DEF Shutdown, Serve
<1>72. CASE SerialChanges
  BY <1>72 DEF SerialChanges
<1>73. CASE SurveyCompletes
  BY <1>73 DEF SurveyCompletes
<1>74. CASE ClientChanges
  BY <1>74 DEF ClientChanges, Clients
<1>75. CASE UNCHANGED vars
  BY <1>75 DEF vars
<1>76. QED
  BY <1>1, <1>2, <1>3, <1>4, <1>5, <1>6, <1>7, <1>8, <1>9, <1>10, <1>11,
     <1>12, <1>13, <1>14, <1>15, <1>16, <1>17, <1>18, <1>19, <1>20, <1>21,
     <1>22, <1>23, <1>24, <1>25, <1>26, <1>27, <1>28, <1>29, <1>30, <1>31,
     <1>32, <1>33, <1>34, <1>35, <1>36, <1>37, <1>38, <1>39, <1>40, <1>41,
     <1>42, <1>43, <1>44, <1>45, <1>46, <1>47, <1>48, <1>49, <1>50, <1>51,
     <1>52, <1>53, <1>54, <1>55, <1>56, <1>57, <1>58, <1>59, <1>60, <1>61,
     <1>62, <1>63, <1>64, <1>65, <1>66, <1>67, <1>68, <1>69, <1>70, <1>71,
     <1>72, <1>73, <1>74, <1>75 DEF Next, Orchestrator, RunLoop, Execute,
     ApiContinue, ApiCall, Environment, Terminated

-----------------------------------------------------------------------------
(* The promise of BaseStation                                              *)

\* A step of the orchestrator as a step of the station.
StationStep == [Station!Next]_<<state, Station!receiver, Asked, disturbed>>

AskSteps == {"clear", "read", "set_waiting", "recover_set"}

\* What the operator cannot see.
Unseen ==
    /\ UNCHANGED <<state, triggerEvent, tmode, rtcm, disturbed>>
    /\ api' = "trig_set" <=> api = "trig_set"
    /\ pc' \in AskSteps <=> pc \in AskSteps

\* A request stands as long as nobody is about to make or take it.
LEMMA StaysAsked ==
    ASSUME UNCHANGED triggerEvent,
           api' = "trig_set" <=> api = "trig_set",
           pc' \in AskSteps <=> pc \in AskSteps
    PROVE  Asked' = Asked
BY DEF Asked, AskSteps

\* Then nothing shows.
LEMMA UnseenStep == Unseen => StationStep
<1> SUFFICES ASSUME Unseen PROVE StationStep
  OBVIOUS
<1>1. Asked' = Asked
  BY StaysAsked DEF Unseen
<1>2. QED
  BY <1>1 DEF Unseen, StationStep, Station!receiver

\* A step of a run that nobody promises anything about.
LEMMA DisturbedStep == disturbed /\ UNCHANGED disturbed => StationStep
BY DEF StationStep, Station!Next, Station!Disturbed

\* A step that shows another state, and does nothing else to be seen.
LEMMA ShownStep ==
    ASSUME NEW from, NEW new, NEW to, SetState(from, new, to),
           from \notin AskSteps, to \notin AskSteps
    PROVE  /\ UNCHANGED <<Station!receiver, Asked, disturbed>>
           /\ state' = new /\ pc = from
<1>1. UNCHANGED <<triggerEvent, api, tmode, rtcm, disturbed>> /\ pc = from /\ pc' = to
      /\ state' = new
  BY DEF SetState, receiver, history
<1>2. Asked' = Asked
  BY <1>1, StaysAsked
<1>3. QED
  BY <1>1, <1>2 DEF Station!receiver

\* A command shows in the receiver only.
LEMMA CommandStep ==
    ASSUME NEW from, NEW t, NEW r, NEW to, Issue(from, t, r, to),
           from \notin AskSteps, to \notin AskSteps
    PROVE  /\ UNCHANGED <<state, Asked, disturbed>> /\ pc = from
           /\ \/ tmode' = t /\ rtcm' = r
              \/ UNCHANGED <<tmode, rtcm>>
<1>1. UNCHANGED <<state, triggerEvent, api, disturbed>> /\ pc = from /\ pc' = to
  BY DEF Issue, shared, history
<1>2. Asked' = Asked
  BY <1>1, StaysAsked
<1>3. QED
  BY <1>1, <1>2 DEF Issue, Effect

\* The steps of the two threads and of the environment that show in nothing.
LEMMA QuietSteps ==
    ASSUME FailedCleanup \/ RecoverWait \/ WaitSerial \/ PhaseOneAck
           \/ ClearSurvey \/ LoadPosition \/ ChooseSaved \/ FixSavedAck
           \/ ChooseSurvey \/ RestartOffAck \/ SurveyDone \/ Settle
           \/ StartNtrip \/ AwaitNtrip \/ AwaitLog \/ AwaitUse \/ AwaitDone
           \/ Monitor \/ MonitorRead \/ MonitorGaveUp \/ MonitorStale
           \/ MonitorFlip \/ AbortClean \/ StopJoin \/ StopClean
           \/ StartRoute \/ StopRoute \/ ConfigRoute \/ EnableRoute
           \/ DisableRoute \/ NtripRoute \/ DeletePosition \/ SerialChanges
           \/ SurveyCompletes \/ ClientChanges
    PROVE  Unseen
<1> USE DEF Unseen, AskSteps, shared, config, locals, receiver, history,
            apiFrame, Goto
<1>1. CASE FailedCleanup
  BY <1>1 DEF FailedCleanup
<1>2. CASE RecoverWait
  BY <1>2 DEF RecoverWait
<1>3. CASE WaitSerial
  BY <1>3 DEF WaitSerial
<1>4. CASE PhaseOneAck
  BY <1>4 DEF PhaseOneAck, Answered
<1>5. CASE ClearSurvey
  BY <1>5 DEF ClearSurvey
<1>6. CASE LoadPosition
  BY <1>6 DEF LoadPosition
<1>7. CASE ChooseSaved
  BY <1>7 DEF ChooseSaved
<1>8. CASE FixSavedAck
  BY <1>8 DEF FixSavedAck, Answered
<1>9. CASE ChooseSurvey
  BY <1>9 DEF ChooseSurvey
<1>10. CASE RestartOffAck
  BY <1>10 DEF RestartOffAck, Answered
<1>11. CASE SurveyDone
  BY <1>11 DEF SurveyDone
<1>12. CASE Settle
  BY <1>12 DEF Settle
<1>13. CASE StartNtrip
  BY <1>13 DEF StartNtrip
<1>14. CASE AwaitNtrip
  BY <1>14 DEF AwaitNtrip
<1>15. CASE AwaitLog
  BY <1>15 DEF AwaitLog
<1>16. CASE AwaitUse
  BY <1>16 DEF AwaitUse
<1>17. CASE AwaitDone
  BY <1>17 DEF AwaitDone
<1>18. CASE Monitor
  BY <1>18 DEF Monitor
<1>19. CASE MonitorRead
  BY <1>19 DEF MonitorRead
<1>20. CASE MonitorGaveUp
  BY <1>20 DEF MonitorGaveUp
<1>21. CASE MonitorStale
  BY <1>21 DEF MonitorStale
<1>22. CASE MonitorFlip
  BY <1>22 DEF MonitorFlip, SnapUp
<1>23. CASE AbortClean
  BY <1>23 DEF AbortClean, DropClient
<1>24. CASE StopJoin
  BY <1>24 DEF StopJoin
<1>25. CASE StopClean
  BY <1>25 DEF StopClean, DropClient
<1>26. CASE StartRoute
  BY <1>26 DEF StartRoute, Serve
<1>27. CASE StopRoute
  BY <1>27 DEF StopRoute, Serve
<1>28. CASE ConfigRoute
  BY <1>28 DEF ConfigRoute, Serve, SaveConfig
<1>29. CASE EnableRoute
  BY <1>29 DEF EnableRoute, FlagRoute, Serve, SaveConfig
<1>30. CASE DisableRoute
  BY <1>30 DEF DisableRoute, FlagRoute, Serve, SaveConfig
<1>31. CASE NtripRoute
  BY <1>31 DEF NtripRoute, Serve
<1>32. CASE DeletePosition
  BY <1>32 DEF DeletePosition, Serve
<1>33. CASE SerialChanges
  BY <1>33 DEF SerialChanges
<1>34. CASE SurveyCompletes
  BY <1>34 DEF SurveyCompletes
<1>35. CASE ClientChanges
  BY <1>35 DEF ClientChanges
<1>36. QED
  BY <1>1, <1>2, <1>3, <1>4, <1>5, <1>6, <1>7, <1>8, <1>9, <1>10, <1>11,
     <1>12, <1>13, <1>14, <1>15, <1>16, <1>17, <1>18, <1>19, <1>20, <1>21,
     <1>22, <1>23, <1>24, <1>25, <1>26, <1>27, <1>28, <1>29, <1>30, <1>31,
     <1>32, <1>33, <1>34, <1>35

\* An undisturbed run shows the states in order, STREAMING for a fixed base that
\* sends RTCM only.
LEMMA ShowSteps ==
    ASSUME StationInv,
           Crash \/ RecoverIdle \/ SetChecking \/ SetApply \/ SetSurvey
           \/ SetEnabling \/ SetReady \/ SetConnect \/ SetStreaming
           \/ MonitorPark \/ MonitorDown \/ MonitorUp
    PROVE  StationStep
<1>1. CASE disturbed
  <2>1. UNCHANGED disturbed
    BY DEF Crash, RecoverIdle, SetChecking, SetApply, SetSurvey, SetEnabling,
       SetReady, SetConnect, SetStreaming, MonitorPark, MonitorDown,
       MonitorUp, SetState, history
  <2>2. QED
    BY <1>1, <2>1, DisturbedStep
<1>2. CASE ~disturbed
  <2> USE <1>2 DEF StationInv, StateWhere, AskSteps
  <2> SUFFICES Station!Next
    BY DEF StationStep
  <2>1. CASE Crash
    <3>1. /\ UNCHANGED <<Station!receiver, Asked, disturbed>>
          /\ state' = "FAILED" /\ pc = "crashed"
      BY <2>1, ShownStep DEF Crash
    <3>2. Station!Fail
      BY <3>1 DEF Station!Fail
    <3>3. QED BY <3>2 DEF Station!Next
  <2>2. CASE RecoverIdle
    <3>1. /\ UNCHANGED <<Station!receiver, Asked, disturbed>>
          /\ state' = "IDLE" /\ pc = "recover_idle"
      BY <2>2, ShownStep DEF RecoverIdle
    <3>2. Station!Recover
      BY <3>1 DEF Station!Recover
    <3>3. QED BY <3>2 DEF Station!Next
  <2>3. CASE SetChecking
    <3>1. /\ UNCHANGED <<Station!receiver, Asked, disturbed>>
          /\ state' = "CHECKING_POSITION" /\ pc = "set_checking"
      BY <2>3, ShownStep DEF SetChecking
    <3>2. Station!Prepare
      BY <3>1 DEF Station!Prepare
    <3>3. QED BY <3>2 DEF Station!Next
  <2>4. CASE SetApply
    <3>1. /\ UNCHANGED <<Station!receiver, Asked, disturbed>>
          /\ state' = "APPLY_FIXED_BASE" /\ pc = "set_apply"
      BY <2>4, ShownStep DEF SetApply
    <3>2. Station!Prepare
      BY <3>1 DEF Station!Prepare
    <3>3. QED BY <3>2 DEF Station!Next
  <2>5. CASE SetSurvey
    <3>1. /\ UNCHANGED <<Station!receiver, Asked, disturbed>>
          /\ state' = "SURVEY" /\ pc = "set_survey"
      BY <2>5, ShownStep DEF SetSurvey
    <3>2. Station!Prepare
      BY <3>1 DEF Station!Prepare
    <3>3. QED BY <3>2 DEF Station!Next
  <2>6. CASE SetEnabling
    <3>1. /\ UNCHANGED <<Station!receiver, Asked, disturbed>>
          /\ state' = "ENABLING_RTCM" /\ pc = "set_enabling"
      BY <2>6, ShownStep DEF SetEnabling
    <3>2. tmode = "fixed"
      BY <3>1 DEF BaseInv, RunKeepsBase, BaseSteps, RtcmSteps
    <3>3. Station!Locate
      BY <3>1, <3>2 DEF Station!Locate
    <3>4. QED BY <3>3 DEF Station!Next
  <2>7. CASE SetReady
    <3>1. /\ UNCHANGED <<Station!receiver, Asked, disturbed>>
          /\ state' = "STREAMING" /\ pc = "set_ready"
      BY <2>7, ShownStep DEF SetReady
    <3>2. tmode = "fixed" /\ rtcm
      BY <3>1 DEF BaseInv, RunKeepsBase, BaseSteps, RtcmSteps
    <3>3. Station!Serve
      BY <3>1, <3>2 DEF Station!Serve
    <3>4. QED BY <3>3 DEF Station!Next
  <2>8. CASE SetConnect
    <3>1. /\ UNCHANGED <<Station!receiver, Asked, disturbed>>
          /\ state' = "NTRIP_CONNECT" /\ pc = "set_connect"
      BY <2>8, ShownStep DEF SetConnect
    <3>2. tmode = "fixed" /\ rtcm
      BY <3>1 DEF BaseInv, RunKeepsBase, BaseSteps, RtcmSteps
    <3>3. Station!Serve
      BY <3>1, <3>2 DEF Station!Serve
    <3>4. QED BY <3>3 DEF Station!Next
  <2>9. CASE SetStreaming
    <3>1. /\ UNCHANGED <<Station!receiver, Asked, disturbed>>
          /\ state' = "STREAMING" /\ pc = "set_streaming"
      BY <2>9, ShownStep DEF SetStreaming
    <3>2. tmode = "fixed" /\ rtcm
      BY <3>1 DEF BaseInv, RunKeepsBase, BaseSteps, RtcmSteps
    <3>3. Station!Serve
      BY <3>1, <3>2 DEF Station!Serve
    <3>4. QED BY <3>3 DEF Station!Next
  <2>10. CASE MonitorPark
    <3>1. /\ UNCHANGED <<Station!receiver, Asked, disturbed>>
          /\ state' = "NTRIP_CONNECT" /\ pc = "mon_park"
      BY <2>10, ShownStep DEF MonitorPark
    <3>2. tmode = "fixed" /\ rtcm
      BY <3>1 DEF BaseInv, RunKeepsBase, BaseSteps, RtcmSteps
    <3>3. Station!Serve
      BY <3>1, <3>2 DEF Station!Serve
    <3>4. QED BY <3>3 DEF Station!Next
  <2>11. CASE MonitorDown
    <3>1. /\ UNCHANGED <<Station!receiver, Asked, disturbed>>
          /\ state' = "NTRIP_CONNECT" /\ pc = "mon_down"
      BY <2>11, ShownStep DEF MonitorDown
    <3>2. tmode = "fixed" /\ rtcm
      BY <3>1 DEF BaseInv, RunKeepsBase, BaseSteps, RtcmSteps
    <3>3. Station!Serve
      BY <3>1, <3>2 DEF Station!Serve
    <3>4. QED BY <3>3 DEF Station!Next
  <2>12. CASE MonitorUp
    <3>1. /\ UNCHANGED <<Station!receiver, Asked, disturbed>>
          /\ state' = "STREAMING" /\ pc = "mon_up"
      BY <2>12, ShownStep DEF MonitorUp
    <3>2. tmode = "fixed" /\ rtcm
      BY <3>1 DEF BaseInv, RunKeepsBase, BaseSteps, RtcmSteps
    <3>3. Station!Serve
      BY <3>1, <3>2 DEF Station!Serve
    <3>4. QED BY <3>3 DEF Station!Next
  <2>13. QED BY <2>1, <2>2, <2>3, <2>4, <2>5, <2>6, <2>7, <2>8, <2>9,
                 <2>10, <2>11, <2>12
<1>3. QED BY <1>1, <1>2

\* An undisturbed run commands the receiver where its state says so.
LEMMA CommandSteps ==
    ASSUME StationInv,
           RtcmOff \/ SurveyOff \/ FixSaved \/ SurveyOn \/ RestartOff
           \/ RestartOn \/ FixSurvey \/ RtcmOn
    PROVE  StationStep
<1>1. CASE disturbed
  <2>1. UNCHANGED disturbed
    BY DEF RtcmOff, SurveyOff, FixSaved, SurveyOn, RestartOff, RestartOn,
       FixSurvey, RtcmOn, Issue, history
  <2>2. QED
    BY <1>1, <2>1, DisturbedStep
<1>2. CASE ~disturbed
  <2> USE <1>2 DEF StationInv, StateWhere, AskSteps
  <2> SUFFICES \/ Station!Command
               \/ UNCHANGED <<state, tmode, rtcm, Asked, disturbed>>
    BY DEF StationStep, Station!Next, Station!receiver
  <2>1. CASE RtcmOff
    <3>1. /\ UNCHANGED <<state, Asked, disturbed>> /\ pc = "rtcm_off"
          /\ \/ tmode' = tmode /\ rtcm' = FALSE
             \/ UNCHANGED <<tmode, rtcm>>
      BY <2>1, CommandStep DEF RtcmOff
    <3>2. QED BY <3>1 DEF Station!Command
  <2>2. CASE SurveyOff
    <3>1. /\ UNCHANGED <<state, Asked, disturbed>> /\ pc = "survey_off"
          /\ \/ tmode' = "off" /\ rtcm' = rtcm
             \/ UNCHANGED <<tmode, rtcm>>
      BY <2>2, CommandStep DEF SurveyOff
    <3>2. QED BY <3>1 DEF Station!Command
  <2>3. CASE FixSaved
    <3>1. /\ UNCHANGED <<state, Asked, disturbed>> /\ pc = "fix_saved"
          /\ \/ tmode' = "fixed" /\ rtcm' = rtcm
             \/ UNCHANGED <<tmode, rtcm>>
      BY <2>3, CommandStep DEF FixSaved
    <3>2. QED BY <3>1 DEF Station!Command
  <2>4. CASE SurveyOn
    <3>1. /\ UNCHANGED <<state, Asked, disturbed>> /\ pc = "survey_on"
          /\ \/ tmode' = "survey" /\ rtcm' = rtcm
             \/ UNCHANGED <<tmode, rtcm>>
      BY <2>4, CommandStep DEF SurveyOn
    <3>2. QED BY <3>1 DEF Station!Command
  <2>5. CASE RestartOff
    <3>1. /\ UNCHANGED <<state, Asked, disturbed>> /\ pc = "restart_off"
          /\ \/ tmode' = "off" /\ rtcm' = rtcm
             \/ UNCHANGED <<tmode, rtcm>>
      BY <2>5, CommandStep DEF RestartOff
    <3>2. QED BY <3>1 DEF Station!Command
  <2>6. CASE RestartOn
    <3>1. /\ UNCHANGED <<state, Asked, disturbed>> /\ pc = "restart_on"
          /\ \/ tmode' = "survey" /\ rtcm' = rtcm
             \/ UNCHANGED <<tmode, rtcm>>
      BY <2>6, CommandStep DEF RestartOn
    <3>2. QED BY <3>1 DEF Station!Command
  <2>7. CASE FixSurvey
    <3>1. /\ UNCHANGED <<state, Asked, disturbed>> /\ pc = "fix_survey"
          /\ \/ tmode' = "fixed" /\ rtcm' = rtcm
             \/ UNCHANGED <<tmode, rtcm>>
      BY <2>7, CommandStep DEF FixSurvey
    <3>2. QED BY <3>1 DEF Station!Command
  <2>8. CASE RtcmOn
    <3>1. /\ UNCHANGED <<state, Asked, disturbed>> /\ pc = "rtcm_on"
          /\ \/ tmode' = tmode /\ rtcm' = TRUE
             \/ UNCHANGED <<tmode, rtcm>>
      BY <2>8, CommandStep DEF RtcmOn
    <3>2. QED BY <3>1 DEF Station!Command, BaseInv, RunKeepsBase, BaseSteps
  <2>9. QED BY <2>1, <2>2, <2>3, <2>4, <2>5, <2>6, <2>7, <2>8
<1>3. QED BY <1>1, <1>2

\* A run that lacks an ACK it needs, or a survey that does not end, fails.
LEMMA FailSteps ==
    ASSUME StationInv,
           SurveyOnAck \/ RestartOnAck \/ FixSurveyAck \/ RtcmOnAck \/ Poll
    PROVE  StationStep
<1>1. CASE disturbed
  <2>1. UNCHANGED disturbed
    BY DEF SurveyOnAck, RestartOnAck, FixSurveyAck, RtcmOnAck, Required, Poll,
       SetState, Goto, history
  <2>2. QED
    BY <1>1, <2>1, DisturbedStep
<1>2. CASE ~disturbed
  <2>1. state \in {"SURVEY", "ENABLING_RTCM"}
    BY <1>2 DEF SurveyOnAck, RestartOnAck, FixSurveyAck, RtcmOnAck, Required,
       Answered, Poll, SetState, Goto, StationInv, StateWhere
  <2>2. UNCHANGED <<triggerEvent, api, tmode, rtcm, disturbed>>
    BY DEF SurveyOnAck, RestartOnAck, FixSurveyAck, RtcmOnAck, Required, Poll,
       SetState, Goto, shared, receiver, history
  <2>3. pc \notin AskSteps /\ pc' \notin AskSteps
    BY DEF SurveyOnAck, RestartOnAck, FixSurveyAck, RtcmOnAck, Required,
       Answered, Poll, SetState, Goto, AskSteps
  <2>4. state' \in {state, "FAILED"}
    BY DEF SurveyOnAck, RestartOnAck, FixSurveyAck, RtcmOnAck, Required, Poll,
       SetState, Goto, shared
  <2>5. Asked' = Asked
    BY <2>2, <2>3, StaysAsked
  <2>6. CASE state' = "FAILED"
    <3>1. Station!Fail
      BY <2>1, <2>2, <2>5, <2>6 DEF Station!Fail, Station!receiver
    <3>2. QED BY <3>1 DEF StationStep, Station!Next
  <2>7. CASE state' = state
    BY <2>2, <2>5, <2>7 DEF StationStep, Station!receiver
  <2>8. QED BY <2>4, <2>6, <2>7
<1>3. QED BY <1>1, <1>2

\* Requests: made, on their way to a run, and answered by one.
LEMMA RequestSteps ==
    ASSUME StationInv,
           Boot \/ TriggerLock \/ TriggerSet \/ Awake \/ WakeUp \/ RecoverLock
           \/ RecoverSet \/ BeginRun
    PROVE  StationStep
<1> USE DEF shared, config, locals, receiver, history, apiFrame
<1> DEFINE same == UNCHANGED <<state, tmode, rtcm, disturbed>>
<1>1. ASSUME same, Asked, Asked' PROVE StationStep
  <2>1. Asked' = Asked
    BY <1>1 DEF Asked
  <2>2. QED BY <1>1, <2>1 DEF StationStep, Station!receiver
<1>2. CASE Boot
  <2>1. pc = "unstarted"
    BY <1>2 DEF Boot, StationInv, TriggerInv, BootFirst
  <2>2. Unseen
    BY <1>2, <2>1 DEF Boot, Unseen, AskSteps
  <2>3. QED BY <2>2, UnseenStep
<1>3. CASE TriggerLock
  <2>1. CASE AcceptTrigger /\ api' = "trig_set"
    <3>1. Asked'
      BY <2>1 DEF Asked
    <3>2. Station!Request
      <4>1. state \notin Station!Busy /\ state' = "WAITING_SERIAL"
        BY <2>1 DEF AcceptTrigger, Ignoring, Station!Busy
      <4>2. UNCHANGED <<tmode, rtcm, disturbed>>
        BY <1>3 DEF TriggerLock
      <4>3. Asked' = TRUE
        BY <3>1 DEF Asked
      <4>4. QED BY <4>1, <4>2, <4>3 DEF Station!Request, Station!receiver
    <3>3. QED BY <3>2 DEF StationStep, Station!Next
  <2>2. CASE state \in Ignoring
    <3>1. Unseen
      BY <1>3, <2>2 DEF TriggerLock, AcceptTrigger, Unseen
    <3>2. QED BY <3>1, UnseenStep
  <2>3. QED BY <1>3, <2>1, <2>2 DEF TriggerLock
<1>4. CASE TriggerSet
  BY <1>1, <1>4 DEF TriggerSet, SetTrigger, Asked
<1>5. CASE Awake
  BY <1>1, <1>5 DEF Awake, Goto, Asked
<1>6. CASE WakeUp
  <2>1. CASE ClearTrigger
    BY <1>1, <2>1 DEF ClearTrigger, Asked
  <2>2. CASE state = "IDLE" /\ Goto("read", "wait")
    <3>1. disturbed
      BY <2>2 DEF Goto, StationInv, StateWhere
    <3>2. QED BY <2>2, <3>1, DisturbedStep DEF Goto
  <2>3. CASE state # "IDLE" /\ Goto("read", "set_waiting")
    BY <1>1, <2>3 DEF Goto, Asked
  <2>4. QED BY <1>6, <2>1, <2>2, <2>3 DEF WakeUp, ReadState
<1>7. CASE RecoverLock
  <2>1. state \notin Station!Busy /\ state' = "WAITING_SERIAL"
    BY <1>7 DEF RecoverLock, AcceptTrigger, Ignoring, Station!Busy
  <2>2. Asked' = TRUE
    BY <1>7 DEF RecoverLock, Asked
  <2>3. UNCHANGED <<tmode, rtcm, disturbed>>
    BY <1>7 DEF RecoverLock
  <2>4. Station!Request
    BY <2>1, <2>2, <2>3 DEF Station!Request, Station!receiver
  <2>5. QED BY <2>4 DEF StationStep, Station!Next
<1>8. CASE RecoverSet
  BY <1>1, <1>8 DEF RecoverSet, Asked
<1>9. CASE BeginRun
  <2>1. pc = "set_waiting" /\ state' = "WAITING_SERIAL" /\ UNCHANGED <<tmode, rtcm>>
    BY <1>9 DEF BeginRun
  <2>2. Asked /\ Asked' \in BOOLEAN
    BY <2>1 DEF Asked
  <2>3. disturbed \/ state \in {"WAITING_SERIAL", "STREAMING", "FAILED"}
    BY <2>1 DEF StationInv, StateWhere
  <2>4. disturbed' \in BOOLEAN
    BY <1>9 DEF BeginRun
  <2>5. Station!Begin
    BY <2>1, <2>2, <2>3, <2>4 DEF Station!Begin, Station!receiver
  <2>6. QED BY <2>5 DEF StationStep, Station!Next
<1>10. QED BY <1>2, <1>3, <1>4, <1>5, <1>6, <1>7, <1>8, <1>9

\* An abort or a shutdown falls into the run, and what follows of it.
LEMMA DisturbSteps ==
    ASSUME StationInv,
           AbortLock \/ Shutdown \/ AbortQuiet \/ AbortSet \/ StopSet \/ Exit
    PROVE  StationStep
<1> USE DEF shared, config, locals, receiver, history, apiFrame
<1>1. CASE AbortLock \/ Shutdown
  <2>1. /\ UNCHANGED <<triggerEvent, pc, tmode, rtcm>>
        /\ disturbed' = TRUE /\ state' \in {state, "IDLE"}
        /\ api # "trig_set" /\ api' # "trig_set"
    BY <1>1 DEF AbortLock, Shutdown, Serve
  <2>2. Asked' = Asked
    BY <2>1, StaysAsked
  <2>3. Station!Disturb
    BY <2>1, <2>2 DEF Station!Disturb, Station!receiver
  <2>4. QED BY <2>3 DEF StationStep, Station!Next
<1>2. CASE AbortQuiet \/ AbortSet \/ StopSet \/ Exit
  <2>1. UNCHANGED disturbed
    BY <1>2 DEF AbortQuiet, AbortSet, StopSet, SetTrigger, Exit, Goto
  <2>2. Disturbance
    BY <1>2 DEF AbortQuiet, AbortSet, StopSet, SetTrigger, Exit, AbortSteps,
       StationInv, StopStands, Disturbance
  <2>3. disturbed
    BY <2>2 DEF StationInv, BaseInv, DisturbanceSeen
  <2>4. QED BY <2>1, <2>3, DisturbedStep
<1>3. QED BY <1>1, <1>2

\* Every step of the orchestrator is a step of the station or shows in nothing.
LEMMA NextStationStep == StationInv /\ [Next]_vars => StationStep
<1> SUFFICES ASSUME StationInv, [Next]_vars PROVE StationStep
  OBVIOUS
<1>1. CASE UNCHANGED vars
  <2>1. Unseen
    BY <1>1 DEF vars, Unseen, shared, receiver, history
  <2>2. QED BY <2>1, UnseenStep
<1>2. CASE Next
  BY <1>2, QuietSteps, UnseenStep, ShowSteps, CommandSteps, FailSteps,
     RequestSteps, DisturbSteps, <1>1
     DEF Next, Orchestrator, RunLoop, Execute, ApiContinue, ApiCall,
         Environment, Terminated
<1>3. QED BY <1>1, <1>2

\* The orchestrator implements BaseStation (autoflow.py _run_loop, _execute,
\* trigger_run, abort and stop): the order of the states, the commands they
\* allow, what STREAMING means, and that no run begins unasked, whatever the
\* receiver answers and whichever calls come when.
THEOREM ImplementsStationAlways == Spec => ImplementsStation
<1>1. Init => Station!Init
  BY DEF Init, Station!Init, Asked
<1>2. Init => StationInv
  <2>1. Init => BaseInv
    BY DEF Init, BaseInv, DisturbanceSeen, Disturbance, RunKeepsBase,
           StreamingWhere, StreamingHasBase, RtcmSteps, BaseSteps, RunSteps,
           AbortSteps
  <2>2. Init => TriggerInv
    BY DEF Init, TriggerInv, TriggerNotLost, BootFirst, RecoveryAccepted, Ignoring
  <2>3. Init => StopStands /\ StateWhere
    BY DEF Init, StopStands, StateWhere
  <2>4. QED BY <2>1, <2>2, <2>3 DEF StationInv
<1>3. StationInv /\ [Next]_vars => StationInv'
  BY BaseStep, TriggerStep, WhereStep DEF StationInv
<1>4. StationInv /\ [Next]_vars
         => [Station!Next]_<<state, Station!receiver, Asked, disturbed>>
  BY NextStationStep DEF StationStep
<1>5. QED
  BY <1>1, <1>2, <1>3, <1>4, PTL DEF Spec, ImplementsStation, Station!Spec

=============================================================================
