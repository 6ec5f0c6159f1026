--------------------------- MODULE NtripPushProofs --------------------------
(***************************************************************************)
(* Proofs about NtripPush, for every retry limit, queue size, protocol     *)
(* version and set of outcomes: the type invariant, that only frames of    *)
(* the present connection are sent, that a dead thread leaves no           *)
(* connection behind, that attempts stay within the limits of failures and *)
(* refusals, that DNS failures alone never end them, and that the client   *)
(* and its owner keep to NtripClient.                                      *)
(***************************************************************************)
EXTENDS NtripPush, TLAPS

-----------------------------------------------------------------------------
(* Type correctness                                                        *)

\* No step overfills the queue: only put_rtcm adds to it, and closing the
\* socket moves frames from live to late.
LEMMA QueueStep == QueueOK /\ [Next]_vars => QueueOK'
<1> SUFFICES ASSUME QueueOK, [Next]_vars PROVE QueueOK'
  OBVIOUS
<1> USE DEF queue
<1>1. CASE UNCHANGED queue
  BY <1>1 DEF QueueOK
<1>2. CASE CloseSock
  BY <1>2 DEF CloseSock, QueueOK
<1>3. CASE ClearQueue
  BY <1>3, QueueMaxAssumption DEF ClearQueue, QueueOK
<1>4. CASE TakeFrame
  <2>1. CASE late > 0 /\ late' = late - 1 /\ live' = live
    BY <2>1, QueueMaxAssumption DEF QueueOK
  <2>2. CASE late = 0 /\ live > 0 /\ live' = live - 1 /\ late' = late
    BY <2>2, QueueMaxAssumption DEF QueueOK
  <2>3. QED
    BY <1>4, <2>1, <2>2 DEF TakeFrame
<1>5. CASE PutRtcm
  BY <1>5, QueueMaxAssumption DEF PutRtcm, QueueOK
<1>6. UNCHANGED queue \/ CloseSock \/ ClearQueue \/ TakeFrame \/ PutRtcm
  BY DEF Next, PushThread, Connect, PushLoop, Recover, OwnerContinues, Top,
     Open, VersionFails, Handshake, SetConnected, NotifyConnected,
     ResetCounts, PushTest, Goto, Drain, TakeTimeout, SendOk, SendFails,
     SocketGone, Caught, Close, Told, Retry, StartCooldown, PauseEnds,
     CooldownStops, CooldownEnds, ThreadDies, FirstStart, StopSet, StopJoin,
     StopClose, StopTold, RestartUnset, RestartForgive, RestartStart, Mirror,
     Decide, flags, counts, local, owners, clientFrame, vars
<1>7. QED
  BY <1>1, <1>2, <1>3, <1>4, <1>5, <1>6

\* A version that failed leaves the other fields within their types.
LEMMA VersionFailsType ==
    ASSUME NEW kind \in Fault, FieldsOK, VersionFails(kind)
    PROVE  FieldsOK'
<1> USE DEF flags, counts, queue, local, owners
<1>1. faults' \subseteq Fault /\ trying' \in 1 .. 2
  BY DEF VersionFails, FieldsOK
<1>2. sock' \in BOOLEAN
  BY DEF VersionFails, CloseSock
<1>3. pc' \in Alive
  BY DEF VersionFails, Alive
<1>4. UNCHANGED <<stopEvent, connected, flags, counts, version, why, frame,
                  wasUp, owners, mirror, onlyDns>>
  BY DEF VersionFails
<1>5. QED
  BY <1>1, <1>2, <1>3, <1>4 DEF FieldsOK

\* Every step of the three threads keeps the types of the other fields.
LEMMA FieldsStep == FieldsOK /\ [Next]_vars => FieldsOK'
<1> SUFFICES ASSUME FieldsOK, [Next]_vars PROVE FieldsOK'
  OBVIOUS
<1> USE DEF flags, counts, queue, local, owners, clientFrame
<1>1. CASE Top
  BY <1>1 DEF Top, FieldsOK, Alive, Fault
<1>2. CASE Open
  <2>1. ASSUME NEW kind \in Outcomes \intersect {"dns", "error"}, pc = "open",
               VersionFails(kind)
        PROVE  FieldsOK'
    BY <2>1, VersionFailsType DEF Fault
  <2>2. CASE pc' = "handshake" /\ sock' = TRUE
    <3>1. sock' \in BOOLEAN
      BY <2>2
    <3>2. pc' \in Alive
      BY <2>2 DEF Alive
    <3>3. CASE UNCHANGED <<stopEvent, connected, flags, counts, version, queue,
                           local, owners, mirror, onlyDns>>
      BY <3>1, <3>2, <3>3 DEF FieldsOK
    <3>4. QED
      BY <1>2, <2>2, <3>3 DEF Open, VersionFails
  <2>3. QED
    BY <1>2, <2>1, <2>2 DEF Open
<1>3. CASE Handshake
  <2>1. ASSUME NEW kind \in Outcomes \intersect {"auth", "error"}, VersionFails(kind)
        PROVE  FieldsOK'
    BY <2>1, VersionFailsType DEF Fault
  <2>2. CASE VersionFails("error")
    BY <2>2, VersionFailsType DEF Fault
  <2>3. CASE /\ version' = trying /\ pc' = "linked"
             /\ UNCHANGED <<stopEvent, connected, sock, flags, counts, queue, local,
                            owners, mirror, onlyDns>>
    BY <2>3 DEF FieldsOK, Alive
  <2>4. QED
    BY <1>3, <2>1, <2>2, <2>3 DEF Handshake
<1>4. CASE SetConnected
  BY <1>4 DEF SetConnected, FieldsOK, Alive
<1>5. CASE ClearQueue
  BY <1>5 DEF ClearQueue, FieldsOK, Alive
<1>6. CASE NotifyConnected
  <2>1. mirror' \in BOOLEAN
    BY <1>6 DEF NotifyConnected, Callback, FieldsOK
  <2>2. QED
    BY <1>6, <2>1 DEF NotifyConnected, FieldsOK, Alive
<1>7. CASE ResetCounts
  BY <1>7 DEF ResetCounts, FieldsOK, Alive
<1>8. CASE PushTest
  BY <1>8 DEF PushTest, Goto, FieldsOK, Alive
<1>9. CASE Drain
  <2>1. connected' \in BOOLEAN
    BY <1>9 DEF Drain, FieldsOK
  <2>2. QED
    BY <1>9, <2>1 DEF Drain, FieldsOK, Alive
<1>10. CASE TakeFrame
  BY <1>10 DEF TakeFrame, FieldsOK, Alive
<1>11. CASE TakeTimeout
  <2>1. connected' \in BOOLEAN
    BY <1>11 DEF TakeTimeout, FieldsOK
  <2>2. pc' \in Alive
    BY <1>11 DEF TakeTimeout, Alive
  <2>3. UNCHANGED <<stopEvent, sock, flags, counts, version, local, owners,
                    mirror, onlyDns>>
    BY <1>11 DEF TakeTimeout
  <2>4. QED
    BY <2>1, <2>2, <2>3 DEF FieldsOK
<1>12. CASE SendOk
  BY <1>12 DEF SendOk, FieldsOK, Alive
<1>13. CASE SendFails
  <2>1. connected' \in BOOLEAN /\ frame' = "none" /\ pc' \in Alive
    BY <1>13 DEF SendFails, Alive
  <2>2. UNCHANGED <<stopEvent, sock, flags, counts, version, trying, faults, why,
                    wasUp, owners, mirror, onlyDns>>
    BY <1>13 DEF SendFails
  <2>3. QED
    BY <2>1, <2>2 DEF FieldsOK
<1>14. CASE SocketGone
  BY <1>14 DEF SocketGone, FieldsOK, Alive, Fault
<1>15. CASE Caught
  <2>1. connected' \in BOOLEAN /\ sock' \in BOOLEAN /\ onlyDns' \in BOOLEAN
    BY <1>15 DEF Caught, CloseSock
  <2>2. giveUp' \in BOOLEAN
    BY <1>15 DEF Caught, FieldsOK
  <2>3. failures' \in Nat /\ perms' \in Nat
    BY <1>15 DEF Caught, FieldsOK
  <2>4. pc' \in Alive /\ why' \in Fault
    BY <1>15 DEF Caught, Alive, Fault
  <2>5. UNCHANGED <<stopEvent, inCooldown, version, trying, faults, frame, wasUp,
                    owners, mirror>>
    BY <1>15 DEF Caught
  <2>6. QED
    BY <2>1, <2>2, <2>3, <2>4, <2>5 DEF FieldsOK
<1>16. CASE Close
  <2>1. connected' \in BOOLEAN /\ sock' \in BOOLEAN /\ pc' \in Alive
    BY <1>16 DEF Close, CloseSock, Alive
  <2>2. wasUp' \in BOOLEAN
    BY <1>16 DEF Close, FieldsOK
  <2>3. UNCHANGED <<stopEvent, flags, counts, version, trying, faults, why, frame,
                    owners, mirror, onlyDns>>
    BY <1>16 DEF Close
  <2>4. QED
    BY <2>1, <2>2, <2>3 DEF FieldsOK
<1>17. CASE Told
  <2>1. mirror' \in BOOLEAN /\ wasUp' \in BOOLEAN
    BY <1>17 DEF Told, Callback, FieldsOK
  <2>2. QED
    BY <1>17, <2>1 DEF Told, FieldsOK, Alive
<1>18. CASE Retry
  BY <1>18 DEF Retry, Goto, FieldsOK, Alive
<1>19. CASE StartCooldown
  BY <1>19 DEF StartCooldown, FieldsOK, Alive
<1>20. CASE PauseEnds
  BY <1>20 DEF PauseEnds, Goto, FieldsOK, Alive
<1>21. CASE CooldownStops
  BY <1>21 DEF CooldownStops, Goto, FieldsOK, Alive
<1>22. CASE CooldownEnds
  <2>1. giveUp' \in BOOLEAN /\ inCooldown' \in BOOLEAN /\ failures' \in Nat
    BY <1>22 DEF CooldownEnds
  <2>2. pc' \in Alive
    BY <1>22 DEF CooldownEnds, Alive
  <2>3. UNCHANGED <<stopEvent, connected, sock, perms, version, local, owners,
                    mirror, onlyDns>>
    BY <1>22 DEF CooldownEnds
  <2>4. QED
    BY <2>1, <2>2, <2>3 DEF FieldsOK
<1>23. CASE ThreadDies
  BY <1>23 DEF ThreadDies, Goto, FieldsOK, Alive
<1>24. CASE FirstStart
  BY <1>24 DEF FirstStart, FieldsOK, Alive, OwnerSteps
<1>25. CASE StopSet
  BY <1>25 DEF StopSet, FieldsOK, OwnerSteps
<1>26. CASE StopJoin
  BY <1>26 DEF StopJoin, FieldsOK, OwnerSteps
<1>27. CASE StopClose
  <2>1. connected' \in BOOLEAN /\ sock' \in BOOLEAN
    BY <1>27 DEF StopClose, CloseSock
  <2>2. ownerWasUp' \in BOOLEAN /\ owner' \in OwnerSteps
    BY <1>27 DEF StopClose, OwnerSteps, FieldsOK
  <2>3. UNCHANGED <<stopEvent, flags, counts, version, pc, local, purpose, mirror,
                    onlyDns>>
    BY <1>27 DEF StopClose
  <2>4. QED
    BY <2>1, <2>2, <2>3 DEF FieldsOK
<1>28. CASE StopTold
  <2>1. mirror' \in BOOLEAN /\ ownerWasUp' \in BOOLEAN
    BY <1>28 DEF StopTold, Callback, FieldsOK
  <2>2. owner' \in OwnerSteps
    BY <1>28 DEF StopTold, OwnerSteps
  <2>3. QED
    BY <1>28, <2>1, <2>2 DEF StopTold, FieldsOK
<1>29. CASE RestartUnset
  <2>1. stopEvent' \in BOOLEAN
    BY <1>29 DEF RestartUnset
  <2>2. QED
    BY <1>29, <2>1 DEF RestartUnset, FieldsOK, OwnerSteps
<1>30. CASE RestartForgive
  <2>1. giveUp' \in BOOLEAN
    BY <1>30 DEF RestartForgive
  <2>2. QED
    BY <1>30, <2>1 DEF RestartForgive, FieldsOK, OwnerSteps
<1>31. CASE RestartStart
  <2>1. stopEvent' \in BOOLEAN
    BY <1>31 DEF RestartStart, FieldsOK
  <2>2. pc' \in Alive
    BY <1>31 DEF RestartStart, Alive
  <2>3. QED
    BY <1>31, <2>1, <2>2 DEF RestartStart, FieldsOK, OwnerSteps
<1>32. CASE Mirror
  BY <1>32 DEF Mirror, FieldsOK
<1>33. CASE Decide
  BY <1>33 DEF Decide, FieldsOK, OwnerSteps
<1>34. CASE PutRtcm
  BY <1>34 DEF PutRtcm, FieldsOK
<1>35. CASE UNCHANGED vars
  BY <1>35 DEF vars, FieldsOK
<1>36. QED
  BY <1>1, <1>2, <1>3, <1>4, <1>5, <1>6, <1>7, <1>8, <1>9, <1>10, <1>11,
     <1>12, <1>13, <1>14, <1>15, <1>16, <1>17, <1>18, <1>19, <1>20, <1>21,
     <1>22, <1>23, <1>24, <1>25, <1>26, <1>27, <1>28, <1>29, <1>30, <1>31,
     <1>32, <1>33, <1>34, <1>35 DEF Next, PushThread, Connect, PushLoop,
     Recover, OwnerContinues

\* The client begins within its type.
LEMMA TypeInit == Init => TypeOK
<1> SUFFICES ASSUME Init PROVE TypeOK
  OBVIOUS
<1>1. QueueOK
  BY QueueMaxAssumption DEF Init, QueueOK
<1>2. /\ stopEvent \in BOOLEAN /\ connected \in BOOLEAN /\ sock \in BOOLEAN
      /\ giveUp \in BOOLEAN /\ inCooldown \in BOOLEAN /\ wasUp \in BOOLEAN
      /\ ownerWasUp \in BOOLEAN /\ mirror \in BOOLEAN /\ onlyDns \in BOOLEAN
  BY DEF Init
<1>3. /\ failures \in Nat /\ perms \in Nat /\ version \in 0 .. 2
      /\ trying \in 1 .. 2
  BY ConfVersionAssumption DEF Init
<1>4. QED
  BY <1>1, <1>2, <1>3 DEF Init, TypeOK, FieldsOK, OwnerSteps

\* The client stays within its types; in particular the frames waiting for the
\* caster never exceed the queue's limit, however long it is unreachable.
THEOREM TypeCorrect == Spec => []TypeOK
<1>1. TypeOK /\ [Next]_vars => TypeOK'
  BY FieldsStep, QueueStep DEF TypeOK
<1>2. QED
  BY TypeInit, <1>1, PTL DEF Spec

-----------------------------------------------------------------------------
(* Sessions                                                                *)

\* The steps between the clearing of the queue and the end of the session.
Sending == {"notify", "reset", "push", "drain", "get", "send"}

\* The steps at which the thread has no connection.
Offline == {"dead", "top", "open", "told", "after", "pause",
            "cooldown", "exiting"}

\* While a session lasts, the frames of earlier ones are gone from the queue.
LateGone == pc \in Sending /\ sock => late = 0

OfflineClosed == pc \in Offline => ~sock /\ ~connected

\* Only a client that has finished its handshake calls itself connected.
ShakingClosed == pc \in {"handshake", "linked"} => ~connected

BootFirst == owner = "new" => pc = "dead"

SessionInv == BootFirst /\ LateGone /\ OfflineClosed /\ ShakingClosed /\ NoStaleFrames

\* Every step preserves the inductive invariant behind the two theorems below.
LEMMA SessionStep == SessionInv /\ [Next]_vars => SessionInv'
<1> SUFFICES ASSUME SessionInv, [Next]_vars PROVE SessionInv'
  OBVIOUS
<1> USE DEF SessionInv, BootFirst, LateGone, OfflineClosed, ShakingClosed, NoStaleFrames,
            Sending, Offline, flags, counts, queue, local, owners, clientFrame
<1>1. CASE Top
  BY <1>1 DEF Top
<1>2. CASE Open
  BY <1>2 DEF Open, VersionFails, CloseSock
<1>3. CASE Handshake
  BY <1>3 DEF Handshake, VersionFails, CloseSock
<1>4. CASE SetConnected
  BY <1>4 DEF SetConnected
<1>5. CASE ClearQueue
  BY <1>5 DEF ClearQueue
<1>6. CASE NotifyConnected
  BY <1>6 DEF NotifyConnected, Callback
<1>7. CASE ResetCounts
  BY <1>7 DEF ResetCounts
<1>8. CASE PushTest
  BY <1>8 DEF PushTest, Goto
<1>9. CASE Drain
  BY <1>9 DEF Drain
<1>10. CASE TakeFrame
  BY <1>10 DEF TakeFrame
<1>11. CASE TakeTimeout
  BY <1>11 DEF TakeTimeout
<1>12. CASE SendOk
  BY <1>12 DEF SendOk
<1>13. CASE SendFails
  BY <1>13 DEF SendFails
<1>14. CASE SocketGone
  BY <1>14 DEF SocketGone
<1>15. CASE Caught
  BY <1>15 DEF Caught, CloseSock
<1>16. CASE Close
  BY <1>16 DEF Close, CloseSock
<1>17. CASE Told
  BY <1>17 DEF Told, Callback
<1>18. CASE Retry
  BY <1>18 DEF Retry, Goto
<1>19. CASE StartCooldown
  BY <1>19 DEF StartCooldown
<1>20. CASE PauseEnds
  BY <1>20 DEF PauseEnds, Goto
<1>21. CASE CooldownStops
  BY <1>21 DEF CooldownStops, Goto
<1>22. CASE CooldownEnds
  BY <1>22 DEF CooldownEnds
<1>23. CASE ThreadDies
  BY <1>23 DEF ThreadDies, Goto
<1>24. CASE FirstStart
  BY <1>24 DEF FirstStart
<1>25. CASE StopSet
  BY <1>25 DEF StopSet
<1>26. CASE StopJoin
  BY <1>26 DEF StopJoin
<1>27. CASE StopClose
  BY <1>27 DEF StopClose, CloseSock
<1>28. CASE StopTold
  BY <1>28 DEF StopTold, Callback
<1>29. CASE RestartUnset
  BY <1>29 DEF RestartUnset
<1>30. CASE RestartForgive
  BY <1>30 DEF RestartForgive
<1>31. CASE RestartStart
  BY <1>31 DEF RestartStart
<1>32. CASE Mirror
  BY <1>32 DEF Mirror
<1>33. CASE Decide
  BY <1>33 DEF Decide
<1>34. CASE PutRtcm
  BY <1>34 DEF PutRtcm
<1>35. CASE UNCHANGED vars
  BY <1>35 DEF vars
<1>36. QED
  BY <1>1, <1>2, <1>3, <1>4, <1>5, <1>6, <1>7, <1>8, <1>9, <1>10, <1>11,
     <1>12, <1>13, <1>14, <1>15, <1>16, <1>17, <1>18, <1>19, <1>20, <1>21,
     <1>22, <1>23, <1>24, <1>25, <1>26, <1>27, <1>28, <1>29, <1>30, <1>31,
     <1>32, <1>33, <1>34, <1>35 DEF Next, PushThread, Connect, PushLoop,
     Recover, OwnerContinues

\* The inductive invariant holds initially.
LEMMA SessionInit == Init => SessionInv
BY DEF Init, SessionInv, BootFirst, LateGone, OfflineClosed, ShakingClosed, NoStaleFrames,
       Sending, Offline

\* No frame queued before a connection is sent on it, whatever the owner does
\* to the socket and to the thread meanwhile.
THEOREM NoStaleFramesAlways == Spec => []NoStaleFrames
<1>1. SessionInv => NoStaleFrames
  BY DEF SessionInv
<1>2. QED
  BY <1>1, SessionInit, SessionStep, PTL DEF Spec

\* A thread that has ended, for whichever reason, has closed its socket and
\* does not call itself connected.
THEOREM NoLeakAlways == Spec => []NoLeak
<1>1. SessionInv => NoLeak
  BY DEF SessionInv, OfflineClosed, Offline, NoLeak
<1>2. QED
  BY <1>1, SessionInit, SessionStep, PTL DEF Spec

-----------------------------------------------------------------------------
(* Failures, refusals and restarts                                         *)

\* The steps of a stop and a restart, and those of the restart after the stop.
Stopping == {"set", "join", "close", "told", "unset"}
Starting == {"forgive", "start"}

\* The steps of a session after its counters were reset.
Session == {"push", "drain", "get", "send", "close", "told"}

\* The stop signal stands from the stop to the restart that takes it back.
OwnerInv ==
    /\ owner \in Starting \union {"unset"} => purpose = "restart"
    /\ owner \in Starting \union {"new", "idle", "set"} => ~stopEvent
    /\ owner \in Stopping \ {"set"} => stopEvent
    /\ owner = "new" => pc = "dead" /\ failures = 0 /\ perms = 0 /\ ~giveUp

\* The counts before an attempt, after one, and while a session lasts.
Bounds ==
    /\ pc \in {"top", "open", "handshake", "failed", "pause"}
         => failures < MaxRetries /\ perms < 3
    /\ pc = "after" => perms < 3 /\ (why \in {"dns", "auth"} => failures < MaxRetries)
    /\ pc = "cooldown" => perms < 3
    /\ pc \in Session => failures = 0 /\ perms = 0
    /\ connected => \/ pc \in (Session \ {"told"}) \union {"clear", "notify", "reset"}
                    \/ pc = "failed" /\ failures = 0 /\ perms = 0

\* A client is restarted while it is connected: the stop costs it at most one
\* failure, the attempt that a late thread makes before the restart another.
RestartInv ==
    /\ owner \in Stopping /\ purpose = "restart" =>
         /\ pc \notin {"open", "handshake", "linked", "cooldown"}
         /\ pc = "top" => stopEvent
         /\ pc = "failed" => failures + perms = 0
         /\ pc \in {"after", "pause", "top", "exiting", "dead"} => failures + perms <= 1
    /\ owner \in Starting =>
         /\ pc \in {"top", "open", "handshake", "failed", "exiting", "dead"}
              => failures + perms <= 1
         /\ pc \in {"after", "pause", "cooldown"} => failures + perms <= 2

\* Who has given up waits or ends, and only a fault that is no DNS failure counts.
GiveUpInv ==
    /\ giveUp => pc \in {"cooldown", "exiting", "dead"}
    /\ owner = "start" /\ pc \in {"exiting", "dead"} => ~giveUp
    /\ onlyDns => ~giveUp /\ failures = 0 /\ perms = 0

CountInv == FieldsOK /\ OwnerInv /\ Bounds /\ RestartInv /\ GiveUpInv

\* The limits, the stop event and who may have given up are preserved by
\* every step of every thread.
LEMMA CountStep == CountInv /\ [Next]_vars => CountInv'
<1> SUFFICES ASSUME CountInv, [Next]_vars
             PROVE  OwnerInv' /\ Bounds' /\ RestartInv' /\ GiveUpInv'
  BY FieldsStep DEF CountInv
<1>0. failures \in Nat /\ perms \in Nat /\ MaxRetries \in Nat /\ MaxRetries >= 2
  BY MaxRetriesAssumption DEF CountInv, FieldsOK
<1> USE <1>0 DEF CountInv, OwnerInv, Bounds, RestartInv, GiveUpInv, Stopping, Starting, Session,
            flags, counts, queue, local, owners, clientFrame
<1>1. CASE Top
  BY <1>1 DEF Top
<1>2. CASE Open
  BY <1>2 DEF Open, VersionFails
<1>3. CASE Handshake
  BY <1>3 DEF Handshake, VersionFails
<1>4. CASE SetConnected
  BY <1>4 DEF SetConnected
<1>5. CASE ClearQueue
  BY <1>5 DEF ClearQueue
<1>6. CASE NotifyConnected
  BY <1>6 DEF NotifyConnected
<1>7. CASE ResetCounts
  BY <1>7 DEF ResetCounts
<1>8. CASE PushTest
  BY <1>8 DEF PushTest, Goto
<1>9. CASE Drain
  BY <1>9 DEF Drain
<1>10. CASE TakeFrame
  BY <1>10 DEF TakeFrame
<1>11. CASE TakeTimeout
  BY <1>11 DEF TakeTimeout
<1>12. CASE SendOk
  BY <1>12 DEF SendOk
<1>13. CASE SendFails
  BY <1>13 DEF SendFails
<1>14. CASE SocketGone
  BY <1>14 DEF SocketGone
<1>15. CASE Caught
  <2>1. /\ pc = "failed" /\ failures < MaxRetries /\ perms < 3 /\ ~giveUp
        /\ owner' = owner /\ purpose' = purpose /\ stopEvent' = stopEvent
        /\ connected' = FALSE
    BY <1>15 DEF Caught
  <2>2. onlyDns' => onlyDns /\ faults = {"dns"}
    BY <1>15 DEF Caught
  <2>3. CASE /\ faults = {"dns"} /\ pc' = "after" /\ UNCHANGED <<giveUp, counts>>
    BY <2>1, <2>2, <2>3
  <2>4. CASE /\ faults = {"auth"} /\ perms' = perms + 1 /\ UNCHANGED failures
             /\ IF perms' >= 3 THEN giveUp' = TRUE /\ pc' = "exiting"
                               ELSE pc' = "after" /\ UNCHANGED giveUp
    <3>1. ~onlyDns'
      BY <2>2, <2>4
    <3>2. CASE perms' >= 3 /\ pc' = "exiting"
      <4>1. owner \notin Starting /\ ~(owner \in Stopping /\ purpose = "restart")
        BY <2>1, <2>4, <3>2
      <4>2. QED BY <2>1, <2>4, <3>1, <3>2, <4>1
    <3>3. CASE ~(perms' >= 3) /\ pc' = "after" /\ giveUp' = giveUp
      BY <2>1, <2>4, <3>1, <3>3
    <3>4. QED BY <2>4, <3>2, <3>3
  <2>5. CASE /\ faults \notin {{"dns"}, {"auth"}} /\ failures' = failures + 1
             /\ why' = "error" /\ pc' = "after" /\ UNCHANGED <<giveUp, perms>>
    BY <2>1, <2>2, <2>5
  <2>6. QED
    BY <1>15, <2>3, <2>4, <2>5 DEF Caught
<1>16. CASE Close
  BY <1>16 DEF Close
<1>17. CASE Told
  BY <1>17 DEF Told
<1>18. CASE Retry
  BY <1>18 DEF Retry, Goto, Exhausted
<1>19. CASE StartCooldown
  BY <1>19 DEF StartCooldown, Exhausted
<1>20. CASE PauseEnds
  BY <1>20 DEF PauseEnds, Goto, LongWait
<1>21. CASE CooldownStops
  BY <1>21 DEF CooldownStops, Goto
<1>22. CASE CooldownEnds
  BY <1>22 DEF CooldownEnds, LongWait
<1>23. CASE ThreadDies
  BY <1>23 DEF ThreadDies, Goto
<1>24. CASE FirstStart
  BY <1>24 DEF FirstStart, Alive
<1>25. CASE StopSet
  BY <1>25 DEF StopSet
<1>26. CASE StopJoin
  BY <1>26 DEF StopJoin
<1>27. CASE StopClose
  BY <1>27 DEF StopClose
<1>28. CASE StopTold
  BY <1>28 DEF StopTold
<1>29. CASE RestartUnset
  BY <1>29 DEF RestartUnset
<1>30. CASE RestartForgive
  BY <1>30 DEF RestartForgive
<1>31. CASE RestartStart
  BY <1>31 DEF RestartStart, Alive
<1>32. CASE Mirror
  BY <1>32 DEF Mirror
<1>33. CASE Decide
  BY <1>33 DEF Decide
<1>34. CASE PutRtcm
  BY <1>34 DEF PutRtcm
<1>35. CASE UNCHANGED vars
  BY <1>35 DEF vars
<1>36. QED
  BY <1>1, <1>2, <1>3, <1>4, <1>5, <1>6, <1>7, <1>8, <1>9, <1>10, <1>11,
     <1>12, <1>13, <1>14, <1>15, <1>16, <1>17, <1>18, <1>19, <1>20,
     <1>21, <1>22, <1>23, <1>24, <1>25, <1>26, <1>27, <1>28, <1>29,
     <1>30, <1>31, <1>32, <1>33, <1>34, <1>35 DEF Next, PushThread, Connect, PushLoop,
     Recover, OwnerContinues

\* They hold before the first start.
LEMMA CountInit == Init => CountInv
<1> SUFFICES ASSUME Init PROVE CountInv
  OBVIOUS
<1>1. FieldsOK
  BY TypeInit DEF TypeOK
<1>2. OwnerInv /\ Bounds /\ RestartInv /\ GiveUpInv
  BY DEF Init, OwnerInv, Bounds, RestartInv, GiveUpInv, Stopping, Starting, Session
<1>3. QED BY <1>1, <1>2 DEF CountInv

\* No connection is attempted at the limit of failures or after three refusals,
\* whatever the owner restarts and when: for every limit of two or more.
THEOREM RetriesBoundedAlways == Spec => []RetriesBounded
<1>1. CountInv => RetriesBounded
  BY DEF CountInv, Bounds, RetriesBounded
<1>2. QED
  BY <1>1, CountInit, CountStep, PTL DEF Spec

\* As long as every fault is a DNS failure the client does not give up.
THEOREM DnsOutageHarmlessAlways == Spec => []DnsOutageHarmless
<1>1. CountInv => DnsOutageHarmless
  BY DEF CountInv, GiveUpInv, DnsOutageHarmless
<1>2. QED
  BY <1>1, CountInit, CountStep, PTL DEF Spec

-----------------------------------------------------------------------------
(* The client as its owner sees it                                         *)

ClientStep == [Client!Next]_<<Client!client, Client!owner>>

\* What the push thread does while it lives shows in the connected flag only.
LEMMA ThreadStep ==
    ASSUME pc # "dead", pc' # "dead", owner # "new",
           UNCHANGED <<stopEvent, owner, purpose>>,
           connected \in BOOLEAN, connected' \in BOOLEAN
    PROVE  ClientStep
<1>1. Thread = "alive" /\ Thread' = "alive" /\ Use' = Use
      /\ (purpose = "restart")' = (purpose = "restart")
  BY DEF Thread, Use
<1>2. CASE connected' = connected
  BY <1>1, <1>2 DEF ClientStep, Client!client, Client!owner
<1>3. CASE connected' # connected
  <2>1. connected' = ~connected
    BY <1>3
  <2>2. Client!ConnectOrLose
    BY <1>1, <2>1 DEF Client!ConnectOrLose, Client!owner
  <2>3. QED
    BY <2>2 DEF ClientStep, Client!Next
<1>4. QED
  BY <1>2, <1>3

\* The push thread and the reader do nothing else to be seen, until the end.
LEMMA PushThreadStep ==
    ASSUME FieldsOK, FieldsOK', SessionInv, PushThread
    PROVE  ClientStep
<1> USE DEF flags, counts, queue, local, owners
<1>1. pc # "dead" /\ UNCHANGED <<stopEvent, owner, purpose>>
  BY DEF PushThread, Connect, PushLoop, Recover, Top, Open, VersionFails,
     Handshake, SetConnected, ClearQueue, NotifyConnected, ResetCounts,
     PushTest, Goto, Drain, TakeFrame, TakeTimeout, SendOk, SendFails,
     SocketGone, Caught, Close, Told, Retry, StartCooldown, PauseEnds,
     CooldownStops, CooldownEnds, ThreadDies
<1>2. owner # "new"
  BY <1>1 DEF SessionInv, BootFirst
<1>3. CASE ThreadDies
  <2>1. ~connected /\ pc' = "dead" /\ UNCHANGED connected
    BY <1>3 DEF ThreadDies, Goto, SessionInv, OfflineClosed, Offline
  <2>2. Thread = "alive" /\ Thread' = "dead" /\ Use' = Use
    BY <1>1, <1>2, <2>1 DEF Thread, Use
  <2>3. connected' = FALSE
    BY <2>1 DEF FieldsOK
  <2>4. Client!End
    BY <1>1, <2>1, <2>2, <2>3 DEF Client!End, Client!owner
  <2>5. QED
    BY <2>4 DEF ClientStep, Client!Next
<1>4. CASE PushThread /\ ~ThreadDies
  <2>1. pc' # "dead"
    BY <1>4 DEF PushThread, Connect, PushLoop, Recover, Top, Open, VersionFails,
       Handshake, SetConnected, ClearQueue, NotifyConnected, ResetCounts,
       PushTest, Goto, Drain, TakeFrame, TakeTimeout, SendOk, SendFails,
       SocketGone, Caught, Close, Told, Retry, StartCooldown, PauseEnds,
       CooldownStops, CooldownEnds
  <2>2. QED
    BY <1>1, <1>2, <2>1, ThreadStep DEF FieldsOK
<1>5. QED
  BY <1>3, <1>4

\* What each step of the owner shows of the client.
OwnerViews ==
    /\ owner \in {"set", "join", "close", "told", "unset", "forgive", "start", "gone", "idle"}
         => Thread = IF pc = "dead" THEN "dead" ELSE "alive"
    /\ owner = "new" => Use = "new" /\ Thread = "new"
    /\ owner = "idle" => Use = "serving"
    /\ owner = "set" => Use = "doomed"
    /\ owner \in {"join", "close"} => Use = "stopping"
    /\ owner \in {"told", "unset", "gone"} => Use = "stopped"
    /\ owner \in {"forgive", "start"} => Use = "cleared"

\* They follow from the owner's step alone.
LEMMA OwnerViewsAlways == OwnerViews
BY DEF OwnerViews, Use, Thread

\* After a step too.
LEMMA ViewsPrime == OwnerViews'
BY OwnerViewsAlways, PTL

\* Each step of the owner is the client's step of that name, or shows nothing.
LEMMA OwnerStep ==
    ASSUME FieldsOK, CountInv, SessionInv,
           OwnerContinues \/ Mirror \/ Decide \/ PutRtcm \/ UNCHANGED vars
    PROVE  ClientStep
<1> USE OwnerViewsAlways, ViewsPrime DEF OwnerViews, ClientStep, Client!Next,
        Client!client, Client!owner, clientFrame, flags, counts, queue, local, owners
<1>1. CASE FirstStart
  <2>1. Thread' = "alive" /\ purpose' = purpose
    BY <1>1 DEF FirstStart, Thread
  <2>2. Client!Start
    BY <1>1, <2>1 DEF FirstStart, Client!Start
  <2>3. QED
    BY <2>2
<1>2. CASE StopSet
  <2>1. Client!Signal
    BY <1>2 DEF StopSet, Client!Signal
  <2>2. QED
    BY <2>1
<1>3. CASE StopJoin
  BY <1>3 DEF StopJoin
<1>4. CASE StopClose
  <2>1. Client!Close
    BY <1>4 DEF StopClose, Client!Close
  <2>2. QED
    BY <2>1
<1>5. CASE StopTold
  BY <1>5 DEF StopTold
<1>6. CASE RestartUnset
  <2>1. purpose = "restart"
    BY <1>6 DEF RestartUnset, CountInv, OwnerInv, Starting
  <2>2. Client!Clear
    BY <1>6, <2>1 DEF RestartUnset, Client!Clear
  <2>3. QED
    BY <2>2
<1>7. CASE RestartForgive
  BY <1>7 DEF RestartForgive
<1>8. CASE RestartStart
  <2>1. stopEvent' = stopEvent
    BY <1>8 DEF RestartStart, CountInv, OwnerInv, Starting, FieldsOK
  <2>2. pc' # "dead"
    BY <1>8 DEF RestartStart, Alive
  <2>3. Client!StartAgain
    BY <1>8, <2>1, <2>2 DEF RestartStart, Client!StartAgain
  <2>4. QED
    BY <2>3
<1>9. CASE Mirror
  BY <1>9 DEF Mirror
<1>10. CASE Decide
  <2>1. (purpose = "restart")' \in {FALSE, connected}
    BY <1>10 DEF Decide, FieldsOK
  <2>2. Client!Decide
    BY <1>10, <2>1 DEF Decide, Client!Decide
  <2>3. QED
    BY <2>2
<1>11. CASE PutRtcm
  BY <1>11 DEF PutRtcm, Thread, Use
<1>12. CASE UNCHANGED vars
  BY <1>12 DEF vars, Thread, Use
<1>13. QED
  BY <1>1, <1>2, <1>3, <1>4, <1>5, <1>6, <1>7, <1>8, <1>9, <1>10, <1>11, <1>12
     DEF OwnerContinues

\* The client NtripLifecycle takes for granted is the client of this module,
\* whatever the caster answers and whenever its owner steps in.
THEOREM ImplementsClientAlways == Spec => ImplementsClient
<1>1. Init => Client!Init
  BY DEF Init, Client!Init, Thread, Use
<1>2. FieldsOK /\ CountInv /\ SessionInv /\ FieldsOK' /\ [Next]_vars => ClientStep
  BY PushThreadStep, OwnerStep DEF Next
<1>3. CountInv => FieldsOK
  BY DEF CountInv
<1>4. QED
  BY <1>1, <1>2, <1>3, CountInit, CountStep, SessionInit, SessionStep, PTL
     DEF Spec, ImplementsClient, Client!Spec, ClientStep

=============================================================================
