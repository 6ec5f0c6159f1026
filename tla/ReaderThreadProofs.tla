------------------------- MODULE ReaderThreadProofs -------------------------
(***************************************************************************)
(* Theorems about ReaderThread, for every limit of attempts and whether or *)
(* not the retry delay exceeds the join.                                   *)
(***************************************************************************)
EXTENDS ReaderThread, TLAPS

\* Failures count up to the limit and start again.
LEMMA CountWraps ==
    ASSUME NEW n \in 0 .. MaxAttempts - 1
    PROVE  (n + 1) % MaxAttempts \in 0 .. MaxAttempts - 1
BY MaxAttemptsAssumption

\* Every variable stays within its type and the count of failed attempts below
\* its limit (_update_receiver_disconnected).
THEOREM TypeCorrect == Spec => []TypeOK
<1>1. Init => TypeOK
  <2> SUFFICES ASSUME Init PROVE TypeOK
      OBVIOUS
  <2>1. stopEvent \in BOOLEAN /\ port \in BOOLEAN /\ mirror \in BOOLEAN
    BY DEF Init
  <2>2. QED BY <2>1, MaxAttemptsAssumption DEF Init, TypeOK
<1>2. TypeOK /\ [Next]_vars => TypeOK'
  <2> SUFFICES ASSUME TypeOK, [Next]_vars PROVE TypeOK'
      OBVIOUS
  <2> USE DEF TypeOK, fields, calls, readerFrame, Goto, Alive, Asleep
  <2>1. CASE OpenFails
    BY <2>1, CountWraps DEF OpenFails
  <2>2. CASE OpenPort \/ MarkConnected \/ NotifyConnected
    <3>1. 0 \in 0 .. MaxAttempts - 1
      BY MaxAttemptsAssumption
    <3>2. CASE MarkConnected
      BY <3>1, <3>2 DEF MarkConnected
    <3>3. CASE OpenPort \/ NotifyConnected
      BY <3>3 DEF OpenPort, NotifyConnected
    <3>4. QED BY <2>2, <3>2, <3>3
  <2>3. CASE Top \/ Process \/ Send \/ Rest \/ Pause \/ ThreadDies
    BY <2>3 DEF Top, Process, Send, Rest, Pause, ThreadDies
  <2>4. CASE PortFails \/ CloseNotify \/ CloseMark
    BY <2>4 DEF PortFails, CloseNotify, CloseMark
  <2>5. CASE Boot \/ Reconnect \/ Shutdown \/ StopTest \/ StopSet \/ StopJoin
    BY <2>5 DEF Boot, Reconnect, Shutdown, StopFor, StopTest, Stopped, StopSet, StopJoin
  <2>6. CASE StopClose \/ StopNotify \/ StopMark \/ Start
    BY <2>6 DEF StopClose, StopNotify, StopMark, Stopped, Start
  <2>7. CASE PlugChanges \/ UNCHANGED vars
    BY <2>7 DEF PlugChanges, vars
  <2>8. QED BY <2>1, <2>2, <2>3, <2>4, <2>5, <2>6, <2>7
            DEF Next, ReaderLoop, Connect, ApiContinues
<1>3. QED BY <1>1, <1>2, PTL DEF Spec

-----------------------------------------------------------------------------
(* The port                                                                *)

\* Where the thread can be once stop() has joined it.
Winding == {"dead", "latePause", "pause", "top", "exiting"}

\* The thread holds no port while it opens one, waits, or has lost it.
Portless == pc \in {"open", "pause", "latePause", "closeNotify", "closeMark"} => ~port

\* The stop event stands from its setting to the next start.
Signalled ==
    /\ api \in {"join", "close", "closeNotify", "closeMark"} => stopEvent
    /\ api \in {"start", "down"} => stopEvent \/ pc = "dead"
    /\ pc = "exiting" => stopEvent

\* There is no thread before the service starts one; a thread that slept through
\* a join and was not replaced is on its way out without a port.
Missed ==
    /\ api = "boot" => pc = "dead"
    /\ api \in {"boot", "idle", "stop", "set"} /\ stopEvent => pc \in Winding /\ ~port
    /\ api \in {"boot", "idle", "stop", "set"} /\ pc = "dead" => ~port

Closed ==
    /\ api \in {"close", "closeNotify", "closeMark", "start", "down"} => pc \in Winding
    /\ api \in {"closeNotify", "closeMark", "start", "down"} => ~port

PortInv == Portless /\ Signalled /\ Missed /\ Closed

\* Who may hold or open the port, after any step of either thread.
LEMMA PortStep == TypeOK /\ PortInv /\ [Next]_vars => PortInv'
<1> SUFFICES ASSUME TypeOK, PortInv, [Next]_vars PROVE PortInv'
    OBVIOUS
<1> USE DEF PortInv, Portless, Signalled, Missed, Closed, Winding, fields, calls,
            readerFrame, Goto, Asleep
<1>1. CASE OpenPort
  BY <1>1 DEF OpenPort
<1>2. CASE OpenFails
  BY <1>2 DEF OpenFails
<1>3. CASE MarkConnected \/ NotifyConnected
  BY <1>3 DEF MarkConnected, NotifyConnected
<1>4. CASE Top \/ Process \/ Send \/ Rest
  BY <1>4 DEF Top, Process, Send, Rest
<1>5. CASE Pause \/ ThreadDies
  BY <1>5 DEF Pause, ThreadDies
<1>6. CASE PortFails \/ CloseNotify \/ CloseMark
  BY <1>6 DEF PortFails, CloseNotify, CloseMark
<1>7. CASE Boot \/ Reconnect \/ Shutdown \/ StopTest
  BY <1>7 DEF Boot, Reconnect, Shutdown, StopFor, StopTest, Stopped, TypeOK
<1>8. CASE StopSet \/ StopJoin
  <2>1. CASE StopSet
    BY <2>1 DEF StopSet, TypeOK
  <2>2. CASE StopJoin
    BY <2>2 DEF StopJoin, TypeOK
  <2>3. QED BY <1>8, <2>1, <2>2
<1>9. CASE StopClose \/ StopNotify \/ StopMark
  BY <1>9 DEF StopClose, StopNotify, StopMark, Stopped, TypeOK
<1>10. CASE Start
  BY <1>10 DEF Start, TypeOK, Alive
<1>11. CASE PlugChanges \/ UNCHANGED vars
  BY <1>11 DEF PlugChanges, vars
<1>12. QED BY <1>1, <1>2, <1>3, <1>4, <1>5, <1>6, <1>7, <1>8, <1>9, <1>10, <1>11
           DEF Next, ReaderLoop, Connect, ApiContinues

\* After the shutdown of main.py the serial port is free, whether or not the
\* reader slept through the join of stop().
THEOREM ShutdownReleasesAlways == Spec => []ShutdownReleases
<1>1. Init => PortInv
  BY DEF Init, PortInv, Portless, Signalled, Missed, Closed
<1>2. PortInv => ShutdownReleases
  BY DEF PortInv, Closed, ShutdownReleases
<1>3. QED BY <1>1, <1>2, PortStep, TypeCorrect, PTL DEF Spec

-----------------------------------------------------------------------------
(* What the clients see                                                    *)

Synced == mirror = port /\ (shown = "connected") = port

\* How far the status lags behind the port at each step of _connect_serial and
\* _close_serial.
Lag ==
    /\ pc = "mark" => port /\ ~mirror /\ shown = "disconnected"
    /\ pc = "notify" => port /\ mirror /\ shown = "disconnected"
    /\ pc = "closeNotify" => mirror
    /\ pc = "closeMark" => mirror /\ shown = "disconnected"
    /\ pc \in {"process", "send"} => port
    /\ api = "closeMark" => shown = "disconnected"
    /\ pc \in {"open", "process", "send", "rest", "top", "pause", "latePause",
              "exiting", "dead"}
       /\ api \notin {"closeNotify", "closeMark"} => Synced

\* State and last event lag behind the port by the steps of a close that
\* are still to come, after any step of either thread.
LEMMA LagStep == TypeOK /\ PortInv /\ Lag /\ [Next]_vars => Lag'
<1> SUFFICES ASSUME TypeOK, PortInv, Lag, [Next]_vars PROVE Lag'
    OBVIOUS
<1> USE DEF Lag, Synced, PortInv, Portless, Closed, Winding, fields, calls,
            readerFrame, Goto, Asleep, TypeOK
<1>1. CASE OpenPort \/ OpenFails
  BY <1>1 DEF OpenPort, OpenFails
<1>2. CASE MarkConnected \/ NotifyConnected
  BY <1>2 DEF MarkConnected, NotifyConnected
<1>3. CASE Top \/ Process \/ Send \/ Rest
  BY <1>3 DEF Top, Process, Send, Rest
<1>4. CASE Pause \/ ThreadDies
  BY <1>4 DEF Pause, ThreadDies
<1>5. CASE PortFails \/ CloseNotify \/ CloseMark
  BY <1>5 DEF PortFails, CloseNotify, CloseMark
<1>6. CASE Boot \/ Reconnect \/ Shutdown \/ StopTest \/ StopSet \/ StopJoin
  BY <1>6 DEF Boot, Reconnect, Shutdown, StopFor, StopTest, Stopped, StopSet, StopJoin
<1>7. CASE StopClose \/ StopNotify \/ StopMark
  BY <1>7 DEF StopClose, StopNotify, StopMark, Stopped
<1>8. CASE Start \/ PlugChanges \/ UNCHANGED vars
  BY <1>8 DEF Start, PlugChanges, vars
<1>9. QED BY <1>1, <1>2, <1>3, <1>4, <1>5, <1>6, <1>7, <1>8
          DEF Next, ReaderLoop, Connect, ApiContinues

\* The connection status and the last event agree with the port whenever the
\* reader waits.
THEOREM StatusTrueAlways == Spec => []StatusTrue
<1>1. Init => PortInv /\ Lag
  BY DEF Init, PortInv, Portless, Signalled, Missed, Closed, Lag, Synced
<1>2. TypeOK /\ Lag => StatusTrue
  BY DEF TypeOK, Lag, Synced, StatusTrue, Asleep
<1>3. QED BY <1>1, <1>2, PortStep, LagStep, TypeCorrect, PTL DEF Spec

=============================================================================
