---------------------------- MODULE BaseStation -----------------------------
(***************************************************************************)
(* What the orchestrator promises the operator of a base station: which    *)
(* state may follow which while a run goes on, in which of them the        *)
(* receiver is touched and how, what NTRIP_CONNECT and STREAMING say about *)
(* it, and that no run begins unless it was asked for.  Nothing is         *)
(* promised of a run an abort or a shutdown has fallen into.               *)
(***************************************************************************)

VARIABLES
    state,          \* the state shown to the operator
    tmode, rtcm,    \* the receiver: its base mode, and whether it sends RTCM
    asked,          \* a run was asked for
    disturbed       \* an abort or a shutdown fell into the current run

receiver == <<tmode, rtcm>>

\* The states in which a station does not listen to requests.
Busy == {"SURVEY", "ENABLING_RTCM", "NTRIP_CONNECT", "STREAMING"}

Request ==
    /\ state \notin Busy
    /\ state' = "WAITING_SERIAL"
    /\ asked' = TRUE
    /\ UNCHANGED <<receiver, disturbed>>

\* A run begins: asked for at first, or asked for again during the run before.
Begin ==
    /\ asked
    /\ disturbed \/ state \in {"WAITING_SERIAL", "STREAMING", "FAILED"}
    /\ state' = "WAITING_SERIAL"
    /\ asked' \in BOOLEAN /\ disturbed' \in BOOLEAN
    /\ UNCHANGED receiver

\* A request that comes before the survey takes the state back to
\* WAITING_SERIAL, from where the run goes on as it would have.
Prepare ==
    /\ \/ state = "WAITING_SERIAL" /\ state' \in {"CHECKING_POSITION", "APPLY_FIXED_BASE", "SURVEY"}
       \/ state = "CHECKING_POSITION" /\ state' \in {"APPLY_FIXED_BASE", "SURVEY"}
       \/ state = "APPLY_FIXED_BASE" /\ state' = "SURVEY"
    /\ UNCHANGED <<receiver, asked, disturbed>>

\* The base position is found: saved, or surveyed.
Locate ==
    /\ state \in {"WAITING_SERIAL", "APPLY_FIXED_BASE", "SURVEY"}
    /\ tmode = "fixed"
    /\ state' = "ENABLING_RTCM"
    /\ UNCHANGED <<receiver, asked, disturbed>>

\* The corrections are on; the caster comes and goes.
Serve ==
    /\ tmode = "fixed" /\ rtcm
    /\ \/ state = "ENABLING_RTCM" /\ state' \in {"NTRIP_CONNECT", "STREAMING"}
       \/ state = "NTRIP_CONNECT" /\ state' = "STREAMING"
       \/ state = "STREAMING" /\ state' = "NTRIP_CONNECT"
    /\ UNCHANGED <<receiver, asked, disturbed>>

Fail ==
    /\ state \in {"SURVEY", "ENABLING_RTCM", "NTRIP_CONNECT"}
    /\ state' = "FAILED"
    /\ UNCHANGED <<receiver, asked, disturbed>>

\* A crashed run is given up, with any request made since: another follows.
Recover ==
    /\ state \in {"FAILED", "WAITING_SERIAL"}
    /\ state' = "IDLE"
    /\ UNCHANGED <<receiver, asked, disturbed>>

\* What a run may do to the receiver: quieten it, fix it, survey, and send
\* corrections from a fixed base.
Command ==
    /\ \/ state = "WAITING_SERIAL" /\ tmode' = tmode /\ rtcm' = FALSE
       \/ state = "WAITING_SERIAL" /\ tmode' = "off" /\ rtcm' = rtcm
       \/ state \in {"WAITING_SERIAL", "APPLY_FIXED_BASE"} /\ tmode' = "fixed" /\ rtcm' = rtcm
       \/ state = "SURVEY" /\ tmode' \in {"off", "survey", "fixed"} /\ rtcm' = rtcm
       \/ state = "ENABLING_RTCM" /\ tmode = "fixed" /\ tmode' = tmode /\ rtcm' = TRUE
    /\ UNCHANGED <<state, asked, disturbed>>

Disturb ==
    /\ disturbed' = TRUE
    /\ state' \in {state, "IDLE"}
    /\ UNCHANGED <<receiver, asked>>

\* Until the next run begins.
Disturbed == disturbed /\ disturbed'

Init ==
    /\ state = "IDLE" /\ ~asked /\ ~disturbed
    /\ tmode \in {"off", "survey", "fixed"} /\ rtcm \in BOOLEAN

Next == Request \/ Begin \/ Prepare \/ Locate \/ Serve \/ Fail \/ Recover
        \/ Command \/ Disturb \/ Disturbed

Spec == Init /\ [][Next]_<<state, receiver, asked, disturbed>>

=============================================================================
