---------------------------- MODULE NtripClient -----------------------------
(***************************************************************************)
(* One NTRIP client and the one owner it expects: it is started once,      *)
(* stopped in order, and started again only by who stopped it for that;    *)
(* once let go it is never told to run again.  Its thread comes and goes   *)
(* on its own account in between, and may outlive every stop.              *)
(***************************************************************************)

VARIABLES
    thread,         \* "new", "alive" or "dead"
    stopEvent,      \* it has been told to end
    up,             \* it calls itself connected
    use,            \* what its owner has done with it
    again           \* it is being stopped to be started again

owner  == <<use, again>>
client == <<thread, stopEvent, up>>

Start ==
    /\ use = "new" /\ thread = "new"
    /\ use' = "serving"
    /\ thread' = "alive"
    /\ UNCHANGED <<stopEvent, up, again>>

\* It is dropped, or restarted because it is connected and nothing goes out.
Decide ==
    /\ use = "serving"
    /\ use' = "doomed"
    /\ again' \in {FALSE, up}
    /\ UNCHANGED client

Signal ==
    /\ use = "doomed"
    /\ use' = "stopping"
    /\ stopEvent' = TRUE
    /\ UNCHANGED <<thread, up, again>>

\* The owner has waited for the thread, perhaps in vain.
Close ==
    /\ use = "stopping"
    /\ use' = "stopped"
    /\ up' = FALSE
    /\ UNCHANGED <<thread, stopEvent, again>>

Clear ==
    /\ use = "stopped" /\ again
    /\ use' = "cleared"
    /\ stopEvent' = FALSE
    /\ UNCHANGED <<thread, up, again>>

\* A thread that is still alive is left alone.
StartAgain ==
    /\ use = "cleared"
    /\ use' = "serving" /\ again' = FALSE
    /\ thread' = "alive"
    /\ UNCHANGED <<stopEvent, up>>

ConnectOrLose ==
    /\ thread = "alive"
    /\ up' = ~up
    /\ UNCHANGED <<thread, stopEvent, owner>>

\* Nobody is left behind who calls himself connected.
End ==
    /\ thread = "alive" /\ (stopEvent \/ ~up)
    /\ thread' = "dead" /\ up' = FALSE
    /\ UNCHANGED <<stopEvent, owner>>

Init ==
    /\ thread = "new" /\ use = "new"
    /\ ~stopEvent /\ ~up /\ ~again

Next == Start \/ Decide \/ Signal \/ Close \/ Clear \/ StartAgain
        \/ ConnectOrLose \/ End

Spec == Init /\ [][Next]_<<client, owner>>

=============================================================================
