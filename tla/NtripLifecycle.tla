--------------------------- MODULE NtripLifecycle ---------------------------
(***************************************************************************)
(* The NTRIP clients of app/gnss/autoflow.py over their lives.  The        *)
(* orchestrator thread creates one in phase 4 of a run, restarts it when   *)
(* it is stale and drops it when a run has crashed; the API thread creates *)
(* one in /ntrip/start and drops whichever there is in /ntrip/stop, abort  *)
(* and shutdown.  Both go through the same unlocked sequence of steps on   *)
(* the published client (_ntrip_client), the reader's callback and the     *)
(* client itself, so the steps of two operations may interleave.           *)
(*                                                                         *)
(* What a client's thread does while it lives is in NtripPush.             *)
(***************************************************************************)
EXTENDS Naturals, FiniteSets

CONSTANTS
    MaxClients,     \* bound: clients created
    MaxOverlaps     \* bound: operations begun during one of the other thread

ASSUME MaxClientsAssumption == MaxClients \in Nat
ASSUME MaxOverlapsAssumption == MaxOverlaps \in Nat

Client == 1 .. MaxClients

VARIABLES
    slot,           \* self._ntrip_client, or 0
    hook,           \* the client whose put_rtcm the reader calls, or 0
    created,        \* clients created so far
    thread,         \* the thread of each client: "new", "alive" or "dead"
    stopEvent,      \* its _stop_event
    up,             \* its _connected
    at,             \* the next step of the orchestrator and of the API thread
    mine,           \* the client each of them holds in a local variable, or 0
    purpose,        \* what each of them is about
    (* history *)
    overlaps        \* operations begun during one of the other thread

clients == <<created, thread, stopEvent, up>>
actors  == <<at, mine, purpose>>

vars == <<slot, hook, clients, actors, overlaps>>

Actor == {"run", "api"}
Other(a) == IF a = "run" THEN "api" ELSE "run"

\* Between operations; the run watches its client once it has started it, in
\* the loop that waits for the connection and in the one that monitors it.
Resting == {"idle", "watch"}

Steps == Resting \union {"unhook", "take", "signal", "join", "close", "unset",
                         "publish", "hook", "launch"}

\* The steps on a client.
OnClient == {"signal", "join", "close", "unset", "hook", "launch"}

Purposes == {"none", "start", "drop", "restart"}

-----------------------------------------------------------------------------
(* Operations                                                              *)

\* Operation p of thread a begins at a step.
Begin(a, p, step) ==
    /\ at' = [at EXCEPT ![a] = step]
    /\ purpose' = [purpose EXCEPT ![a] = p]
    /\ overlaps' = IF at[Other(a)] \in Resting THEN overlaps ELSE overlaps + 1
    /\ overlaps' <= MaxOverlaps
    /\ UNCHANGED <<slot, hook, clients>>

\* The steps from one resting place to another.
Goto(a, from, to) ==
    /\ at[a] = from
    /\ at' = [at EXCEPT ![a] = to]
    /\ UNCHANGED <<purpose, overlaps>>

\* Where an operation of thread a leads when it is over.
End(a) == IF a = "run" /\ purpose[a] # "drop" THEN "watch" ELSE "idle"

\* _start_ntrip in phase 4 of a run, start_ntrip_direct.
StartClient(a) ==
    /\ at[a] = "idle"
    /\ Begin(a, "start", "unhook")
    /\ UNCHANGED mine

\* _cleanup_ntrip in stop_ntrip_direct, abort and stop; the exception handler of
\* the run loop does it too, after the wait for a client that has disappeared.
DropClient(a) ==
    /\ \/ a = "api" /\ at[a] = "idle"
       \/ a = "run" /\ at[a] = "watch" /\ slot = 0
    /\ Begin(a, "drop", "unhook")
    /\ UNCHANGED mine

\* The monitor has read self._ntrip_client and finds it connected and stale.
RestartClient ==
    /\ at["run"] = "watch"
    /\ slot # 0 /\ up[slot]
    /\ mine' = [mine EXCEPT !["run"] = slot]
    /\ Begin("run", "restart", "signal")

\* The run is halted and returns from _execute.
RunEnds ==
    /\ Goto("run", "watch", "idle")
    /\ UNCHANGED <<slot, hook, clients, mine>>

-----------------------------------------------------------------------------
(* _cleanup_ntrip                                                          *)

\* Mutant of Unhook: the clean-up leaves the callback registered.
UnhookNothing(a) ==
    /\ Goto(a, "unhook", "take")
    /\ UNCHANGED <<slot, hook, clients, mine>>

\* remove_rtcm_callback
Unhook(a) ==
    /\ Goto(a, "unhook", "take")
    /\ hook' = 0
    /\ UNCHANGED <<slot, clients, mine>>

\* Mutant of Take: whatever was published is stopped, None too.
TakeUnchecked(a) ==
    /\ Goto(a, "take", "signal")
    /\ mine' = [mine EXCEPT ![a] = slot]
    /\ slot' = 0
    /\ UNCHANGED <<hook, clients>>

\* Mutant of Take: the client that is stopped stays published.
TakeAndKeep(a) ==
    /\ Goto(a, "take", IF slot # 0 THEN "signal"
                       ELSE IF purpose[a] = "start" THEN "publish" ELSE End(a))
    /\ mine' = [mine EXCEPT ![a] = slot]
    /\ UNCHANGED <<slot, hook, clients>>

\* The locked section: nobody else finds this client any more.
Take(a) ==
    /\ Goto(a, "take", IF slot # 0 THEN "signal"
                       ELSE IF purpose[a] = "start" THEN "publish" ELSE End(a))
    /\ mine' = [mine EXCEPT ![a] = slot]
    /\ slot' = 0
    /\ UNCHANGED <<hook, clients>>

(* NTRIPPushClient.stop                                                    *)

\* Mutant of Signal: stop() waits and closes the socket and sets no event.
SignalNothing(a) ==
    /\ Goto(a, "signal", "join")
    /\ UNCHANGED <<slot, hook, clients, mine>>

Signal(a) ==
    /\ Goto(a, "signal", "join")
    /\ stopEvent' = [stopEvent EXCEPT ![mine[a]] = TRUE]
    /\ UNCHANGED <<slot, hook, created, thread, up, mine>>

\* join(timeout=5.0): the thread has ended, or it has not.
Join(a) ==
    /\ Goto(a, "join", "close")
    /\ UNCHANGED <<slot, hook, clients, mine>>

\* _close_socket
Close(a) ==
    /\ Goto(a, "close", CASE purpose[a] = "restart" -> "unset"
                          [] purpose[a] = "start"   -> "publish"
                          [] OTHER                  -> End(a))
    /\ up' = [up EXCEPT ![mine[a]] = FALSE]
    /\ UNCHANGED <<slot, hook, created, thread, stopEvent, mine>>

-----------------------------------------------------------------------------
(* The rest of a start and of a restart                                    *)

\* client._stop_event.clear()
Unset(a) ==
    /\ Goto(a, "unset", "launch")
    /\ stopEvent' = [stopEvent EXCEPT ![mine[a]] = FALSE]
    /\ UNCHANGED <<slot, hook, created, thread, up, mine>>

\* A new client, and the locked section that publishes it.
Publish(a) ==
    /\ created < MaxClients
    /\ Goto(a, "publish", "hook")
    /\ created' = created + 1
    /\ mine' = [mine EXCEPT ![a] = created']
    /\ slot' = created'
    /\ UNCHANGED <<hook, thread, stopEvent, up>>

\* set_rtcm_callback
Hook(a) ==
    /\ Goto(a, "hook", "launch")
    /\ hook' = mine[a]
    /\ UNCHANGED <<slot, clients, mine>>

\* start(): a thread that is alive is left alone.
Launch(a) ==
    /\ Goto(a, "launch", End(a))
    /\ IF thread[mine[a]] = "alive"
         THEN UNCHANGED <<thread, stopEvent>>
         ELSE /\ thread' = [thread EXCEPT ![mine[a]] = "alive"]
              /\ stopEvent' = [stopEvent EXCEPT ![mine[a]] = FALSE]
    /\ UNCHANGED <<slot, hook, created, up, mine>>

-----------------------------------------------------------------------------
(* The clients' own threads                                                *)

clientFrame == <<slot, hook, created, stopEvent, actors, overlaps>>

\* It connects, even if told to stop during the attempt, or loses the caster.
ConnectOrLose(c) ==
    /\ thread[c] = "alive"
    /\ up' = [up EXCEPT ![c] = ~up[c]]
    /\ UNCHANGED <<thread, clientFrame>>

\* It ends when told, or after the third refusal.
ThreadEnds(c) ==
    /\ thread[c] = "alive" /\ (stopEvent[c] \/ ~up[c])
    /\ thread' = [thread EXCEPT ![c] = "dead"]
    /\ up' = [up EXCEPT ![c] = FALSE]
    /\ UNCHANGED clientFrame

-----------------------------------------------------------------------------
Init ==
    /\ slot = 0 /\ hook = 0 /\ created = 0
    /\ thread = [c \in Client |-> "new"]
    /\ stopEvent = [c \in Client |-> FALSE]
    /\ up = [c \in Client |-> FALSE]
    /\ at = [a \in Actor |-> "idle"]
    /\ mine = [a \in Actor |-> 0]
    /\ purpose = [a \in Actor |-> "none"]
    /\ overlaps = 0

Operation(a) == StartClient(a) \/ DropClient(a)

Continue(a) == Unhook(a) \/ Take(a) \/ Signal(a) \/ Join(a) \/ Close(a) \/ Unset(a)
               \/ Publish(a) \/ Hook(a) \/ Launch(a)

Next ==
    \/ \E a \in Actor : Operation(a) \/ Continue(a)
    \/ RestartClient \/ RunEnds
    \/ \E c \in Client : ConnectOrLose(c) \/ ThreadEnds(c)

Spec == Init /\ [][Next]_vars

-----------------------------------------------------------------------------
(* Properties                                                              *)

\* Every variable stays within its type, and a thread that is at a step on a
\* client has one: _cleanup_ntrip stops nothing when nothing was published.
TypeOK ==
    /\ slot \in 0 .. created /\ hook \in 0 .. created
    /\ created \in 0 .. MaxClients
    /\ thread \in [Client -> {"new", "alive", "dead"}]
    /\ stopEvent \in [Client -> BOOLEAN] /\ up \in [Client -> BOOLEAN]
    /\ at \in [Actor -> Steps] /\ at["api"] # "watch"
    /\ mine \in [Actor -> 0 .. created]
    /\ purpose \in [Actor -> Purposes]
    /\ \A a \in Actor : at[a] \in OnClient => mine[a] # 0
    /\ overlaps \in 0 .. MaxOverlaps

\* Clients that run, have not been told to stop, and will not be: nobody has
\* published them and nobody is about to stop them.
Orphans ==
    {c \in Client : /\ thread[c] = "alive" /\ ~stopEvent[c] /\ c # slot
                    /\ \A a \in Actor : ~(at[a] = "signal" /\ mine[a] = c)}

\* A client nobody can stop any more comes only from operations that overlapped,
\* and every overlap leaves one at most.
OrphansBounded == Cardinality(Orphans) <= overlaps

\* While operations have not overlapped, and between them, no client but the
\* published one runs, and it is the one that gets the frames.
PublishedIsFed ==
    overlaps = 0 /\ (\A a \in Actor : at[a] \in Resting)
        => hook = slot /\ Orphans = {}

\* The actor that is busy with client c, if one is.
Busy(c, steps) == \E a \in Actor : mine[a] = c /\ at[a] \in steps

\* What has been done with client c, to the eyes of the client.
Use(c) ==
    CASE c > created \/ Busy(c, {"hook"})          -> "new"
      [] Busy(c, {"signal"})                       -> "doomed"
      [] Busy(c, {"join", "close"})                -> "stopping"
      [] Busy(c, {"unset"})                        -> "stopped"
      [] Busy(c, {"launch"})                       -> IF thread[c] = "new" THEN "new" ELSE "cleared"
      [] OTHER                                     -> IF c = slot THEN "serving" ELSE "stopped"

Again(c) ==
    \E a \in Actor : mine[a] = c /\ at[a] \in OnClient /\ purpose[a] = "restart"

Life(c) == INSTANCE NtripClient WITH
    thread <- thread[c], stopEvent <- stopEvent[c], up <- up[c],
    use <- Use(c), again <- Again(c)

NewClients == \A c \in Client : Life(c)!Init

\* As long as operations do not overlap every client has the one owner NtripPush
\* gives it, whichever threads the operations come from: it is stopped by whom
\* it was published to, and neither started nor told to run again after that.
OneOwnerEach ==
    /\ NewClients
    /\ [][overlaps' = 0 =>
            \A c \in Client : Life(c)!Next \/ UNCHANGED <<Life(c)!client, Life(c)!owner>>]_vars

=============================================================================
