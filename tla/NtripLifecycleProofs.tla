------------------------ MODULE NtripLifecycleProofs ------------------------
(***************************************************************************)
(* Theorems about NtripLifecycle, for every number of clients and of       *)
(* overlaps: types, who is fed, how many clients can be lost, and that     *)
(* every client has one owner as long as operations do not overlap.        *)
(***************************************************************************)
EXTENDS NtripLifecycle, FiniteSetTheorems, TLAPS

-----------------------------------------------------------------------------
(* Type correctness                                                        *)

\* The fields of the clients and of the orchestrator.
ClientsOK ==
    /\ slot \in 0 .. created /\ hook \in 0 .. created
    /\ created \in 0 .. MaxClients
    /\ thread \in [Client -> {"new", "alive", "dead"}]
    /\ stopEvent \in [Client -> BOOLEAN] /\ up \in [Client -> BOOLEAN]

\* The threads between and within operations.
ActorsOK ==
    /\ at \in [Actor -> Steps] /\ at["api"] # "watch"
    /\ mine \in [Actor -> 0 .. created]
    /\ purpose \in [Actor -> Purposes]
    /\ \A a \in Actor : at[a] \in OnClient => mine[a] # 0

\* The type invariant, in the parts the proofs use.
LEMMA TypeParts == TypeOK <=> ClientsOK /\ ActorsOK /\ overlaps \in 0 .. MaxOverlaps
BY DEF TypeOK, ClientsOK, ActorsOK

\* A client in somebody's hands is a client.
LEMMA MineIsClient ==
    ASSUME ClientsOK, ActorsOK, NEW a \in Actor, mine[a] # 0
    PROVE  mine[a] \in Client
BY MaxClientsAssumption DEF ClientsOK, ActorsOK, Client

\* Where an operation ends, nobody is at work on a client.
LEMMA Places ==
    ASSUME NEW a \in Actor
    PROVE  /\ End(a) \in Resting /\ (a = "api" => End(a) = "idle")
           /\ Resting \subseteq Steps /\ OnClient \subseteq Steps
           /\ {"idle", "unhook", "take", "publish"} \subseteq Steps
           /\ Resting \intersect OnClient = {}
BY DEF End, Resting, Steps, OnClient

\* Only a new client is counted.
LEMMA ClientsStep == ClientsOK /\ ActorsOK /\ [Next]_vars => ClientsOK'
<1> SUFFICES ASSUME ClientsOK, ActorsOK, [Next]_vars PROVE ClientsOK'
    OBVIOUS
<1> USE MaxClientsAssumption
<1>1. CASE UNCHANGED <<slot, hook, clients>>
  BY <1>1 DEF ClientsOK, clients
<1>2. ASSUME NEW a \in Actor, Continue(a) PROVE ClientsOK'
  <2>1. CASE Unhook(a) \/ Take(a)
    BY <2>1 DEF Unhook, Take, ClientsOK, clients
  <2>2. CASE Signal(a) \/ Close(a) \/ Unset(a)
    BY <2>2 DEF Signal, Close, Unset, ClientsOK
  <2>3. CASE Join(a)
    BY <2>3, <1>1 DEF Join
  <2>4. CASE Publish(a)
    BY <2>4 DEF Publish, ClientsOK
  <2>5. CASE Hook(a)
    BY <2>5 DEF Hook, ClientsOK, ActorsOK, clients
  <2>6. CASE Launch(a)
    BY <2>6 DEF Launch, ClientsOK
  <2>7. QED BY <1>2, <2>1, <2>2, <2>3, <2>4, <2>5, <2>6 DEF Continue
<1>3. ASSUME NEW c \in Client, ConnectOrLose(c) \/ ThreadEnds(c) PROVE ClientsOK'
  BY <1>3 DEF ConnectOrLose, ThreadEnds, clientFrame, ClientsOK
<1>4. ASSUME NEW a \in Actor, Operation(a) PROVE ClientsOK'
  BY <1>1, <1>4 DEF Operation, StartClient, DropClient, Begin
<1>5. CASE RestartClient \/ RunEnds \/ UNCHANGED vars
  BY <1>1, <1>5 DEF RestartClient, Begin, RunEnds, vars
<1>6. QED BY <1>2, <1>3, <1>4, <1>5 DEF Next

\* Who goes to a step on a client takes one along.
LEMMA ActorsStep == ClientsOK /\ ActorsOK /\ [Next]_vars => ActorsOK'
<1> SUFFICES ASSUME ClientsOK, ActorsOK, [Next]_vars PROVE ActorsOK'
    OBVIOUS
<1>1. "run" \in Actor /\ "api" \in Actor
  BY DEF Actor
<1>2. CASE UNCHANGED <<at, mine, purpose, created>>
  BY <1>2 DEF ActorsOK
<1>3. ASSUME NEW a \in Actor, Continue(a) PROVE ActorsOK'
  <2> USE <1>1, Places DEF ActorsOK, Goto, clients
  <2>1. CASE Unhook(a) \/ Join(a)
    BY <2>1 DEF Unhook, Join, Steps, OnClient
  <2>2. CASE Take(a)
    BY <2>2 DEF Take, ClientsOK, Steps, OnClient, End
  <2>3. CASE Signal(a) \/ Unset(a)
    BY <2>3 DEF Signal, Unset, Steps, OnClient
  <2>4. CASE Close(a)
    BY <2>4 DEF Close, Steps, OnClient, End
  <2>5. CASE Publish(a)
    BY <2>5, MaxClientsAssumption DEF Publish, ClientsOK, Steps, OnClient
  <2>6. CASE Hook(a)
    BY <2>6 DEF Hook, Steps, OnClient
  <2>7. CASE Launch(a)
    BY <2>7 DEF Launch, Steps, OnClient, End
  <2>8. QED BY <1>3, <2>1, <2>2, <2>3, <2>4, <2>5, <2>6, <2>7 DEF Continue
<1>4. ASSUME NEW a \in Actor, Operation(a) PROVE ActorsOK'
  BY <1>1, <1>4 DEF Operation, StartClient, DropClient, Begin, ActorsOK, Steps, OnClient,
     Purposes, clients
<1>5. CASE RestartClient
  BY <1>1, <1>5 DEF RestartClient, Begin, ActorsOK, ClientsOK, Steps, OnClient, Purposes, clients
<1>6. CASE RunEnds
  BY <1>1, <1>6 DEF RunEnds, Goto, ActorsOK, Steps, Resting, OnClient, clients
<1>7. ASSUME NEW c \in Client, ConnectOrLose(c) \/ ThreadEnds(c) PROVE ActorsOK'
  BY <1>2, <1>7 DEF ConnectOrLose, ThreadEnds, clientFrame, actors
<1>8. CASE UNCHANGED vars
  BY <1>2, <1>8 DEF vars, actors, clients
<1>9. QED BY <1>3, <1>4, <1>5, <1>6, <1>7, <1>8 DEF Next

\* The overlaps stay within their bound.
LEMMA OverlapsStep == overlaps \in 0 .. MaxOverlaps /\ [Next]_vars => overlaps' \in 0 .. MaxOverlaps
<1> SUFFICES ASSUME overlaps \in 0 .. MaxOverlaps, [Next]_vars
             PROVE  overlaps' \in 0 .. MaxOverlaps
    OBVIOUS
<1>1. UNCHANGED overlaps \/ (overlaps' \in {overlaps, overlaps + 1} /\ overlaps' <= MaxOverlaps)
  BY DEF Next, Operation, StartClient, DropClient, RestartClient, Begin, RunEnds, Goto,
     Continue, Unhook, Take, Signal, Join, Close, Unset, Publish, Hook, Launch,
     ConnectOrLose, ThreadEnds, clientFrame, vars
<1>2. QED BY <1>1, MaxOverlapsAssumption

\* Every variable stays within its type, and a thread at a step on a client has one:
\* _cleanup_ntrip stops nothing when nothing was published.
THEOREM TypeCorrect == Spec => []TypeOK
<1>1. Init => TypeOK
  <2> SUFFICES ASSUME Init PROVE TypeOK
      OBVIOUS
  <2>1. ClientsOK
    BY MaxClientsAssumption DEF Init, ClientsOK
  <2>2. ActorsOK
    BY DEF Init, ActorsOK, Actor, Steps, Resting, OnClient, Purposes
  <2>3. QED BY <2>1, <2>2, TypeParts, MaxOverlapsAssumption DEF Init
<1>2. TypeOK /\ [Next]_vars => TypeOK'
  <2> SUFFICES ASSUME TypeOK, [Next]_vars PROVE TypeOK'
      OBVIOUS
  <2>1. ClientsOK' /\ ActorsOK' /\ overlaps' \in 0 .. MaxOverlaps
    BY TypeParts, ClientsStep, ActorsStep, OverlapsStep
  <2>2. QED BY <2>1 DEF TypeOK, ClientsOK, ActorsOK
<1>3. QED BY <1>1, <1>2, PTL DEF Spec

-----------------------------------------------------------------------------
(* One operation at a time                                                 *)

\* Whoever runs and has not been told to stop is published or about to be told.
Known ==
    \A c \in Client :
        thread[c] = "alive" /\ ~stopEvent[c]
            => c = slot \/ \E a \in Actor : at[a] = "signal" /\ mine[a] = c

\* How far thread a has got with the client, the hook and the published client.
Stage(a) ==
    /\ at[a] \in {"unhook", "take", "publish", "hook"} => purpose[a] # "restart"
    /\ at[a] \in {"take", "publish"} => hook = 0
    /\ at[a] = "publish" => slot = 0
    /\ at[a] \in {"signal", "join", "close"}
         => IF purpose[a] = "restart" THEN mine[a] = slot /\ hook = slot
                                      ELSE slot = 0 /\ hook = 0
    /\ at[a] \in {"unset", "hook", "launch"} => mine[a] = slot
    /\ at[a] \in {"unset", "launch"} => hook = slot

Single ==
    /\ \E a \in Actor : at[a] \in Resting
    /\ Known
    /\ (\A a \in Actor : at[a] \in Resting) => hook = slot
    /\ \A a \in Actor : Stage(a)

SingleInv == overlaps = 0 => Single

\* There are two actors.
LEMMA Others ==
    ASSUME NEW a \in Actor
    PROVE  /\ Other(a) \in Actor /\ Other(a) # a
           /\ \A b \in Actor : b = a \/ b = Other(a)
BY DEF Actor, Other

\* An operation begins while the other thread rests.
LEMMA BeginKeeps ==
    ASSUME ClientsOK, ActorsOK, Single, NEW a \in Actor, NEW p, NEW s,
           at[a] \in Resting, at[Other(a)] \in Resting,
           at' = [at EXCEPT ![a] = s], purpose' = [purpose EXCEPT ![a] = p],
           UNCHANGED <<slot, hook, clients>>,
           \/ s = "unhook" /\ p # "restart" /\ mine' = mine
           \/ s = "signal" /\ p = "restart" /\ slot # 0 /\ mine' = [mine EXCEPT ![a] = slot]
    PROVE  Single'
<1>1. hook = slot
  BY Others DEF Single
<1>2. at'[a] = s /\ purpose'[a] = p /\ at'[Other(a)] = at[Other(a)]
  BY Others DEF ActorsOK
<1>3. /\ s = "signal" => mine'[a] = slot
      /\ s \in {"unhook", "signal"}
  BY DEF ActorsOK
<1>4. s \notin Resting
  BY <1>3 DEF Resting
<1>5. Known'
  BY <1>4 DEF Known, Single, clients, ActorsOK, Resting
<1>6. Stage(a)'
  BY <1>1, <1>2, <1>3 DEF Stage
<1>7. Stage(Other(a))'
  BY <1>2, Others DEF Stage, Resting
<1>8. QED BY <1>2, <1>4, <1>5, <1>6, <1>7, Others DEF Single

\* A step of an operation while the other thread rests.
LEMMA ContinueKeeps ==
    ASSUME ClientsOK, ActorsOK, Single, NEW a \in Actor, Continue(a)
    PROVE  Single'
<1>1. at[a] \notin Resting
  BY DEF Continue, Unhook, Take, Signal, Join, Close, Unset, Publish, Hook, Launch, Goto, Resting
<1>2. at[Other(a)] \in Resting
  BY <1>1, Others DEF Single
<1>3. at'[Other(a)] = at[Other(a)]
  BY Others DEF Continue, Unhook, Take, Signal, Join, Close, Unset, Publish, Hook, Launch,
     Goto, ActorsOK
<1>4. Stage(Other(a))'
  BY <1>2, <1>3 DEF Stage, Resting
<1>5. \A c \in Client : thread[c] = "alive" /\ ~stopEvent[c]
        => c = slot \/ (at[a] = "signal" /\ mine[a] = c)
  BY <1>2, Others DEF Single, Known, Resting
<1>6. /\ \A c \in Client : (thread[c] = "alive" /\ ~stopEvent[c])'
             => c = slot' \/ (at'[a] = "signal" /\ mine'[a] = c)
      /\ Stage(a)'
      /\ at'[a] \in Resting => hook' = slot'
  <2> USE DEF Goto, clients
  <2>0. Stage(a)
    BY DEF Single
  <2>m. mine[a] # 0 => mine[a] \in Client
    BY MineIsClient
  <2>1. CASE Unhook(a)
    BY <1>5, <2>0, <2>1 DEF Unhook, Stage, ActorsOK, Resting
  <2>2. CASE Take(a)
    BY <1>5, <2>0, <2>2, MaxClientsAssumption DEF Take, Stage, ActorsOK, ClientsOK, Resting, End, Client
  <2>3. CASE Signal(a)
    BY <1>5, <2>0, <2>3 DEF Signal, Stage, ActorsOK, ClientsOK, Resting
  <2>4. CASE Join(a)
    BY <1>5, <2>0, <2>4 DEF Join, Stage, ActorsOK, Resting
  <2>5. CASE Close(a)
    BY <1>5, <2>0, <2>5 DEF Close, Stage, ActorsOK, ClientsOK, Resting, End
  <2>6. CASE Unset(a)
    BY <1>5, <2>0, <2>6 DEF Unset, Stage, ActorsOK, ClientsOK, Resting
  <2>7. CASE Publish(a)
    BY <1>5, <2>0, <2>7, MaxClientsAssumption DEF Publish, Stage, ActorsOK, ClientsOK, Resting, Client
  <2>8. CASE Hook(a)
    BY <1>5, <2>0, <2>8 DEF Hook, Stage, ActorsOK, Resting
  <2>9. CASE Launch(a)
    BY <1>5, <2>0, <2>9 DEF Launch, Stage, ActorsOK, ClientsOK, Resting, End
  <2>10. QED BY <2>1, <2>2, <2>3, <2>4, <2>5, <2>6, <2>7, <2>8, <2>9 DEF Continue
<1>7. Known'
  BY <1>6 DEF Known
<1>8. QED BY <1>2, <1>3, <1>4, <1>6, <1>7, Others DEF Single

\* Without an overlap nothing breaks SingleInv.
LEMMA SingleStep ==
    ClientsOK /\ ActorsOK /\ overlaps \in Nat /\ SingleInv /\ [Next]_vars => SingleInv'
<1> SUFFICES ASSUME ClientsOK, ActorsOK, overlaps \in Nat, SingleInv, [Next]_vars,
                    overlaps' = 0
             PROVE  Single'
    BY DEF SingleInv
<1>1. overlaps = 0 /\ Single
  <2>1. overlaps' = overlaps \/ overlaps' = overlaps + 1
    BY DEF Next, Operation, StartClient, DropClient, RestartClient, Begin, RunEnds, Goto,
       Continue, Unhook, Take, Signal, Join, Close, Unset, Publish, Hook, Launch,
       ConnectOrLose, ThreadEnds, clientFrame, vars
  <2>2. QED BY <2>1 DEF SingleInv
<1>2. ASSUME NEW a \in Actor, Continue(a) PROVE Single'
  BY <1>1, <1>2, ContinueKeeps
<1>3. ASSUME NEW a \in Actor, Operation(a) PROVE Single'
  <2>1. PICK p \in {"start", "drop"} : Begin(a, p, "unhook") /\ UNCHANGED mine
    BY <1>3 DEF Operation, StartClient, DropClient
  <2>2. at[Other(a)] \in Resting
    BY <1>1, <2>1 DEF Begin
  <2>3. at[a] \in Resting
    BY <1>3 DEF Operation, StartClient, DropClient, Resting
  <2>4. QED BY <1>1, <2>1, <2>2, <2>3, BeginKeeps DEF Begin
<1>4. CASE RestartClient
  <2>1. "run" \in Actor /\ at["run"] \in Resting
    BY <1>4 DEF RestartClient, Actor, Resting
  <2>2. /\ at' = [at EXCEPT !["run"] = "signal"]
        /\ purpose' = [purpose EXCEPT !["run"] = "restart"]
        /\ mine' = [mine EXCEPT !["run"] = slot] /\ slot # 0
        /\ UNCHANGED <<slot, hook, clients>>
    BY <1>4 DEF RestartClient, Begin
  <2>3. at[Other("run")] \in Resting
    BY <1>1, <1>4 DEF RestartClient, Begin
  <2>4. QED BY <1>1, <2>1, <2>2, <2>3, BeginKeeps
<1>5. CASE RunEnds
  <2>1. /\ UNCHANGED <<slot, hook, clients, mine, purpose>>
        /\ at["run"] = "watch" /\ at' = [at EXCEPT !["run"] = "idle"]
    BY <1>5 DEF RunEnds, Goto
  <2>2. "run" \in Actor
    BY DEF Actor
  <2>3. \A a \in Actor : at'[a] = at[a] \/ (at[a] = "watch" /\ at'[a] = "idle")
    BY <2>1, <2>2 DEF ActorsOK
  <2>4. QED BY <1>1, <2>1, <2>3 DEF Single, Known, Stage, Resting, clients
<1>6. ASSUME NEW c \in Client, ConnectOrLose(c) \/ ThreadEnds(c) PROVE Single'
  <2>1. UNCHANGED <<slot, hook, at, mine, purpose, stopEvent>>
    BY <1>6 DEF ConnectOrLose, ThreadEnds, clientFrame, actors
  <2>2. \A d \in Client : thread'[d] = "alive" => thread[d] = "alive"
    BY <1>6 DEF ConnectOrLose, ThreadEnds, ClientsOK
  <2>3. QED BY <1>1, <2>1, <2>2 DEF Single, Known, Stage
<1>7. CASE UNCHANGED vars
  BY <1>1, <1>7 DEF vars, clients, actors, Single, Known, Stage
<1>8. QED BY <1>2, <1>3, <1>4, <1>5, <1>6, <1>7 DEF Next

\* While operations have not overlapped, and between them, no client but the
\* published one runs, and it is the one that gets the frames (_start_ntrip,
\* _cleanup_ntrip, the restart of a stale client).
THEOREM PublishedIsFedAlways == Spec => []PublishedIsFed
<1> DEFINE Inv == ClientsOK /\ ActorsOK /\ overlaps \in 0 .. MaxOverlaps /\ SingleInv
<1>1. Init => Inv
  <2> SUFFICES ASSUME Init PROVE Inv
      OBVIOUS
  <2>1. ClientsOK
    BY MaxClientsAssumption DEF Init, ClientsOK
  <2>2. ActorsOK
    BY DEF Init, ActorsOK, Actor, Steps, Resting, OnClient, Purposes
  <2>3. Single
    BY DEF Init, Single, Known, Stage, Actor, Resting
  <2>4. QED BY <2>1, <2>2, <2>3, MaxOverlapsAssumption DEF Init, SingleInv
<1>2. Inv /\ [Next]_vars => Inv'
  <2>1. \A n \in 0 .. MaxOverlaps : n \in Nat
    BY MaxOverlapsAssumption
  <2>2. QED BY <2>1, ClientsStep, ActorsStep, OverlapsStep, SingleStep
<1>3. Inv => PublishedIsFed
  <2> SUFFICES ASSUME Inv, overlaps = 0, \A a \in Actor : at[a] \in Resting
               PROVE  hook = slot /\ Orphans = {}
      BY DEF PublishedIsFed
  <2>1. Single
    BY DEF SingleInv
  <2>2. \A c \in Client : thread[c] = "alive" /\ ~stopEvent[c] => c = slot
    BY <2>1 DEF Single, Known, Resting
  <2>3. QED BY <2>1, <2>2 DEF Single, Orphans
<1>4. QED BY <1>1, <1>2, <1>3, PTL DEF Spec

-----------------------------------------------------------------------------
(* Operations that overlap                                                 *)

\* Thread a still has the launch of its client before it.
Relaunching(a) ==
    \/ at[a] \in {"unset", "hook", "launch"}
    \/ at[a] \in {"signal", "join", "close"} /\ purpose[a] = "restart"

\* It has yet to look for a client to stop; it has done so and has yet to publish.
Early(a) == at[a] \in {"unhook", "take"}

Unpublished(a) ==
    \/ at[a] = "publish"
    \/ at[a] \in {"signal", "join", "close"} /\ purpose[a] = "start"

\* Clients that nobody will stop any more, or that somebody will launch although
\* they are not published.
Loose(c) ==
    /\ thread[c] = "alive" /\ ~stopEvent[c]
    /\ \A a \in Actor : ~(at[a] = "signal" /\ mine[a] = c)

Doomed(c) == \E a \in Actor : Relaunching(a) /\ mine[a] = c

Lost == {c \in Client : c # slot /\ (Loose(c) \/ Doomed(c))}

\* A client is published that somebody is about to replace without stopping it.
Exposed == slot # 0 /\ \E a \in Actor : Unpublished(a)

\* Two operations are under way that may still lose a client between them.
Contested ==
    /\ \A a \in Actor : at[a] \notin Resting
    /\ (\E a \in Actor : Early(a)) \/ (\A a \in Actor : Unpublished(a))

\* How many more clients the operations under way can lose.
Danger == (IF Exposed THEN 1 ELSE 0) + (IF Contested THEN 1 ELSE 0)

\* Which operations the steps belong to; while both are about to publish nothing
\* is published.
Purposeful ==
    /\ \A a \in Actor :
         /\ Early(a) => purpose[a] \in {"start", "drop"}
         /\ at[a] \in {"publish", "hook"} => purpose[a] = "start"
         /\ at[a] = "unset" => purpose[a] = "restart"
         /\ at[a] = "launch" => purpose[a] \in {"start", "restart"}
    /\ (\A a \in Actor : Unpublished(a)) => slot = 0

\* What a step may do: lose none, or the published one at the expense of the danger.
Within(n) ==
    \/ Lost' \subseteq Lost /\ Danger' <= Danger + n
    \/ Lost' \subseteq Lost \union {slot} /\ Danger' + 1 <= Danger + n

Steady == Lost' \subseteq Lost /\ (Exposed' => Exposed) /\ (Contested' => Contested)

\* While operations do not overlap no client is lost or in danger.
LEMMA SteadyWithin == Steady => Within(0)
BY DEF Steady, Within, Danger

\* One step of an operation of thread a.
LEMMA ContinueWithin ==
    ASSUME ClientsOK, ActorsOK, Purposeful, NEW a \in Actor, Continue(a)
    PROVE  Within(0) /\ Purposeful'
<1> DEFINE b == Other(a)
<1>o. b \in Actor /\ b # a /\ \A x \in Actor : x = a \/ x = b
  BY Others
<1>b. at'[b] = at[b] /\ mine'[b] = mine[b] /\ purpose' = purpose
  BY <1>o DEF Continue, Unhook, Take, Signal, Join, Close, Unset, Publish, Hook, Launch,
     Goto, ActorsOK
<1>m. mine[a] # 0 => mine[a] \in Client
  BY MineIsClient
<1>p. /\ Early(a) => purpose[a] \in {"start", "drop"}
      /\ at[a] \in {"publish", "hook"} => purpose[a] = "start"
      /\ at[a] = "unset" => purpose[a] = "restart"
      /\ at[a] = "launch" => purpose[a] \in {"start", "restart"}
  BY DEF Purposeful
<1>e. End(a) \in Resting
  BY Places
<1> HIDE DEF b
<1> USE DEF Goto, clients
<1>1. CASE Unhook(a)
  <2>1. /\ at[a] = "unhook" /\ at'[a] = "take"
        /\ UNCHANGED <<slot, mine, thread, stopEvent>>
    BY <1>1 DEF Unhook, ActorsOK
  <2>2. Steady
    BY <2>1, <1>o, <1>b DEF Steady, Lost, Loose, Doomed, Relaunching, Exposed, Contested,
       Early, Unpublished, Resting
  <2>3. Purposeful'
    BY <2>1, <1>o, <1>b DEF Purposeful, Early, Unpublished
  <2>4. QED BY <2>2, <2>3, SteadyWithin
<1>3. CASE Signal(a)
  <2>1. /\ at[a] = "signal" /\ at'[a] = "join" /\ mine[a] # 0
        /\ stopEvent' = [stopEvent EXCEPT ![mine[a]] = TRUE]
        /\ UNCHANGED <<slot, mine, thread>>
    BY <1>3 DEF Signal, ActorsOK, OnClient
  <2>2. \A c \in Client : Loose(c)' => Loose(c)
    BY <2>1, <1>m, <1>o, <1>b DEF Loose, ClientsOK
  <2>3. Steady
    BY <2>1, <2>2, <1>o, <1>b DEF Steady, Lost, Doomed, Relaunching, Exposed, Contested,
       Early, Unpublished, Resting
  <2>4. Purposeful'
    BY <2>1, <1>o, <1>b DEF Purposeful, Early, Unpublished
  <2>5. QED BY <2>3, <2>4, SteadyWithin
<1>4. CASE Join(a)
  <2>1. /\ at[a] = "join" /\ at'[a] = "close"
        /\ UNCHANGED <<slot, mine, thread, stopEvent>>
    BY <1>4 DEF Join, ActorsOK
  <2>2. Steady
    BY <2>1, <1>o, <1>b DEF Steady, Lost, Loose, Doomed, Relaunching, Exposed, Contested,
       Early, Unpublished, Resting
  <2>3. Purposeful'
    BY <2>1, <1>o, <1>b DEF Purposeful, Early, Unpublished
  <2>4. QED BY <2>2, <2>3, SteadyWithin
<1>5. CASE Close(a)
  <2>1. /\ at[a] = "close" /\ UNCHANGED <<slot, mine, thread, stopEvent>>
        /\ at'[a] = CASE purpose[a] = "restart" -> "unset"
                      [] purpose[a] = "start"   -> "publish"
                      [] OTHER                  -> End(a)
    BY <1>5 DEF Close, ActorsOK
  <2>2. \/ purpose[a] = "restart" /\ at'[a] = "unset"
        \/ purpose[a] = "start" /\ at'[a] = "publish"
        \/ purpose[a] \notin {"restart", "start"} /\ at'[a] \in Resting
    BY <2>1, <1>e
  <2>3. Steady
    BY <2>1, <2>2, <1>o, <1>b DEF Steady, Lost, Loose, Doomed, Relaunching, Exposed,
       Contested, Early, Unpublished, Resting
  <2>4. Purposeful'
    BY <2>1, <2>2, <1>o, <1>b DEF Purposeful, Early, Unpublished, Resting
  <2>5. QED BY <2>3, <2>4, SteadyWithin
<1>6. CASE Unset(a)
  <2>1. /\ at[a] = "unset" /\ at'[a] = "launch" /\ mine[a] # 0
        /\ stopEvent' = [stopEvent EXCEPT ![mine[a]] = FALSE]
        /\ UNCHANGED <<slot, mine, thread>>
    BY <1>6 DEF Unset, ActorsOK, OnClient
  <2>2. \A c \in Client : Loose(c)' => Loose(c) \/ c = mine[a]
    BY <2>1, <1>m, <1>o, <1>b DEF Loose, ClientsOK
  <2>3. Doomed(mine[a])
    BY <2>1 DEF Doomed, Relaunching
  <2>4. Steady
    BY <2>1, <2>2, <2>3, <1>o, <1>b DEF Steady, Lost, Doomed, Relaunching, Exposed,
       Contested, Early, Unpublished, Resting
  <2>5. Purposeful'
    BY <2>1, <1>o, <1>b, <1>p DEF Purposeful, Early, Unpublished
  <2>6. QED BY <2>4, <2>5, SteadyWithin
<1>8. CASE Hook(a)
  <2>1. /\ at[a] = "hook" /\ at'[a] = "launch"
        /\ UNCHANGED <<slot, mine, thread, stopEvent>>
    BY <1>8 DEF Hook, ActorsOK
  <2>2. Steady
    BY <2>1, <1>o, <1>b DEF Steady, Lost, Loose, Doomed, Relaunching, Exposed, Contested,
       Early, Unpublished, Resting
  <2>3. Purposeful'
    BY <2>1, <1>o, <1>b, <1>p DEF Purposeful, Early, Unpublished
  <2>4. QED BY <2>2, <2>3, SteadyWithin
<1>9. CASE Launch(a)
  <2>1. /\ at[a] = "launch" /\ at'[a] \in Resting /\ UNCHANGED <<slot, mine>>
    BY <1>9, <1>e DEF Launch, ActorsOK
  <2>2. \A c \in Client : c # mine[a] => thread'[c] = thread[c] /\ stopEvent'[c] = stopEvent[c]
    BY <1>9 DEF Launch, ClientsOK
  <2>3. Doomed(mine[a])
    BY <2>1 DEF Doomed, Relaunching
  <2>4. \A c \in Client : Loose(c)' => Loose(c) \/ c = mine[a]
    BY <2>1, <2>2, <1>o, <1>b DEF Loose
  <2>5. Steady
    BY <2>1, <2>3, <2>4, <1>o, <1>b DEF Steady, Lost, Doomed, Relaunching, Exposed,
       Contested, Early, Unpublished, Resting
  <2>6. Purposeful'
    BY <2>1, <1>o, <1>b DEF Purposeful, Early, Unpublished, Resting
  <2>7. QED BY <2>5, <2>6, SteadyWithin
<1>2. CASE Take(a)
  <2>1. /\ at[a] = "take" /\ slot' = 0 /\ mine'[a] = slot
        /\ UNCHANGED <<thread, stopEvent>>
        /\ purpose[a] \in {"start", "drop"}
        /\ \/ slot # 0 /\ at'[a] = "signal"
           \/ slot = 0 /\ purpose[a] = "start" /\ at'[a] = "publish"
           \/ slot = 0 /\ at'[a] \in Resting
    BY <1>2, <1>e, <1>p DEF Take, ActorsOK, Early
  <2>2. Purposeful'
    BY <2>1, <1>o, <1>b DEF Purposeful, Early, Unpublished, Resting
  <2>3. ~Exposed' /\ (Contested' => Contested)
    BY <2>1, <1>o, <1>b DEF Exposed, Contested, Early, Resting
  <2>4. \A c \in Client : Loose(c)' => Loose(c) /\ c # slot
    BY <2>1, <1>o, <1>b, MaxClientsAssumption DEF Loose, Client
  <2>5. \A c \in Client : Doomed(c)' => Doomed(c)
    BY <2>1, <1>o, <1>b DEF Doomed, Relaunching, Resting
  <2>6. CASE slot # 0 /\ Relaunching(b) /\ mine[b] = slot
    <3>1. Contested /\ ~Contested'
      BY <2>1, <2>6, <1>o, <1>b DEF Contested, Early, Unpublished, Relaunching, Resting
    <3>2. Lost' \subseteq Lost \union {slot}
      BY <2>4, <2>5 DEF Lost
    <3>3. QED BY <2>2, <2>3, <3>1, <3>2 DEF Within, Danger
  <2>7. CASE ~(slot # 0 /\ Relaunching(b) /\ mine[b] = slot)
    <3>1. \A c \in Client : Doomed(c)' => c # slot
      BY <2>1, <2>7, <1>o, <1>b, MaxClientsAssumption DEF Doomed, Relaunching, Resting, Client
    <3>2. Steady
      BY <2>3, <2>4, <2>5, <3>1 DEF Steady, Lost
    <3>3. QED BY <2>2, <3>2, SteadyWithin
  <2>8. QED BY <2>6, <2>7
<1>7. CASE Publish(a)
  <2>1. /\ at[a] = "publish" /\ at'[a] = "hook" /\ purpose[a] = "start"
        /\ slot' = created + 1 /\ mine'[a] = slot' /\ slot' # 0
        /\ UNCHANGED <<thread, stopEvent>>
    BY <1>7, <1>p DEF Publish, ActorsOK, ClientsOK
  <2>2. Purposeful'
    BY <2>1, <1>o, <1>b DEF Purposeful, Early, Unpublished
  <2>3. /\ \A c \in Client : Loose(c)' => Loose(c)
        /\ \A c \in Client : Doomed(c)' => Doomed(c) \/ c = slot'
    BY <2>1, <1>o, <1>b DEF Loose, Doomed, Relaunching
  <2>4. Lost' \subseteq Lost \union {slot}
    BY <2>3 DEF Lost
  <2>5. /\ Exposed' <=> Unpublished(b)
        /\ Contested' <=> Early(b)
        /\ Early(b) => Contested
    BY <2>1, <1>o, <1>b DEF Exposed, Contested, Early, Unpublished, Resting
  <2>6. CASE slot = 0
    <3>1. Unpublished(b) => Contested /\ ~Early(b)
      BY <2>1, <1>o DEF Contested, Early, Unpublished, Resting
    <3>2. Lost' \subseteq Lost
      BY <2>4, <2>6, MaxClientsAssumption DEF Lost, Client
    <3>3. QED BY <2>2, <2>5, <3>1, <3>2 DEF Within, Danger
  <2>7. CASE slot # 0
    <3>1. Exposed /\ ~Unpublished(b)
      BY <2>1, <2>7, <1>o DEF Exposed, Unpublished, Purposeful
    <3>2. QED BY <2>2, <2>4, <2>5, <3>1 DEF Within, Danger
  <2>8. QED BY <2>6, <2>7
<1>10. QED BY <1>1, <1>2, <1>3, <1>4, <1>5, <1>6, <1>7, <1>8, <1>9 DEF Continue

\* An operation of thread a begins, during one of the other thread or not.
LEMMA BeginWithin ==
    ASSUME ClientsOK, ActorsOK, Purposeful, overlaps \in Nat, NEW a \in Actor, NEW p, NEW s,
           at[a] \in Resting, Begin(a, p, s),
           \/ s = "unhook" /\ p \in {"start", "drop"} /\ mine' = mine
           \/ s = "signal" /\ p = "restart" /\ mine' = [mine EXCEPT ![a] = slot]
    PROVE  Within(overlaps' - overlaps) /\ Purposeful'
<1> DEFINE b == Other(a)
<1>o. b \in Actor /\ b # a /\ \A x \in Actor : x = a \/ x = b
  BY Others
<1>1. /\ at'[a] = s /\ purpose'[a] = p
      /\ at'[b] = at[b] /\ mine'[b] = mine[b] /\ purpose'[b] = purpose[b]
      /\ UNCHANGED <<slot, thread, stopEvent>>
      /\ s = "signal" => mine'[a] = slot
  BY <1>o DEF Begin, ActorsOK, clients
<1>2. overlaps' = overlaps + (IF at[b] \in Resting THEN 0 ELSE 1)
  BY DEF Begin
<1> HIDE DEF b
<1>3. Purposeful'
  BY <1>1, <1>o DEF Purposeful, Early, Unpublished
<1>4. \A c \in Client : Loose(c)' => Loose(c)
  BY <1>1, <1>o DEF Loose, Resting
<1>5. \A c \in Client : Doomed(c)' => Doomed(c) \/ c = slot
  BY <1>1, <1>o DEF Doomed, Relaunching
<1>6. Lost' \subseteq Lost
  BY <1>1, <1>4, <1>5 DEF Lost
<1>7. Exposed' => Exposed
  BY <1>1, <1>o DEF Exposed, Unpublished, Resting
<1>8. ~Contested /\ (Contested' => at[b] \notin Resting)
  BY <1>1, <1>o DEF Contested
<1>9. Danger' <= Danger + (overlaps' - overlaps)
  <2>1. overlaps' - overlaps = IF at[b] \in Resting THEN 0 ELSE 1
    BY <1>2
  <2>2. QED BY <1>7, <1>8, <2>1 DEF Danger
<1>10. QED BY <1>3, <1>6, <1>9 DEF Within

\* No step costs more clients than the danger and the overlaps it adds.
LEMMA WithinStep ==
    ClientsOK /\ ActorsOK /\ Purposeful /\ overlaps \in Nat /\ [Next]_vars
        => Within(overlaps' - overlaps) /\ Purposeful' /\ overlaps' \in Nat
<1> SUFFICES ASSUME ClientsOK, ActorsOK, Purposeful, overlaps \in Nat, [Next]_vars
             PROVE  Within(overlaps' - overlaps) /\ Purposeful' /\ overlaps' \in Nat
    OBVIOUS
<1>0. overlaps' \in Nat
  BY DEF Next, Operation, StartClient, DropClient, RestartClient, Begin, RunEnds, Goto,
     Continue, Unhook, Take, Signal, Join, Close, Unset, Publish, Hook, Launch,
     ConnectOrLose, ThreadEnds, clientFrame, vars
<1>z. ASSUME overlaps' = overlaps, Within(0) PROVE Within(overlaps' - overlaps)
  <2>1. overlaps' - overlaps = 0
    BY <1>z
  <2>2. QED BY <2>1, <1>z
<1>1. ASSUME NEW a \in Actor, Continue(a) PROVE Within(overlaps' - overlaps) /\ Purposeful'
  <2>1. overlaps' = overlaps
    BY <1>1 DEF Continue, Unhook, Take, Signal, Join, Close, Unset, Publish, Hook, Launch, Goto
  <2>2. QED BY <1>1, <1>z, <2>1, ContinueWithin
<1>2. ASSUME NEW a \in Actor, Operation(a)
      PROVE  Within(overlaps' - overlaps) /\ Purposeful'
  <2>1. PICK p \in {"start", "drop"} : Begin(a, p, "unhook") /\ UNCHANGED mine
    BY <1>2 DEF Operation, StartClient, DropClient
  <2>2. at[a] \in Resting
    BY <1>2 DEF Operation, StartClient, DropClient, Resting
  <2>3. QED BY <2>1, <2>2, BeginWithin
<1>3. CASE RestartClient
  <2>1. "run" \in Actor /\ at["run"] \in Resting
    BY <1>3 DEF RestartClient, Actor, Resting
  <2>2. Begin("run", "restart", "signal") /\ mine' = [mine EXCEPT !["run"] = slot]
    BY <1>3 DEF RestartClient
  <2>3. QED BY <1>0, <2>1, <2>2, BeginWithin
<1>4. CASE RunEnds
  <2>1. /\ UNCHANGED <<slot, thread, stopEvent, mine, purpose, overlaps>>
        /\ at["run"] = "watch" /\ at' = [at EXCEPT !["run"] = "idle"]
    BY <1>4 DEF RunEnds, Goto, clients
  <2>2. "run" \in Actor
    BY DEF Actor
  <2>3. \A a \in Actor : at'[a] = at[a] \/ (at[a] = "watch" /\ at'[a] = "idle")
    BY <2>1, <2>2 DEF ActorsOK
  <2>4. Steady /\ Purposeful'
    BY <2>1, <2>3 DEF Steady, Lost, Loose, Doomed, Relaunching, Exposed, Contested, Early,
       Unpublished, Resting, Purposeful
  <2>5. QED BY <1>0, <1>z, <2>1, <2>4, SteadyWithin
<1>5. ASSUME NEW c \in Client, ConnectOrLose(c) \/ ThreadEnds(c)
      PROVE  Within(overlaps' - overlaps) /\ Purposeful'
  <2>1. UNCHANGED <<slot, at, mine, purpose, stopEvent, overlaps>>
    BY <1>5 DEF ConnectOrLose, ThreadEnds, clientFrame, actors
  <2>2. \A d \in Client : thread'[d] = "alive" => thread[d] = "alive"
    BY <1>5 DEF ConnectOrLose, ThreadEnds, ClientsOK
  <2>3. Steady /\ Purposeful'
    BY <2>1, <2>2 DEF Steady, Lost, Loose, Doomed, Relaunching, Exposed, Contested, Early,
       Unpublished, Purposeful
  <2>4. QED BY <1>z, <2>1, <2>3, SteadyWithin
<1>6. CASE UNCHANGED vars
  <2>1. UNCHANGED <<slot, at, mine, purpose, thread, stopEvent, overlaps>>
    BY <1>6 DEF vars, clients, actors
  <2>2. Steady /\ Purposeful'
    BY <2>1 DEF Steady, Lost, Loose, Doomed, Relaunching, Exposed, Contested, Early,
       Unpublished, Purposeful
  <2>3. QED BY <1>0, <1>z, <2>1, <2>2, SteadyWithin
<1>7. QED BY <1>0, <1>1, <1>2, <1>3, <1>4, <1>5, <1>6 DEF Next

\* How many clients a set of them and one more hold.
LEMMA CountClients ==
    ASSUME NEW S \in SUBSET Client
    PROVE  /\ IsFiniteSet(S) /\ Cardinality(S) \in Nat
           /\ \A T \in SUBSET S : Cardinality(T) <= Cardinality(S)
           /\ \A x : Cardinality(S \union {x}) <= Cardinality(S) + 1
<1>1. IsFiniteSet(Client)
  BY FS_Interval, MaxClientsAssumption DEF Client
<1>2. IsFiniteSet(S)
  BY <1>1, FS_Subset
<1>3. Cardinality(S) \in Nat
  BY <1>2, FS_CardinalityType
<1>4. \A T \in SUBSET S : Cardinality(T) <= Cardinality(S)
  BY <1>2, FS_Subset
<1>5. ASSUME NEW x PROVE Cardinality(S \union {x}) <= Cardinality(S) + 1
  BY <1>2, <1>3, FS_AddElement
<1>6. QED BY <1>2, <1>3, <1>4, <1>5

\* Lost clients and those the operations under way can still lose.
OverlapInv == overlaps \in Nat /\ Purposeful /\ Cardinality(Lost) + Danger <= overlaps

\* Clients lost and in danger never exceed the overlaps, after any step.
LEMMA OverlapStep == ClientsOK /\ ActorsOK /\ OverlapInv /\ [Next]_vars => OverlapInv'
<1> SUFFICES ASSUME ClientsOK, ActorsOK, OverlapInv, [Next]_vars PROVE OverlapInv'
    OBVIOUS
<1>1. /\ Within(overlaps' - overlaps) /\ Purposeful'
      /\ overlaps \in Nat /\ overlaps' \in Nat
  BY WithinStep DEF OverlapInv
<1>2. Lost \subseteq Client /\ Lost' \subseteq Client
  BY DEF Lost, Client
<1>3. Cardinality(Lost) \in Nat /\ Cardinality(Lost') \in Nat
  BY <1>2, CountClients
<1>4. Danger \in 0 .. 2 /\ Danger' \in 0 .. 2
  BY DEF Danger
<1>5. /\ Cardinality(Lost) + Danger <= overlaps
      /\ overlaps \in Nat /\ overlaps' \in Nat
  BY <1>1 DEF OverlapInv
<1>n. PICK l \in Nat, m \in Nat, d \in 0 .. 2, e \in 0 .. 2, n \in Nat, o \in Nat :
        /\ l = Cardinality(Lost) /\ m = Cardinality(Lost')
        /\ d = Danger /\ e = Danger' /\ n = overlaps /\ o = overlaps'
  BY <1>3, <1>4, <1>5
<1>6. CASE Lost' \subseteq Lost /\ Danger' <= Danger + (overlaps' - overlaps)
  <2>1. Cardinality(Lost') <= Cardinality(Lost)
    BY <1>2, <1>6, CountClients
  <2>2. l + d <= n /\ m <= l /\ e <= d + (o - n)
    BY <1>5, <1>n, <1>6, <2>1
  <2>3. m + e <= o
    BY <2>2
  <2>4. QED BY <1>1, <1>n, <2>3 DEF OverlapInv
<1>7. CASE Lost' \subseteq Lost \union {slot} /\ Danger' + 1 <= Danger + (overlaps' - overlaps)
  <2>1. m <= l + 1
    <3>1. CASE Lost' \subseteq Lost
      <4>1. Cardinality(Lost') <= Cardinality(Lost)
        BY <1>2, <3>1, CountClients
      <4>2. m <= l
        BY <1>n, <4>1
      <4>3. QED BY <4>2
    <3>2. CASE slot \in Client
      <4>1. Lost \union {slot} \in SUBSET Client
        BY <1>2, <3>2
      <4>2. PICK k \in Nat : k = Cardinality(Lost \union {slot})
        BY <4>1, CountClients
      <4>3. Cardinality(Lost') <= Cardinality(Lost \union {slot})
        BY <1>7, <4>1, CountClients
      <4>4. Cardinality(Lost \union {slot}) <= Cardinality(Lost) + 1
        BY <1>2, CountClients
      <4>5. m <= k /\ k <= l + 1
        BY <1>n, <4>2, <4>3, <4>4
      <4>6. QED BY <4>5
    <3>3. QED BY <1>2, <1>7, <3>1, <3>2
  <2>2. l + d <= n /\ e + 1 <= d + (o - n)
    BY <1>5, <1>n, <1>7
  <2>3. m + e <= o
    BY <2>1, <2>2
  <2>4. QED BY <1>1, <1>n, <2>3 DEF OverlapInv
<1>8. QED BY <1>1, <1>6, <1>7 DEF Within

\* A client nobody can stop any more comes only from operations that overlapped, and
\* every overlap leaves one at most, for any number of clients and of overlaps.
THEOREM OrphansBoundedAlways == Spec => []OrphansBounded
<1> DEFINE Inv == ClientsOK /\ ActorsOK /\ OverlapInv
<1>1. Init => Inv
  <2> SUFFICES ASSUME Init PROVE Inv
      OBVIOUS
  <2>1. ClientsOK
    BY MaxClientsAssumption DEF Init, ClientsOK
  <2>2. ActorsOK
    BY DEF Init, ActorsOK, Actor, Steps, Resting, OnClient, Purposes
  <2>3. Lost = {} /\ Danger = 0 /\ Purposeful
    BY DEF Init, Lost, Loose, Doomed, Relaunching, Danger, Exposed, Contested, Resting,
       Purposeful, Early, Unpublished, Actor
  <2>4. Cardinality(Lost) = 0
    BY <2>3, FS_EmptySet
  <2>5. QED BY <2>1, <2>2, <2>3, <2>4 DEF Init, OverlapInv
<1>2. Inv /\ [Next]_vars => Inv'
  BY ClientsStep, ActorsStep, OverlapStep
<1>3. Inv => OrphansBounded
  <2> SUFFICES ASSUME Inv PROVE OrphansBounded
      OBVIOUS
  <2>1. Orphans \subseteq Lost /\ Lost \in SUBSET Client
    BY DEF Orphans, Lost, Loose
  <2>2. Cardinality(Orphans) <= Cardinality(Lost) /\ Cardinality(Lost) \in Nat
    BY <2>1, CountClients
  <2>3. Orphans \in SUBSET Client
    BY DEF Orphans
  <2>4. Cardinality(Orphans) \in Nat
    BY <2>3, CountClients
  <2>5. Danger \in 0 .. 2
    BY DEF Danger
  <2>6. QED BY <2>2, <2>4, <2>5 DEF OverlapInv, OrphansBounded
<1>4. QED BY <1>1, <1>2, <1>3, PTL DEF Spec

-----------------------------------------------------------------------------
(* One owner for each client                                               *)

\* A client not yet created is untouched.
Unborn == \A c \in Client : c > created => thread[c] = "new" /\ ~stopEvent[c] /\ ~up[c]

\* What the client thread a is busy with has seen of its owner.
Owned(a) ==
    /\ at[a] = "publish" => purpose[a] = "start"
    /\ at[a] = "hook" \/ (at[a] = "launch" /\ purpose[a] = "start")
         => /\ purpose[a] = "start" /\ thread[mine[a]] = "new"
            /\ ~stopEvent[mine[a]] /\ ~up[mine[a]]
    /\ at[a] \in {"signal", "join", "close"} => thread[mine[a]] # "new"
    /\ at[a] = "unset" \/ (at[a] = "launch" /\ purpose[a] # "start")
         => thread[mine[a]] # "new" /\ purpose[a] = "restart"
    /\ at[a] = "launch" => ~stopEvent[mine[a]]

\* A published client has been started, or is about to be.
Started ==
    slot # 0 => \/ thread[slot] # "new"
                \/ \E a \in Actor : at[a] \in {"hook", "launch"} /\ mine[a] = slot

OneOwner == Unborn /\ (overlaps = 0 => Started /\ \A a \in Actor : Owned(a))

\* Without an overlap one thread at most is busy, before a step and after it.
LEMMA OneBusy ==
    ASSUME ClientsOK, ActorsOK, Single, NEW a \in Actor, Continue(a)
    PROVE  /\ at[Other(a)] \in Resting /\ at'[Other(a)] = at[Other(a)]
           /\ mine'[Other(a)] = mine[Other(a)]
           /\ purpose' = purpose
           /\ overlaps' = overlaps
<1>1. at[a] \notin Resting
  BY DEF Continue, Unhook, Take, Signal, Join, Close, Unset, Publish, Hook, Launch, Goto, Resting
<1>2. at[Other(a)] \in Resting
  BY <1>1, Others DEF Single
<1>3. /\ at'[Other(a)] = at[Other(a)] /\ mine'[Other(a)] = mine[Other(a)]
      /\ purpose' = purpose /\ overlaps' = overlaps
  BY Others DEF Continue, Unhook, Take, Signal, Join, Close, Unset, Publish, Hook, Launch,
     Goto, ActorsOK
<1>4. QED BY <1>2, <1>3

\* Only the thread that creates a client touches it, afterwards.
LEMMA UnbornStep == ClientsOK /\ ActorsOK /\ Unborn /\ [Next]_vars => Unborn'
<1> SUFFICES ASSUME ClientsOK, ActorsOK, Unborn, [Next]_vars PROVE Unborn'
    OBVIOUS
<1> USE DEF Unborn
<1>1. ASSUME NEW a \in Actor, Continue(a) PROVE Unborn'
  <2>m. at[a] \in OnClient => mine[a] \in Client /\ mine[a] <= created
    BY MineIsClient DEF ActorsOK, ClientsOK
  <2>1. CASE Unhook(a) \/ Take(a) \/ Join(a) \/ Hook(a)
    BY <2>1 DEF Unhook, Take, Join, Hook, clients
  <2>2. CASE Signal(a)
    BY <2>2, <2>m DEF Signal, Goto, OnClient, ClientsOK, Client
  <2>3. CASE Close(a)
    BY <2>3, <2>m DEF Close, Goto, OnClient, ClientsOK, Client
  <2>4. CASE Unset(a)
    BY <2>4, <2>m DEF Unset, Goto, OnClient, ClientsOK, Client
  <2>5. CASE Publish(a)
    BY <2>5 DEF Publish, ClientsOK, Client
  <2>6. CASE Launch(a)
    <3>1. mine[a] \in Client /\ mine[a] <= created
      BY <2>6, <2>m DEF Launch, Goto, OnClient
    <3>2. \A c \in Client : c # mine[a] => thread'[c] = thread[c] /\ stopEvent'[c] = stopEvent[c]
      BY <2>6, <3>1 DEF Launch, ClientsOK
    <3>3. UNCHANGED <<created, up>>
      BY <2>6 DEF Launch
    <3>4. ASSUME NEW c \in Client, c > created'
          PROVE  thread'[c] = "new" /\ ~stopEvent'[c] /\ ~up'[c]
      <4>1. c > created /\ c # mine[a]
        BY <3>1, <3>3, <3>4 DEF ClientsOK, Client
      <4>2. QED BY <3>2, <3>3, <4>1
    <3>5. QED BY <3>4
  <2>7. QED BY <1>1, <2>1, <2>2, <2>3, <2>4, <2>5, <2>6 DEF Continue
<1>2. ASSUME NEW c \in Client, ConnectOrLose(c) \/ ThreadEnds(c) PROVE Unborn'
  BY <1>2 DEF ConnectOrLose, ThreadEnds, clientFrame, ClientsOK
<1>3. CASE UNCHANGED clients
  BY <1>3 DEF clients
<1>4. ASSUME NEW a \in Actor, Operation(a) PROVE Unborn'
  BY <1>3, <1>4 DEF Operation, StartClient, DropClient, Begin
<1>5. CASE RestartClient \/ RunEnds \/ UNCHANGED vars
  BY <1>3, <1>5 DEF RestartClient, Begin, RunEnds, vars
<1>6. QED BY <1>1, <1>2, <1>4, <1>5 DEF Next

\* Each step of an operation leaves its client as the next one expects it.
LEMMA OwnedStep ==
    ASSUME ClientsOK, ActorsOK, Unborn, Started, Single, NEW a \in Actor,
           Owned(a), Continue(a)
    PROVE  Started' /\ Owned(a)'
<1> USE DEF Goto, clients
<1>0. Stage(a)
  BY DEF Single
<1>m. /\ at[a] \in OnClient => mine[a] \in Client
      /\ slot # 0 => slot \in Client
  BY MineIsClient, MaxClientsAssumption DEF ActorsOK, ClientsOK, Client
<1>s. /\ slot # 0 => \/ thread[slot] # "new"
                     \/ at[a] \in {"hook", "launch"} /\ mine[a] = slot
  BY OneBusy, Others DEF Started, Resting
<1>1. CASE Unhook(a)
  BY <1>0, <1>s, <1>1 DEF Unhook, Started, Owned, ActorsOK
<1>2. CASE Take(a)
  BY <1>0, <1>m, <1>s, <1>2 DEF Take, Started, Owned, ActorsOK, Stage, End
<1>3. CASE Signal(a)
  BY <1>0, <1>m, <1>s, <1>3 DEF Signal, Started, Owned, ActorsOK, ClientsOK, Stage, OnClient
<1>4. CASE Join(a)
  BY <1>0, <1>m, <1>s, <1>4 DEF Join, Started, Owned, ActorsOK, Stage, OnClient
<1>5. CASE Close(a)
  BY <1>0, <1>m, <1>s, <1>5 DEF Close, Started, Owned, ActorsOK, ClientsOK, Stage, OnClient, End
<1>6. CASE Unset(a)
  BY <1>0, <1>m, <1>s, <1>6 DEF Unset, Started, Owned, ActorsOK, ClientsOK, Stage, OnClient
<1>7. CASE Publish(a)
  BY <1>0, <1>m, <1>s, <1>7, MaxClientsAssumption
     DEF Publish, Started, Owned, ActorsOK, ClientsOK, Stage, OnClient, Unborn, Client
<1>8. CASE Hook(a)
  BY <1>0, <1>m, <1>s, <1>8 DEF Hook, Started, Owned, ActorsOK, Stage, OnClient
<1>9. CASE Launch(a)
  BY <1>0, <1>m, <1>s, <1>9 DEF Launch, Started, Owned, ActorsOK, ClientsOK, Stage, OnClient, End
<1>10. QED BY <1>1, <1>2, <1>3, <1>4, <1>5, <1>6, <1>7, <1>8, <1>9 DEF Continue

\* Every step keeps clients with one owner as their owner left them.
LEMMA OneOwnerStep ==
    ClientsOK /\ ActorsOK /\ overlaps \in Nat /\ SingleInv /\ OneOwner /\ [Next]_vars
        => OneOwner'
<1> SUFFICES ASSUME ClientsOK, ActorsOK, overlaps \in Nat, SingleInv, OneOwner, [Next]_vars,
                    overlaps' = 0
             PROVE  Started' /\ \A a \in Actor : Owned(a)'
    BY UnbornStep DEF OneOwner
<1>1. overlaps = 0 /\ Single /\ Started /\ Unborn /\ \A a \in Actor : Owned(a)
  <2>1. overlaps' = overlaps \/ overlaps' = overlaps + 1
    BY DEF Next, Operation, StartClient, DropClient, RestartClient, Begin, RunEnds, Goto,
       Continue, Unhook, Take, Signal, Join, Close, Unset, Publish, Hook, Launch,
       ConnectOrLose, ThreadEnds, clientFrame, vars
  <2>2. QED BY <2>1 DEF SingleInv, OneOwner
<1>2. ASSUME NEW a \in Actor, Continue(a) PROVE Started' /\ \A x \in Actor : Owned(x)'
  <2>1. Started' /\ Owned(a)'
    BY <1>1, <1>2, OwnedStep
  <2>2. Owned(Other(a))'
    BY <1>1, <1>2, OneBusy DEF Owned, Resting
  <2>3. QED BY <2>1, <2>2, Others
<1>3. ASSUME NEW a \in Actor, Operation(a) PROVE Started' /\ \A x \in Actor : Owned(x)'
  <2>1. /\ at[a] \in Resting /\ at' = [at EXCEPT ![a] = "unhook"]
        /\ UNCHANGED <<mine, slot, thread, stopEvent, up>>
        /\ \E p : purpose' = [purpose EXCEPT ![a] = p]
    BY <1>3 DEF Operation, StartClient, DropClient, Begin, Resting, clients
  <2>2. Owned(a)'
    BY <2>1 DEF Owned, ActorsOK
  <2>3. ASSUME NEW x \in Actor, x # a PROVE Owned(x)'
    BY <1>1, <2>1, <2>3 DEF Owned, ActorsOK
  <2>4. Started'
    BY <1>1, <2>1 DEF Started, ActorsOK, Resting
  <2>5. QED BY <2>2, <2>3, <2>4
<1>4. CASE RestartClient
  <2>0. "run" \in Actor
    BY DEF Actor
  <2>1. /\ at["run"] = "watch" /\ at' = [at EXCEPT !["run"] = "signal"]
        /\ mine' = [mine EXCEPT !["run"] = slot] /\ slot # 0
        /\ purpose' = [purpose EXCEPT !["run"] = "restart"]
        /\ UNCHANGED <<slot, thread, stopEvent, up>>
        /\ at["api"] \in Resting
    BY <1>1, <1>4 DEF RestartClient, Begin, clients, Other
  <2>2. thread[slot] # "new"
    BY <1>1, <2>1 DEF Started, Actor, Resting
  <2>3. Owned("run")'
    BY <2>0, <2>1, <2>2 DEF Owned, ActorsOK
  <2>4. Owned("api")'
    BY <2>1 DEF Owned, ActorsOK, Resting, Actor
  <2>5. Started'
    BY <2>1, <2>2 DEF Started
  <2>6. QED BY <2>3, <2>4, <2>5 DEF Actor
<1>5. CASE RunEnds
  <2>1. /\ at["run"] = "watch" /\ at' = [at EXCEPT !["run"] = "idle"]
        /\ UNCHANGED <<mine, purpose, slot, thread, stopEvent, up>>
    BY <1>5 DEF RunEnds, Goto, clients
  <2>2. \A x \in Actor : at'[x] = at[x] \/ (at[x] = "watch" /\ at'[x] = "idle")
    BY <2>1 DEF ActorsOK, Actor
  <2>3. ASSUME NEW x \in Actor PROVE Owned(x)'
    BY <1>1, <2>1, <2>2 DEF Owned
  <2>4. Started'
    BY <1>1, <2>1, <2>2 DEF Started
  <2>5. QED BY <2>3, <2>4
<1>6. ASSUME NEW c \in Client, ConnectOrLose(c) \/ ThreadEnds(c)
      PROVE  Started' /\ \A x \in Actor : Owned(x)'
  <2>1. UNCHANGED <<slot, stopEvent, at, mine, purpose>> /\ thread[c] = "alive"
    BY <1>6 DEF ConnectOrLose, ThreadEnds, clientFrame, actors
  <2>2. /\ \A d \in Client : thread[d] = "new" <=> thread'[d] = "new"
        /\ \A d \in Client : d # c => up'[d] = up[d]
    BY <1>6 DEF ConnectOrLose, ThreadEnds, clientFrame, ClientsOK
  <2>3. ASSUME NEW x \in Actor PROVE Owned(x)'
    <3>1. at[x] \in OnClient => mine[x] \in Client
      BY MineIsClient DEF ActorsOK
    <3>2. QED BY <1>1, <2>1, <2>2, <3>1 DEF Owned, OnClient
  <2>4. slot # 0 => slot \in Client
    BY MaxClientsAssumption DEF ClientsOK, Client
  <2>5. Started'
    BY <1>1, <2>1, <2>2, <2>4 DEF Started
  <2>6. QED BY <2>3, <2>5
<1>7. CASE UNCHANGED vars
  BY <1>1, <1>7 DEF vars, clients, actors, Started, Owned
<1>8. QED BY <1>2, <1>3, <1>4, <1>5, <1>6, <1>7 DEF Next

\* How client c stands with its owner while the other thread rests.
UseWith(a, c) ==
    /\ c > created => Use(c) = "new"
    /\ ~(c > created) /\ mine[a] = c =>
         /\ at[a] = "hook" => Use(c) = "new"
         /\ at[a] = "signal" => Use(c) = "doomed"
         /\ at[a] \in {"join", "close"} => Use(c) = "stopping"
         /\ at[a] = "unset" => Use(c) = "stopped"
         /\ at[a] = "launch" => Use(c) = IF thread[c] = "new" THEN "new" ELSE "cleared"
    /\ ~(c > created) /\ ~(mine[a] = c /\ at[a] \in OnClient)
         => Use(c) = IF c = slot THEN "serving" ELSE "stopped"
    /\ mine[a] = c /\ at[a] \in OnClient /\ purpose[a] = "restart" => Again(c) = TRUE
    /\ ~(mine[a] = c /\ at[a] \in OnClient /\ purpose[a] = "restart") => Again(c) = FALSE

UseView ==
    ClientsOK /\ ActorsOK =>
        \A a \in Actor, c \in Client : at[Other(a)] \in Resting => UseWith(a, c)

\* The client is in the hands of the thread that is busy, if of any.
LEMMA UseViewAlways == UseView
<1> SUFFICES ASSUME ClientsOK, ActorsOK,
                    NEW a \in Actor, NEW c \in Client, at[Other(a)] \in Resting
             PROVE  UseWith(a, c)
    BY DEF UseView
<1>1. ASSUME NEW S, S \subseteq OnClient
      PROVE  Busy(c, S) <=> mine[a] = c /\ at[a] \in S
  <2>1. at[Other(a)] \notin S
    BY <1>1 DEF Resting, OnClient
  <2>2. QED BY <2>1, Others DEF Busy
<1>2. /\ Busy(c, {"hook"}) <=> mine[a] = c /\ at[a] = "hook"
      /\ Busy(c, {"signal"}) <=> mine[a] = c /\ at[a] = "signal"
      /\ Busy(c, {"join", "close"}) <=> mine[a] = c /\ at[a] \in {"join", "close"}
      /\ Busy(c, {"unset"}) <=> mine[a] = c /\ at[a] = "unset"
      /\ Busy(c, {"launch"}) <=> mine[a] = c /\ at[a] = "launch"
  BY <1>1 DEF OnClient
<1>3. /\ mine[a] = c /\ at[a] \in OnClient /\ purpose[a] = "restart" => Again(c) = TRUE
      /\ ~(mine[a] = c /\ at[a] \in OnClient /\ purpose[a] = "restart") => Again(c) = FALSE
  <2>1. Again(c) <=> mine[a] = c /\ at[a] \in OnClient /\ purpose[a] = "restart"
    BY Others DEF Again, Resting, OnClient
  <2>2. Again(c) \in BOOLEAN
    BY DEF Again
  <2>3. QED BY <2>1, <2>2
<1>4. CASE c > created
  <2>1. mine[a] # c
    BY <1>4 DEF ActorsOK, ClientsOK, Client
  <2>2. Use(c) = "new"
    BY <1>2, <1>4, <2>1 DEF Use
  <2>3. QED BY <1>3, <1>4, <2>2 DEF UseWith
<1>5. CASE ~(c > created)
  BY <1>2, <1>3, <1>5 DEF UseWith, Use, OnClient
<1>6. QED BY <1>4, <1>5

\* After a step too.
LEMMA UseViewPrime == UseView'
BY UseViewAlways, PTL

-----------------------------------------------------------------------------
(* The promise of NtripClient                                              *)

LifeStep(c) == Life(c)!Next \/ UNCHANGED <<Life(c)!client, Life(c)!owner>>

\* What shows of a client that a step leaves alone.
LEMMA QuietLife ==
    ASSUME NEW c, thread'[c] = thread[c], stopEvent'[c] = stopEvent[c], up'[c] = up[c],
           Use(c)' = Use(c), Again(c)' = Again(c)
    PROVE  LifeStep(c)
BY DEF LifeStep, Life!client, Life!owner

\* A step of an operation is a step of its client, and of no other.
LEMMA ContinueLife ==
    ASSUME ClientsOK, ActorsOK, ClientsOK', ActorsOK', Unborn, Started, Single,
           NEW a \in Actor, Owned(a), Continue(a), NEW c \in Client
    PROVE  LifeStep(c)
<1> USE DEF Goto, clients
<1>0. Stage(a) /\ at[a] \notin Resting
  BY DEF Single, Continue, Unhook, Take, Signal, Join, Close, Unset, Publish, Hook, Launch, Resting
<1>1. UseWith(a, c) /\ UseWith(a, c)'
  BY OneBusy, UseViewAlways, UseViewPrime DEF UseView
<1>2. at[a] \in OnClient => mine[a] \in Client /\ ~(mine[a] > created)
  BY MineIsClient DEF ActorsOK, ClientsOK, Client
<1>3. slot # 0 => slot \in Client /\ ~(slot > created)
  BY MaxClientsAssumption DEF ClientsOK, Client
<1>4. c # 0 /\ stopEvent[c] \in BOOLEAN /\ thread[c] \in {"new", "alive", "dead"}
  BY DEF ClientsOK, Client
<1>5. CASE Unhook(a) \/ Join(a) \/ Hook(a)
  <2>1. /\ UNCHANGED <<slot, created, thread, stopEvent, up, mine, purpose>>
        /\ \/ at[a] = "unhook" /\ at'[a] = "take"
           \/ at[a] = "join" /\ at'[a] = "close"
           \/ at[a] = "hook" /\ at'[a] = "launch"
    BY <1>5 DEF Unhook, Join, Hook, ActorsOK
  <2>2. at[a] = "hook" => thread[mine[a]] = "new"
    BY DEF Owned
  <2>3. Use(c)' = Use(c)
    BY <1>1, <2>1, <2>2 DEF UseWith, OnClient
  <2>4. Again(c)' = Again(c)
    BY <1>1, <2>1 DEF UseWith, OnClient
  <2>5. QED BY <2>1, <2>3, <2>4, QuietLife
<1>6. CASE Take(a)
  <2>1. /\ UNCHANGED <<created, thread, stopEvent, up, purpose>>
        /\ at[a] = "take" /\ slot' = 0 /\ mine'[a] = slot /\ purpose[a] # "restart"
        /\ IF slot = 0 THEN at'[a] \notin OnClient ELSE at'[a] = "signal"
    BY <1>0, <1>6, Places DEF Take, Stage, ActorsOK, OnClient
  <2>2. Again(c) = FALSE /\ Again(c)' = FALSE
    BY <1>1, <2>1 DEF UseWith
  <2>3. CASE c = slot
    <3>1. Use(c) = "serving"
      BY <1>1, <1>3, <1>4, <2>1, <2>3 DEF UseWith, OnClient
    <3>2. Use(c)' = "doomed"
      BY <1>1, <1>3, <1>4, <2>1, <2>3 DEF UseWith, OnClient
    <3>3. Life(c)!Decide
      BY <2>1, <2>2, <3>1, <3>2 DEF Life!Decide, Life!client
    <3>4. QED BY <3>3 DEF LifeStep, Life!Next
  <2>4. CASE c # slot
    <3>1. Use(c)' = Use(c)
      BY <1>1, <1>4, <2>1, <2>4 DEF UseWith, OnClient
    <3>2. QED BY <2>1, <2>2, <3>1, QuietLife
  <2>5. QED BY <2>3, <2>4
<1>7. CASE Signal(a)
  <2>1. /\ UNCHANGED <<slot, created, thread, up, mine, purpose>>
        /\ at[a] = "signal" /\ at'[a] = "join" /\ mine[a] \in Client
        /\ stopEvent' = [stopEvent EXCEPT ![mine[a]] = TRUE]
    BY <1>2, <1>7 DEF Signal, ActorsOK, OnClient
  <2>2. Again(c)' = Again(c)
    BY <1>1, <2>1 DEF UseWith, OnClient
  <2>3. CASE c = mine[a]
    <3>1. Use(c) = "doomed"
      BY <1>1, <1>2, <2>1, <2>3 DEF UseWith, OnClient
    <3>2. Use(c)' = "stopping"
      BY <1>1, <1>2, <2>1, <2>3 DEF UseWith, OnClient
    <3>3. Life(c)!Signal
      BY <2>1, <2>2, <2>3, <3>1, <3>2 DEF Life!Signal, ClientsOK
    <3>4. QED BY <3>3 DEF LifeStep, Life!Next
  <2>4. CASE c # mine[a]
    <3>1. Use(c)' = Use(c)
      BY <1>1, <2>1, <2>4 DEF UseWith, OnClient
    <3>2. stopEvent'[c] = stopEvent[c]
      BY <2>1, <2>4 DEF ClientsOK
    <3>3. QED BY <2>1, <2>2, <3>1, <3>2, QuietLife
  <2>5. QED BY <2>3, <2>4
<1>8. CASE Close(a)
  <2>1. /\ UNCHANGED <<slot, created, thread, stopEvent, mine, purpose>>
        /\ at[a] = "close" /\ mine[a] \in Client
        /\ IF purpose[a] = "restart" THEN at'[a] = "unset" ELSE at'[a] \notin OnClient
        /\ purpose[a] # "restart" => slot = 0
        /\ up' = [up EXCEPT ![mine[a]] = FALSE]
    BY <1>0, <1>2, <1>8, Places DEF Close, Stage, ActorsOK, OnClient, Resting
  <2>2. Again(c)' = Again(c)
    BY <1>1, <2>1 DEF UseWith, OnClient
  <2>3. CASE c = mine[a]
    <3>1. Use(c) = "stopping"
      BY <1>1, <1>2, <2>1, <2>3 DEF UseWith, OnClient
    <3>2. Use(c)' = "stopped"
      BY <1>1, <1>2, <1>4, <2>1, <2>3 DEF UseWith, OnClient
    <3>3. Life(c)!Close
      BY <2>1, <2>2, <2>3, <3>1, <3>2 DEF Life!Close, ClientsOK
    <3>4. QED BY <3>3 DEF LifeStep, Life!Next
  <2>4. CASE c # mine[a]
    <3>1. Use(c)' = Use(c)
      BY <1>1, <2>1, <2>4 DEF UseWith, OnClient
    <3>2. up'[c] = up[c]
      BY <2>1, <2>4 DEF ClientsOK
    <3>3. QED BY <2>1, <2>2, <3>1, <3>2, QuietLife
  <2>5. QED BY <2>3, <2>4
<1>9. CASE Unset(a)
  <2>1. /\ UNCHANGED <<slot, created, thread, up, mine, purpose>>
        /\ at[a] = "unset" /\ at'[a] = "launch" /\ mine[a] \in Client
        /\ thread[mine[a]] # "new" /\ purpose[a] = "restart"
        /\ stopEvent' = [stopEvent EXCEPT ![mine[a]] = FALSE]
    BY <1>2, <1>9 DEF Unset, ActorsOK, OnClient, Owned
  <2>2. Again(c)' = Again(c)
    BY <1>1, <2>1 DEF UseWith, OnClient
  <2>3. CASE c = mine[a]
    <3>1. Use(c) = "stopped"
      BY <1>1, <1>2, <2>1, <2>3 DEF UseWith, OnClient
    <3>2. Use(c)' = "cleared"
      BY <1>1, <1>2, <2>1, <2>3 DEF UseWith, OnClient
    <3>3. Again(c) = TRUE
      BY <1>1, <2>1, <2>3 DEF UseWith, OnClient
    <3>4. Life(c)!Clear
      BY <2>1, <2>2, <2>3, <3>1, <3>2, <3>3 DEF Life!Clear, ClientsOK
    <3>5. QED BY <3>4 DEF LifeStep, Life!Next
  <2>4. CASE c # mine[a]
    <3>1. Use(c)' = Use(c)
      BY <1>1, <2>1, <2>4 DEF UseWith, OnClient
    <3>2. stopEvent'[c] = stopEvent[c]
      BY <2>1, <2>4 DEF ClientsOK
    <3>3. QED BY <2>1, <2>2, <3>1, <3>2, QuietLife
  <2>5. QED BY <2>3, <2>4
<1>10. CASE Publish(a)
  <2>1. /\ UNCHANGED <<thread, stopEvent, up, purpose>>
        /\ at[a] = "publish" /\ at'[a] = "hook" /\ purpose[a] = "start" /\ slot = 0
        /\ created' = created + 1 /\ mine'[a] = created' /\ slot' = created'
    BY <1>0, <1>10 DEF Publish, ActorsOK, ClientsOK, Owned, Stage
  <2>2. Again(c) = FALSE /\ Again(c)' = FALSE
    BY <1>1, <2>1 DEF UseWith, OnClient
  <2>3. created \in Nat /\ c \in Nat
    BY MaxClientsAssumption DEF ClientsOK, Client
  <2>4. Use(c)' = Use(c)
    <3>1. CASE c > created
      <4>1. Use(c) = "new"
        BY <1>1, <3>1 DEF UseWith
      <4>2. c > created' \/ (c = mine'[a] /\ ~(c > created'))
        BY <2>1, <2>3, <3>1
      <4>3. QED BY <1>1, <2>1, <4>1, <4>2 DEF UseWith
    <3>2. CASE ~(c > created)
      <4>1. ~(c > created') /\ c # created'
        BY <2>1, <2>3, <3>2
      <4>2. QED BY <1>1, <1>4, <2>1, <3>2, <4>1 DEF UseWith, OnClient
    <3>3. QED BY <3>1, <3>2
  <2>5. QED BY <2>1, <2>2, <2>4, QuietLife
<1>11. CASE Launch(a)
  <2>1. /\ UNCHANGED <<slot, created, up, mine, purpose>>
        /\ at[a] = "launch" /\ at'[a] \notin OnClient
        /\ mine[a] = slot /\ mine[a] \in Client /\ ~stopEvent[mine[a]]
        /\ IF purpose[a] = "start" THEN thread[mine[a]] = "new"
           ELSE thread[mine[a]] # "new" /\ purpose[a] = "restart"
    BY <1>0, <1>2, <1>11, Places DEF Launch, ActorsOK, OnClient, Owned, Stage
  <2>2. /\ thread'[mine[a]] = "alive" /\ stopEvent'[mine[a]] = stopEvent[mine[a]]
        /\ c # mine[a] => thread'[c] = thread[c] /\ stopEvent'[c] = stopEvent[c]
    BY <1>11, <2>1 DEF Launch, ClientsOK
  <2>3. Again(c)' = FALSE
    BY <1>1, <2>1 DEF UseWith
  <2>4. CASE c = mine[a]
    <3>1. Use(c)' = "serving"
      BY <1>1, <1>2, <2>1, <2>4 DEF UseWith, OnClient
    <3>2. CASE purpose[a] = "start"
      <4>1. Use(c) = "new"
        BY <1>1, <1>2, <2>1, <2>4, <3>2 DEF UseWith, OnClient
      <4>2. Again(c) = FALSE
        BY <1>1, <2>1, <3>2 DEF UseWith
      <4>3. Life(c)!Start
        BY <2>1, <2>2, <2>3, <2>4, <3>1, <3>2, <4>1, <4>2 DEF Life!Start
      <4>4. QED BY <4>3 DEF LifeStep, Life!Next
    <3>3. CASE purpose[a] # "start"
      <4>1. Use(c) = "cleared"
        BY <1>1, <1>2, <2>1, <2>4, <3>3 DEF UseWith, OnClient
      <4>2. Life(c)!StartAgain
        BY <2>1, <2>2, <2>3, <2>4, <3>1, <4>1 DEF Life!StartAgain
      <4>3. QED BY <4>2 DEF LifeStep, Life!Next
    <3>4. QED BY <3>2, <3>3
  <2>5. CASE c # mine[a]
    <3>1. Use(c)' = Use(c)
      BY <1>1, <2>1, <2>5 DEF UseWith, OnClient
    <3>2. Again(c) = FALSE
      BY <1>1, <2>5 DEF UseWith
    <3>3. QED BY <2>1, <2>2, <2>3, <2>5, <3>1, <3>2, QuietLife
  <2>6. QED BY <2>4, <2>5
<1>12. QED BY <1>5, <1>6, <1>7, <1>8, <1>9, <1>10, <1>11 DEF Continue

\* What only changes the step a thread is at outside of its operations shows in
\* nothing.
LEMMA AsideLife ==
    ASSUME ClientsOK, ActorsOK, ClientsOK', ActorsOK', NEW a \in Actor,
           at[Other(a)] \in Resting, at'[Other(a)] \in Resting,
           at[a] \notin OnClient, at'[a] \notin OnClient,
           UNCHANGED <<slot, clients>>, NEW c \in Client
    PROVE  LifeStep(c)
<1>1. UseWith(a, c) /\ UseWith(a, c)'
  BY UseViewAlways, UseViewPrime DEF UseView
<1>2. Use(c)' = Use(c)
  BY <1>1 DEF UseWith, clients
<1>3. Again(c)' = Again(c)
  BY <1>1 DEF UseWith
<1>4. QED BY <1>2, <1>3, QuietLife DEF clients

\* Every step, as long as operations do not overlap, is one of a client and of
\* its one owner.
LEMMA NextLife ==
    ASSUME ClientsOK, ActorsOK, ClientsOK', ActorsOK', overlaps \in Nat,
           SingleInv, OneOwner, [Next]_vars, overlaps' = 0, NEW c \in Client
    PROVE  LifeStep(c)
<1>1. overlaps = 0 /\ Single /\ Started /\ Unborn /\ \A a \in Actor : Owned(a)
  <2>1. overlaps' = overlaps \/ overlaps' = overlaps + 1
    BY DEF Next, Operation, StartClient, DropClient, RestartClient, Begin, RunEnds, Goto,
       Continue, Unhook, Take, Signal, Join, Close, Unset, Publish, Hook, Launch,
       ConnectOrLose, ThreadEnds, clientFrame, vars
  <2>2. QED BY <2>1 DEF SingleInv, OneOwner
<1>2. ASSUME NEW a \in Actor, Continue(a) PROVE LifeStep(c)
  BY <1>1, <1>2, ContinueLife
<1>3. ASSUME NEW a \in Actor, Operation(a) PROVE LifeStep(c)
  <2>1. at[a] \in Resting /\ at' = [at EXCEPT ![a] = "unhook"] /\ UNCHANGED <<slot, clients>>
    BY <1>3 DEF Operation, StartClient, DropClient, Begin, Resting
  <2>2. at[Other(a)] \in Resting
    BY <1>1, <1>3 DEF Operation, StartClient, DropClient, Begin
  <2>3. at'[Other(a)] = at[Other(a)] /\ at'[a] = "unhook"
    BY <2>1, Others DEF ActorsOK
  <2>4. at[a] \notin OnClient /\ at'[a] \notin OnClient
    BY <2>1, <2>3 DEF OnClient, Resting
  <2>5. QED BY <2>1, <2>2, <2>3, <2>4, AsideLife
<1>4. CASE RestartClient
  <2>0. "run" \in Actor /\ Other("run") = "api"
    BY DEF Actor, Other
  <2>1. /\ at["run"] = "watch" /\ at'["run"] = "signal" /\ mine'["run"] = slot /\ slot # 0
        /\ purpose'["run"] = "restart" /\ up[slot]
        /\ UNCHANGED <<slot, clients>>
        /\ at["api"] \in Resting /\ at'["api"] = at["api"]
    BY <1>1, <1>4, <2>0 DEF RestartClient, Begin, Actor, ActorsOK
  <2>2. UseWith("run", c) /\ UseWith("run", c)'
    BY <2>0, <2>1, UseViewAlways, UseViewPrime DEF UseView
  <2>3. Again(c) = FALSE
    BY <2>1, <2>2 DEF UseWith, OnClient
  <2>4. CASE c = slot
    <3>1. ~(c > created) /\ up[c] = TRUE
      BY <2>1, <2>4 DEF ClientsOK, Client
    <3>2. Use(c) = "serving"
      BY <2>1, <2>2, <2>4, <3>1 DEF UseWith, OnClient
    <3>3. Use(c)' = "doomed"
      BY <2>1, <2>2, <2>4, <3>1 DEF UseWith, clients
    <3>4. Again(c)' = TRUE
      BY <2>1, <2>2, <2>4 DEF UseWith, OnClient
    <3>5. Life(c)!Decide
      BY <2>1, <3>1, <3>2, <3>3, <3>4 DEF Life!Decide, Life!client, clients
    <3>6. QED BY <3>5 DEF LifeStep, Life!Next
  <2>5. CASE c # slot
    <3>1. Use(c)' = Use(c)
      BY <2>1, <2>2, <2>5 DEF UseWith, OnClient, clients
    <3>2. Again(c)' = FALSE
      BY <2>1, <2>2, <2>5 DEF UseWith
    <3>3. QED BY <2>1, <2>3, <3>1, <3>2, QuietLife DEF clients
  <2>6. QED BY <2>4, <2>5
<1>5. CASE RunEnds
  <2>0. "api" \in Actor /\ Other("api") = "run"
    BY DEF Actor, Other
  <2>1. /\ at["run"] = "watch" /\ at' = [at EXCEPT !["run"] = "idle"]
        /\ UNCHANGED <<mine, purpose, slot, clients>>
    BY <1>5 DEF RunEnds, Goto
  <2>2. at[Other("api")] \in Resting /\ at'[Other("api")] \in Resting /\ at'["api"] = at["api"]
    BY <2>0, <2>1 DEF Resting, ActorsOK, Actor
  <2>3. UseWith("api", c) /\ UseWith("api", c)'
    BY <2>0, <2>2, UseViewAlways, UseViewPrime DEF UseView
  <2>4. Use(c)' = Use(c)
    BY <2>1, <2>2, <2>3 DEF UseWith, OnClient, clients
  <2>5. Again(c)' = Again(c)
    BY <2>1, <2>2, <2>3 DEF UseWith
  <2>6. QED BY <2>1, <2>4, <2>5, QuietLife DEF clients
<1>6. ASSUME NEW d \in Client, ConnectOrLose(d) \/ ThreadEnds(d) PROVE LifeStep(c)
  <2>1. UNCHANGED <<slot, created, stopEvent, at, mine, purpose>> /\ thread[d] = "alive"
    BY <1>6 DEF ConnectOrLose, ThreadEnds, clientFrame, actors
  <2>2. PICK a \in Actor : at[Other(a)] \in Resting /\ at'[Other(a)] \in Resting
    <3>1. PICK b \in Actor : at[b] \in Resting
      BY <1>1 DEF Single
    <3>2. Other(b) \in Actor /\ Other(Other(b)) = b
      BY DEF Actor, Other
    <3>3. QED BY <2>1, <3>1, <3>2
  <2>3. UseWith(a, c) /\ UseWith(a, c)'
    BY <2>2, UseViewAlways, UseViewPrime DEF UseView
  <2>4. thread'[c] = "new" <=> thread[c] = "new"
    BY <1>6, <2>1 DEF ConnectOrLose, ThreadEnds, ClientsOK
  <2>5. Use(c)' = Use(c)
    BY <2>1, <2>3, <2>4 DEF UseWith, OnClient
  <2>6. Again(c)' = Again(c)
    BY <2>1, <2>3 DEF UseWith
  <2>7. CASE c # d
    <3>1. thread'[c] = thread[c] /\ up'[c] = up[c]
      BY <1>6, <2>7 DEF ConnectOrLose, ThreadEnds, ClientsOK
    <3>2. QED BY <2>1, <2>5, <2>6, <3>1, QuietLife
  <2>8. CASE c = d /\ ConnectOrLose(d)
    <3>1. up'[c] = ~up[c] /\ thread'[c] = thread[c]
      BY <2>8 DEF ConnectOrLose, ClientsOK
    <3>2. Life(c)!ConnectOrLose
      BY <2>1, <2>5, <2>6, <2>8, <3>1 DEF Life!ConnectOrLose, Life!owner
    <3>3. QED BY <3>2 DEF LifeStep, Life!Next
  <2>9. CASE c = d /\ ThreadEnds(d)
    <3>1. up'[c] = FALSE /\ thread'[c] = "dead" /\ (stopEvent[c] \/ ~up[c])
      BY <2>9 DEF ThreadEnds, ClientsOK
    <3>2. Life(c)!End
      BY <2>1, <2>5, <2>6, <2>9, <3>1 DEF Life!End, Life!owner
    <3>3. QED BY <3>2 DEF LifeStep, Life!Next
  <2>10. QED BY <1>6, <2>7, <2>8, <2>9
<1>7. CASE UNCHANGED vars
  <2>1. UNCHANGED <<slot, created, thread, stopEvent, up, at, mine, purpose>>
    BY <1>7 DEF vars, clients, actors
  <2>2. Use(c)' = Use(c) /\ Again(c)' = Again(c)
    BY <2>1 DEF Use, Again, Busy
  <2>3. QED BY <2>1, <2>2, QuietLife
<1>8. QED BY <1>2, <1>3, <1>4, <1>5, <1>6, <1>7 DEF Next

\* While operations do not overlap every client is used as NtripPush has it used:
\* by one owner, in order, and not again once it was dropped.
THEOREM OneOwnerEachAlways == Spec => OneOwnerEach
<1> DEFINE Inv == /\ ClientsOK /\ ActorsOK /\ overlaps \in 0 .. MaxOverlaps
                  /\ SingleInv /\ OneOwner
<1>1. Init => Inv /\ NewClients
  <2> SUFFICES ASSUME Init PROVE Inv /\ NewClients
      OBVIOUS
  <2>1. ClientsOK
    BY MaxClientsAssumption DEF Init, ClientsOK
  <2>2. ActorsOK
    BY DEF Init, ActorsOK, Actor, Steps, Resting, OnClient, Purposes
  <2>3. Single
    BY DEF Init, Single, Known, Stage, Actor, Resting
  <2>4. OneOwner
    BY DEF Init, OneOwner, Unborn, Started, Owned
  <2>5. ASSUME NEW c \in Client PROVE Life(c)!Init
    <3>1. c > created /\ "run" \in Actor /\ at[Other("run")] \in Resting
      BY DEF Init, Client, Actor, Resting, Other
    <3>2. UseWith("run", c)
      BY <2>1, <2>2, <3>1, UseViewAlways DEF UseView
    <3>3. Use(c) = "new" /\ ~Again(c)
      BY <3>1, <3>2 DEF UseWith, Init, OnClient, Actor
    <3>4. QED BY <3>3 DEF Init, Life!Init
  <2>6. QED BY <2>1, <2>2, <2>3, <2>4, <2>5, MaxOverlapsAssumption
        DEF Init, SingleInv, NewClients
<1>2. Inv /\ [Next]_vars => Inv'
  <2> SUFFICES ASSUME Inv, [Next]_vars PROVE Inv'
      OBVIOUS
  <2>1. overlaps \in Nat
    BY MaxOverlapsAssumption
  <2>2. QED BY <2>1, ClientsStep, ActorsStep, OverlapsStep, SingleStep, OneOwnerStep
<1>3. Inv /\ Inv' /\ [Next]_vars
        => [overlaps' = 0 =>
              \A c \in Client : Life(c)!Next \/ UNCHANGED <<Life(c)!client, Life(c)!owner>>]_vars
  <2> SUFFICES ASSUME Inv, Inv', [Next]_vars, overlaps' = 0, NEW c \in Client
               PROVE  LifeStep(c)
      BY DEF LifeStep
  <2>1. overlaps \in Nat
    BY MaxOverlapsAssumption
  <2>2. QED BY <2>1, NextLife
<1>4. QED BY <1>1, <1>2, <1>3, PTL DEF Spec, OneOwnerEach

=============================================================================
