------------------------ MODULE CommandChannelProofs ------------------------
(***************************************************************************)
(* Proofs about CommandChannel: its types; that a call never returns an    *)
(* answer older than itself; and that a call that has the channel to       *)
(* itself returns the answer to its own command and misses none.  All hold *)
(* for any number of threads.                                              *)
(***************************************************************************)
EXTENDS CommandChannel, TLAPS

-----------------------------------------------------------------------------
(* Lemmas about the sequences.                                             *)

\* Retiring a command changes neither the length of a queue nor its type.
LEMMA RetiredType ==
  ASSUME NEW s \in Seq(Command), NEW w
  PROVE  Retired(s, w) \in Seq(Command) /\ Len(Retired(s, w)) = Len(s)
<1>1. DOMAIN s = 1 .. Len(s) /\ Len(s) \in Nat
  OBVIOUS
<1>2. \A i \in 1 .. Len(s) :
         (IF s[i] = w THEN "past" ELSE s[i]) \in Command
  BY DEF Command
<1>3. Retired(s, w) = [i \in 1 .. Len(s) |-> IF s[i] = w THEN "past" ELSE s[i]]
  BY <1>1 DEF Retired
<1> HIDE DEF Retired, Command
<1> QED
  BY <1>1, <1>2, <1>3

\* The tail of a queue that is not empty.
LEMMA TailType ==
  ASSUME NEW s \in Seq(Command), s # <<>>
  PROVE  /\ Tail(s) \in Seq(Command)
         /\ Len(Tail(s)) = Len(s) - 1
         /\ Len(s) \in Nat /\ Len(s) > 0
         /\ Head(s) \in Command /\ Head(s) = s[1]
         /\ \A i \in 1 .. Len(s) - 1 : Tail(s)[i] = s[i + 1]
<1> HIDE DEF Command
<1> QED
  OBVIOUS

\* What a queue looks like once a command was put at its end.
LEMMA AppendType ==
  ASSUME NEW s \in Seq(Command), NEW c \in Command
  PROVE  /\ Append(s, c) \in Seq(Command)
         /\ Len(Append(s, c)) = Len(s) + 1
         /\ Append(s, c)[Len(s) + 1] = c
         /\ \A i \in 1 .. Len(s) : Append(s, c)[i] = s[i]
<1> HIDE DEF Command
<1> QED
  OBVIOUS

-----------------------------------------------------------------------------
(* Types                                                                   *)

\* What a call returns with is one of its results, and TypeOK is kept.
LEMMA ReturnType ==
  ASSUME TypeOK, NEW w \in Waiters,
         NEW result \in {"ack", "nak", "timeout", "full", "lost"},
         Return(w, result)
  PROVE  TypeOK'
<1>1. outbound' \in Seq(Command) /\ Len(outbound') <= QueueMax
  BY RetiredType DEF TypeOK, Return
<1>2. wire' \in Seq(Command) /\ Len(wire') <= WireMax
  BY RetiredType DEF TypeOK, Return
<1>3. lastOf' \in Command \union {"none"}
  BY DEF TypeOK, Return, Command
<1> HIDE DEF Command
<1>4. /\ event' \in BOOLEAN /\ last' \in {"none", "ack", "nak"}
      /\ open' \in BOOLEAN /\ loop' \in {"top", "process", "send"}
      /\ heard' \subseteq Waiters /\ alone' \subseteq Waiters
  BY DEF TypeOK, Return
<1>5. at' \in [Waiters -> CallSteps]
  BY DEF TypeOK, Return, CallSteps
<1>6. got' \in [Waiters -> {"none", "ack", "nak", "timeout", "full", "lost"}]
  BY DEF TypeOK, Return
<1>7. own' \in [Waiters -> BOOLEAN]
  BY DEF TypeOK, Return
<1> QED
  BY <1>1, <1>2, <1>3, <1>4, <1>5, <1>6, <1>7 DEF TypeOK

\* Every step of a call keeps the types.
LEMMA CallType ==
  ASSUME TypeOK, NEW w \in Waiters, Call(w)
  PROVE  TypeOK'
<1>1. CASE Reset(w)
  <2> HIDE DEF Command
  <2>1. at' \in [Waiters -> CallSteps]
    BY <1>1 DEF TypeOK, Reset, Begin, CallSteps
  <2>2. alone' \subseteq Waiters
    BY <1>1 DEF TypeOK, Reset, Begin, Unspoilt
  <2> QED
    BY <1>1, <2>1, <2>2 DEF TypeOK, Reset, Begin
<1>2. CASE Put(w)
  <2>1. CASE Return(w, "full")
    BY <2>1, ReturnType
  <2>2. CASE at[w] = "put" /\ Len(outbound) < QueueMax /\ ~Return(w, "full")
    <3>1. w \in Command
      BY DEF Command
    <3>2. outbound' = Append(outbound, w)
      BY <1>2, <2>2 DEF Put
    <3>3. outbound' \in Seq(Command) /\ Len(outbound') <= QueueMax
      <4>1. Len(outbound) \in Nat /\ QueueMax \in Nat
        BY BoundsAssumption DEF TypeOK
      <4> HIDE DEF Command
      <4> QED
        BY <2>2, <3>1, <3>2, <4>1, AppendType DEF TypeOK
    <3> HIDE DEF Command
    <3>4. at' \in [Waiters -> CallSteps]
      BY <1>2, <2>2 DEF TypeOK, Put, CallSteps
    <3> QED
      BY <1>2, <2>2, <3>3, <3>4 DEF TypeOK, Put, ack
  <2> QED
    BY <1>2, <2>1, <2>2 DEF Put
<1>3. CASE Enter(w)
  <2> HIDE DEF Command
  <2>1. at' \in [Waiters -> CallSteps]
    BY <1>3 DEF TypeOK, Enter, CallSteps
  <2> QED
    BY <1>3, <2>1 DEF TypeOK, Enter, ack
<1>4. CASE Expire(w)
  BY <1>4, ReturnType DEF Expire
<1>5. CASE ReadResult(w)
  <2>1. PICK result \in {"ack", "nak", "timeout", "full", "lost"} : Return(w, result)
    BY <1>5 DEF ReadResult, TypeOK
  <2> QED
    BY <2>1, ReturnType
<1> QED
  BY <1>1, <1>2, <1>3, <1>4, <1>5 DEF Call

\* Every step of the reader thread keeps the types.
LEMMA ReaderType ==
  ASSUME TypeOK, ReaderLoop
  PROVE  TypeOK'
<1>0. /\ Len(outbound) \in Nat /\ Len(wire) \in Nat
      /\ QueueMax \in Nat /\ WireMax \in Nat
  BY BoundsAssumption DEF TypeOK
<1> HIDE DEF Command
<1>1. CASE Connect
  BY <1>1 DEF TypeOK, Connect, Step, ack, calls
<1>2. ASSUME NEW a \in {"ack", "nak"}, AckRead(a)
      PROVE  TypeOK'
  <2>1. /\ wire' \in Seq(Command) /\ Len(wire') <= WireMax
        /\ lastOf' \in Command \union {"none"}
    BY <1>0, <1>2, TailType DEF TypeOK, AckRead
  <2>2. at' \in [Waiters -> CallSteps]
    BY <1>2 DEF TypeOK, AckRead, CallSteps
  <2> QED
    BY <1>2, <2>1, <2>2 DEF TypeOK, AckRead, Step
<1>3. CASE NoAnswer
  BY <1>3 DEF TypeOK, NoAnswer, Step, ack, calls
<1>4. CASE PortLost
  BY <1>4 DEF TypeOK, PortLost, Step, ack, calls
<1>5. CASE Write
  <2>1. outbound' \in Seq(Command) /\ Len(outbound') <= QueueMax
    BY <1>0, <1>5, TailType DEF TypeOK, Write
  <2>2. wire' \in Seq(Command) /\ Len(wire') <= WireMax
    <3>1. Head(outbound) \in Command
      BY <1>5, TailType DEF TypeOK, Write
    <3>2. CASE wire' = wire
      BY <3>2 DEF TypeOK
    <3>3. CASE Len(wire) < WireMax /\ wire' = Append(wire, Head(outbound))
      BY <1>0, <3>1, <3>3, AppendType DEF TypeOK
    <3> QED
      BY <1>5, <3>2, <3>3 DEF Write
  <2>3. open' \in BOOLEAN
    BY <1>5 DEF TypeOK, Write
  <2> QED
    BY <1>5, <2>1, <2>2, <2>3 DEF TypeOK, Write, Step, ack, calls
<1>6. CASE AllSent
  BY <1>6 DEF TypeOK, AllSent, Step, ack, calls
<1> QED
  BY <1>1, <1>2, <1>3, <1>4, <1>5, <1>6 DEF ReaderLoop

\* Every variable stays within its type, for every bound.
THEOREM TypeCorrect == Spec => []TypeOK
<1>1. Init => TypeOK
  <2> HIDE DEF Command
  <2> SUFFICES ASSUME Init PROVE TypeOK
    OBVIOUS
  <2>1. outbound \in Seq(Command) /\ Len(outbound) <= QueueMax
    BY BoundsAssumption DEF Init
  <2>2. wire \in Seq(Command) /\ Len(wire) <= WireMax
    BY BoundsAssumption DEF Init
  <2>3. /\ at \in [Waiters -> CallSteps]
        /\ got \in [Waiters -> {"none", "ack", "nak", "timeout", "full", "lost"}]
        /\ own \in [Waiters -> BOOLEAN]
    BY DEF Init, CallSteps
  <2> QED
    BY <2>1, <2>2, <2>3 DEF Init, TypeOK
<1>2. TypeOK /\ [Next]_vars => TypeOK'
  <2> SUFFICES ASSUME TypeOK, [Next]_vars PROVE TypeOK'
    OBVIOUS
  <2>1. ASSUME NEW w \in Waiters, Call(w) PROVE TypeOK'
    BY <2>1, CallType
  <2>2. CASE SendCommand
    <3>1. PICK c \in Command : outbound' = Append(outbound, c)
      BY <2>2, FiredAssumption DEF SendCommand, Command
    <3>2. outbound' \in Seq(Command) /\ Len(outbound') <= QueueMax
      <4>1. Len(outbound) \in Nat /\ QueueMax \in Nat
        BY BoundsAssumption DEF TypeOK
      <4> HIDE DEF Command
      <4> QED
        BY <2>2, <3>1, <4>1, AppendType DEF TypeOK, SendCommand
    <3> HIDE DEF Command
    <3> QED
      BY <2>2, <3>2 DEF TypeOK, SendCommand, ack, Unspoilt
  <2>3. CASE ReaderLoop
    BY <2>3, ReaderType
  <2>4. CASE Unanswered
    <3>1. wire' \in Seq(Command) /\ Len(wire') <= WireMax
      <4>1. Len(wire) \in Nat /\ WireMax \in Nat
        BY BoundsAssumption DEF TypeOK
      <4> HIDE DEF Command
      <4> QED
        BY <2>4, <4>1, TailType DEF TypeOK, Unanswered
    <3> HIDE DEF Command
    <3> QED
      BY <2>4, <3>1 DEF TypeOK, Unanswered, ack, calls
  <2>5. CASE UNCHANGED vars
    <3> HIDE DEF Command
    <3> QED
      BY <2>5 DEF TypeOK, vars, ack, calls
  <2> QED
    BY <2>1, <2>2, <2>3, <2>4, <2>5 DEF Next
<1> QED
  BY <1>1, <1>2, PTL DEF Spec

-----------------------------------------------------------------------------
(* A call returns no answer older than itself.                             *)

\* While a call is under way there is no result unless it has seen an answer.
ResultHeard == \A w \in Waiters : at[w] # "idle" /\ last # "none" => w \in heard

FreshInv == ResultHeard /\ FreshAnswer

\* The end of a call: it returns what it has heard, or nothing.
LEMMA ReturnFresh ==
  ASSUME TypeOK, FreshInv, NEW w \in Waiters, NEW result,
         result \in {"ack", "nak"} => w \in heard,
         Return(w, result)
  PROVE  FreshInv'
<1>1. ResultHeard'
  BY DEF TypeOK, FreshInv, ResultHeard, Return
<1>2. FreshAnswer'
  BY DEF TypeOK, FreshInv, FreshAnswer, Return
<1> QED
  BY <1>1, <1>2 DEF FreshInv

\* An answer is returned only by a call that has seen one since it began.
THEOREM FreshAnswerAlways == Spec => []FreshAnswer
<1>1. Init => FreshInv
  BY DEF Init, FreshInv, ResultHeard, FreshAnswer
<1>2. TypeOK /\ FreshInv /\ [Next]_vars => FreshInv'
  <2> SUFFICES ASSUME TypeOK, FreshInv, [Next]_vars PROVE FreshInv'
    OBVIOUS
  <2>1. ASSUME NEW w \in Waiters, Call(w) PROVE FreshInv'
    <3>1. CASE Reset(w)
      BY <3>1 DEF TypeOK, Reset, Begin, FreshInv, ResultHeard, FreshAnswer
    <3>2. CASE Put(w)
      <4>1. CASE Return(w, "full")
        BY <4>1, ReturnFresh
      <4>2. CASE ~Return(w, "full")
        BY <3>2, <4>2 DEF TypeOK, Put, ack, FreshInv, ResultHeard, FreshAnswer
      <4> QED
        BY <4>1, <4>2
    <3>3. CASE Enter(w)
      BY <3>3 DEF TypeOK, Enter, ack, FreshInv, ResultHeard, FreshAnswer
    <3>4. CASE Expire(w)
      BY <3>4, ReturnFresh DEF Expire
    <3>5. CASE ReadResult(w)
      <4>1. last # "none" => w \in heard
        BY <3>5 DEF ReadResult, FreshInv, ResultHeard
      <4> QED
        BY <3>5, <4>1, ReturnFresh DEF ReadResult
    <3> QED
      BY <2>1, <3>1, <3>2, <3>3, <3>4, <3>5 DEF Call
  <2>2. ASSUME NEW a \in {"ack", "nak"}, AckRead(a) PROVE FreshInv'
    BY <2>2 DEF TypeOK, AckRead, FreshInv, ResultHeard, FreshAnswer
  <2>3. CASE SendCommand \/ Connect \/ NoAnswer \/ PortLost \/ Write \/ AllSent
             \/ Unanswered \/ UNCHANGED vars
    BY <2>3 DEF SendCommand, Connect, NoAnswer, PortLost, Write, AllSent,
                Unanswered, vars, ack, calls, FreshInv, ResultHeard, FreshAnswer
  <2> QED
    BY <2>1, <2>2, <2>3 DEF Next, ReaderLoop
<1>3. FreshInv => FreshAnswer
  BY DEF FreshInv
<1> QED
  BY <1>1, <1>2, <1>3, TypeCorrect, PTL DEF Spec

-----------------------------------------------------------------------------
(* A call that has the channel to itself.                                  *)

Absent(w, s) == \A i \in 1 .. Len(s) : s[i] # w
AtMostOnce(w, s) == \A i, j \in 1 .. Len(s) : s[i] = w /\ s[j] = w => i = j

\* Nobody else is calling.
NobodyElse(w) == \A v \in Waiters \ {w} : at[v] = "idle"

\* Both queues hold the thread's command and polls, nothing of an earlier call.
OnlyMine(w) == /\ \A i \in 1 .. Len(outbound) : outbound[i] \in {w, "poll"}
               /\ \A i \in 1 .. Len(wire) : wire[i] \in {w, "poll"}

\* The command is in one place of one queue at most.
OnePlace(w) == /\ AtMostOnce(w, outbound) /\ AtMostOnce(w, wire)
               /\ Absent(w, outbound) \/ Absent(w, wire)

\* It is in neither before it was queued and after it was answered.
NotYetOrNoMore(w) ==
    at[w] = "put" \/ last # "none" => Absent(w, outbound) /\ Absent(w, wire)

\* The only answer there can be is the command's own; the event, the result and
\* what the call has heard agree, and so does the step the call is at.
ResultIsOwn(w) ==
    /\ last # "none" => lastOf = w
    /\ event <=> last # "none"
    /\ w \in heard => last # "none"
    /\ at[w] \in {"put", "wait"} => last = "none"
    /\ at[w] = "read" => last # "none"

ChannelInv(w) == OnlyMine(w) /\ OnePlace(w) /\ NotYetOrNoMore(w) /\ ResultIsOwn(w)

Undisturbed(w) == w \in alone /\ at[w] # "idle"

\* A call that is under way has not returned anything.
NoResultYet == \A w \in Waiters : at[w] # "idle" => got[w] = "none"

SoleInv == /\ \A w \in Waiters : Undisturbed(w) => NobodyElse(w) /\ ChannelInv(w)
           /\ NoResultYet /\ AnswerIsOwn /\ SilenceMeansNone

\* A call begins: if the channel is quiet there is nothing of its own in it yet.
LEMMA ResetSole ==
  ASSUME TypeOK, SoleInv, NEW u \in Waiters, Reset(u)
  PROVE  SoleInv'
<1>1. /\ at' = [at EXCEPT ![u] = "put"] /\ UNCHANGED <<outbound, wire>>
      /\ event' = FALSE /\ last' = "none"
      /\ got' = [got EXCEPT ![u] = "none"] /\ own' = [own EXCEPT ![u] = FALSE]
      /\ heard' = heard \ {u}
      /\ alone' = (Unspoilt \ {u}) \union (IF Quiet(u) THEN {u} ELSE {})
  BY DEF Reset, Begin
<1>2. ASSUME NEW w \in Waiters, Undisturbed(w)'
      PROVE  NobodyElse(w)' /\ ChannelInv(w)'
  <2>1. w = u /\ Quiet(u)
    BY <1>1, <1>2 DEF TypeOK, Undisturbed, Unspoilt
  <2>2. DOMAIN outbound = 1 .. Len(outbound) /\ DOMAIN wire = 1 .. Len(wire)
    BY DEF TypeOK
  <2>3. /\ \A i \in 1 .. Len(outbound) : outbound[i] = "poll"
        /\ \A i \in 1 .. Len(wire) : wire[i] = "poll"
    BY <2>1, <2>2 DEF Quiet
  <2>4. u # "poll"
    BY WaitersAssumption
  <2>5. NobodyElse(u)'
    BY <1>1, <2>1 DEF TypeOK, Quiet, NobodyElse
  <2>6. OnlyMine(u)' /\ OnePlace(u)' /\ NotYetOrNoMore(u)'
    BY <1>1, <2>3, <2>4 DEF OnlyMine, OnePlace, NotYetOrNoMore, Absent, AtMostOnce
  <2>7. ResultIsOwn(u)'
    BY <1>1 DEF TypeOK, ResultIsOwn
  <2> QED
    BY <2>1, <2>5, <2>6, <2>7 DEF ChannelInv
<1>3. NoResultYet' /\ AnswerIsOwn' /\ SilenceMeansNone'
  BY <1>1 DEF TypeOK, SoleInv, NoResultYet, AnswerIsOwn, SilenceMeansNone, Unspoilt
<1> QED
  BY <1>2, <1>3 DEF SoleInv

\* A call ends.  No other call under way was undisturbed.
LEMMA ReturnSole ==
  ASSUME TypeOK, SoleInv, NEW u \in Waiters, at[u] # "idle", NEW result,
         u \in alone /\ result \in {"ack", "nak"} => lastOf = u,
         u \in alone /\ result \in {"timeout", "lost"} => u \notin heard,
         Return(u, result)
  PROVE  SoleInv'
<1>1. ASSUME NEW w \in Waiters, Undisturbed(w)' PROVE FALSE
  <2>1. w # u /\ Undisturbed(w)
    BY <1>1 DEF TypeOK, Return, Undisturbed
  <2> QED
    BY <2>1 DEF SoleInv, NobodyElse
<1>2. NoResultYet' /\ AnswerIsOwn' /\ SilenceMeansNone'
  BY DEF TypeOK, Return, SoleInv, NoResultYet, AnswerIsOwn, SilenceMeansNone
<1> QED
  BY <1>1, <1>2 DEF SoleInv

\* A step that neither begins nor ends a call keeps SoleInv if it keeps the
\* channel of every call that was and stays undisturbed.
LEMMA StepSole ==
  ASSUME TypeOK, SoleInv, alone' \subseteq alone, UNCHANGED <<got, own>>,
         \A w \in Waiters : at'[w] = "idle" <=> at[w] = "idle",
         \A w \in Waiters : at[w] = "idle" /\ w \in heard' => w \in heard,
         \A w \in Waiters :
             Undisturbed(w) /\ NobodyElse(w) /\ ChannelInv(w) => ChannelInv(w)'
  PROVE  SoleInv'
<1>1. NoResultYet' /\ AnswerIsOwn'
  BY DEF SoleInv, NoResultYet, AnswerIsOwn
<1>2. SilenceMeansNone'
  BY DEF TypeOK, SoleInv, NoResultYet, SilenceMeansNone
<1>3. ASSUME NEW w \in Waiters, Undisturbed(w)'
      PROVE  NobodyElse(w)' /\ ChannelInv(w)'
  <2>1. Undisturbed(w)
    BY <1>3 DEF Undisturbed
  <2>2. NobodyElse(w) /\ ChannelInv(w)
    BY <2>1 DEF SoleInv
  <2>3. NobodyElse(w)'
    BY <2>2 DEF NobodyElse
  <2> QED
    BY <2>1, <2>2, <2>3
<1> QED
  BY <1>1, <1>2, <1>3 DEF SoleInv

\* A caller queues its command.
LEMMA PutSole ==
  ASSUME TypeOK, NEW w \in Waiters, ChannelInv(w), at[w] = "put",
         outbound' = Append(outbound, w), at' = [at EXCEPT ![w] = "enter"],
         UNCHANGED <<event, last, lastOf, wire, heard>>
  PROVE  ChannelInv(w)'
<1>0. Len(outbound) \in Nat /\ Len(wire) \in Nat
  BY DEF TypeOK
<1>1. w \in Command
  BY DEF Command
<1>2. /\ Len(outbound') = Len(outbound) + 1
      /\ outbound'[Len(outbound) + 1] = w
      /\ \A i \in 1 .. Len(outbound) : outbound'[i] = outbound[i]
  BY <1>1, AppendType DEF TypeOK
<1>3. Absent(w, outbound) /\ Absent(w, wire) /\ last = "none"
  BY DEF ChannelInv, NotYetOrNoMore, ResultIsOwn
<1>4. at'[w] = "enter"
  BY DEF TypeOK
<1>5. OnlyMine(w)'
  BY <1>0, <1>2 DEF ChannelInv, OnlyMine
<1>6. OnePlace(w)'
  BY <1>0, <1>2, <1>3 DEF ChannelInv, OnePlace, Absent, AtMostOnce
<1>7. NotYetOrNoMore(w)' /\ ResultIsOwn(w)'
  BY <1>3, <1>4 DEF ChannelInv, NotYetOrNoMore, ResultIsOwn
<1> QED
  BY <1>5, <1>6, <1>7 DEF ChannelInv

\* The steps of a call.
LEMMA CallSole ==
  ASSUME TypeOK, SoleInv, NEW u \in Waiters, Call(u)
  PROVE  SoleInv'
<1>0. \A w \in Waiters : Undisturbed(w) /\ at[u] # "idle" => w = u
  BY DEF SoleInv, NobodyElse
<1>1. CASE Reset(u)
  BY <1>1, ResetSole
<1>2. CASE Put(u)
  <2>1. at[u] = "put"
    BY <1>2 DEF Put
  <2>2. CASE Return(u, "full")
    BY <2>1, <2>2, ReturnSole
  <2>3. CASE ~Return(u, "full")
    <3>1. /\ outbound' = Append(outbound, u) /\ at' = [at EXCEPT ![u] = "enter"]
          /\ UNCHANGED <<event, last, lastOf, wire, got, own, heard, alone>>
      BY <1>2, <2>3 DEF Put, ack
    <3>2. \A w \in Waiters : at'[w] = "idle" <=> at[w] = "idle"
      BY <2>1, <3>1 DEF TypeOK
    <3>3. \A w \in Waiters : Undisturbed(w) /\ ChannelInv(w) => ChannelInv(w)'
      BY <1>0, <2>1, <3>1, PutSole
    <3> QED
      BY <3>1, <3>2, <3>3, StepSole
  <2> QED
    BY <2>2, <2>3
<1>3. CASE Enter(u)
  <2>1. /\ at[u] = "enter" /\ at' = [at EXCEPT ![u] = IF event THEN "read" ELSE "wait"]
        /\ UNCHANGED <<outbound, wire, event, last, lastOf, got, own, heard, alone>>
    BY <1>3 DEF Enter, ack
  <2>2. \A w \in Waiters : at'[w] = "idle" <=> at[w] = "idle"
    BY <2>1 DEF TypeOK
  <2>3. ASSUME ChannelInv(u), Undisturbed(u)
        PROVE  ChannelInv(u)'
    <3>1. OnlyMine(u)' /\ OnePlace(u)'
      BY <2>1, <2>3 DEF ChannelInv, OnlyMine, OnePlace, Absent, AtMostOnce
    <3>2. at'[u] = IF event THEN "read" ELSE "wait"
      BY <2>1 DEF TypeOK
    <3>3. event <=> last # "none"
      BY <2>1, <2>3 DEF ChannelInv, ResultIsOwn
    <3>4. NotYetOrNoMore(u)' /\ ResultIsOwn(u)'
      BY <2>1, <2>3, <3>2, <3>3 DEF ChannelInv, NotYetOrNoMore, ResultIsOwn, Absent
    <3> QED
      BY <3>1, <3>4 DEF ChannelInv
  <2> QED
    BY <1>0, <2>1, <2>2, <2>3, StepSole
<1>4. CASE Expire(u)
  <2>1. at[u] = "wait" /\ Return(u, "timeout")
    BY <1>4 DEF Expire
  <2>2. u \in alone => u \notin heard
    BY <2>1 DEF SoleInv, Undisturbed, ChannelInv, ResultIsOwn
  <2> QED
    BY <2>1, <2>2, ReturnSole
<1>5. CASE ReadResult(u)
  <2>1. at[u] = "read" /\ Return(u, IF last = "none" THEN "lost" ELSE last)
    BY <1>5 DEF ReadResult
  <2>2. u \in alone => last # "none" /\ lastOf = u
    BY <2>1 DEF SoleInv, Undisturbed, ChannelInv, ResultIsOwn
  <2>3. last \in {"none", "ack", "nak"}
    BY DEF TypeOK
  <2> DEFINE result == IF last = "none" THEN "lost" ELSE last
  <2>4. /\ u \in alone /\ result \in {"ack", "nak"} => lastOf = u
        /\ u \in alone /\ result \in {"timeout", "lost"} => u \notin heard
    BY <2>2, <2>3
  <2> HIDE DEF result
  <2>5. Return(u, result)
    BY <2>1 DEF result
  <2> QED
    BY <2>1, <2>4, <2>5, ReturnSole
<1> QED
  BY <1>1, <1>2, <1>3, <1>4, <1>5 DEF Call

\* A poll is queued.
LEMMA PollSole ==
  ASSUME TypeOK, NEW w \in Waiters, ChannelInv(w),
         outbound' = Append(outbound, "poll"),
         UNCHANGED <<event, last, lastOf, wire, at, heard>>
  PROVE  ChannelInv(w)'
<1>0. Len(outbound) \in Nat /\ w # "poll"
  BY WaitersAssumption DEF TypeOK
<1>1. /\ Len(outbound') = Len(outbound) + 1
      /\ outbound'[Len(outbound) + 1] = "poll"
      /\ \A i \in 1 .. Len(outbound) : outbound'[i] = outbound[i]
  <2>1. "poll" \in Command
    BY DEF Command
  <2> QED
    BY <2>1, AppendType DEF TypeOK
<1>2. OnlyMine(w)'
  BY <1>0, <1>1 DEF ChannelInv, OnlyMine
<1>3. OnePlace(w)'
  BY <1>0, <1>1 DEF ChannelInv, OnePlace, Absent, AtMostOnce
<1>4. NotYetOrNoMore(w)'
  BY <1>0, <1>1 DEF ChannelInv, NotYetOrNoMore, Absent
<1>5. ResultIsOwn(w)'
  BY DEF ChannelInv, ResultIsOwn
<1> QED
  BY <1>2, <1>3, <1>4, <1>5 DEF ChannelInv

\* An answer is read: only polls and the command are on the wire, and polls are
\* not answered with an ACK or a NAK.
LEMMA AckSole ==
  ASSUME TypeOK, NEW w \in Waiters, Undisturbed(w), ChannelInv(w),
         NEW a \in {"ack", "nak"}, AckRead(a)
  PROVE  ChannelInv(w)'
<1>0. Len(outbound) \in Nat /\ Len(wire) \in Nat
  BY DEF TypeOK
<1>1. wire # <<>> /\ Head(wire) # "poll" /\ wire' = Tail(wire) /\ outbound' = outbound
  BY DEF AckRead
<1>2. /\ Len(wire') = Len(wire) - 1 /\ Len(wire) > 0 /\ Head(wire) = wire[1]
      /\ \A i \in 1 .. Len(wire) - 1 : wire'[i] = wire[i + 1]
  BY <1>1, TailType DEF TypeOK
<1>3. wire[1] = w /\ lastOf' = w
  BY <1>0, <1>1, <1>2 DEF ChannelInv, OnlyMine, AckRead
<1>4. Absent(w, outbound) /\ Absent(w, wire')
  BY <1>0, <1>2, <1>3 DEF ChannelInv, OnePlace, Absent, AtMostOnce
<1>5. OnlyMine(w)'
  BY <1>0, <1>1, <1>2 DEF ChannelInv, OnlyMine
<1>6. OnePlace(w)'
  BY <1>0, <1>1, <1>2, <1>4 DEF ChannelInv, OnePlace, Absent, AtMostOnce
<1>7. NotYetOrNoMore(w)'
  BY <1>1, <1>4 DEF NotYetOrNoMore, Absent
<1>8. ResultIsOwn(w)'
  <2>1. at[w] # "put"
    BY <1>0, <1>2, <1>3 DEF ChannelInv, NotYetOrNoMore, Absent
  <2>2. at'[w] = IF at[w] = "wait" THEN "read" ELSE at[w]
    BY DEF AckRead
  <2>3. last' \in {"ack", "nak"} /\ event' = TRUE
    BY DEF AckRead
  <2> QED
    BY <1>3, <2>1, <2>2, <2>3 DEF ResultIsOwn
<1> QED
  BY <1>5, <1>6, <1>7, <1>8 DEF ChannelInv

\* A queued command is written or dropped.
LEMMA WriteSole ==
  ASSUME TypeOK, NEW w \in Waiters, ChannelInv(w),
         outbound # <<>>, outbound' = Tail(outbound),
         wire' = wire \/ wire' = Append(wire, Head(outbound)),
         UNCHANGED <<event, last, lastOf, at, heard>>
  PROVE  ChannelInv(w)'
<1>0. Len(outbound) \in Nat /\ Len(wire) \in Nat
  BY DEF TypeOK
<1>1. /\ Len(outbound') = Len(outbound) - 1 /\ Len(outbound) > 0
      /\ Head(outbound) = outbound[1] /\ outbound[1] \in Command
      /\ \A i \in 1 .. Len(outbound) - 1 : outbound'[i] = outbound[i + 1]
  BY TailType DEF TypeOK
<1>2. ResultIsOwn(w)'
  BY DEF ChannelInv, ResultIsOwn
<1>3. CASE wire' = wire
  <2>1. OnlyMine(w)' /\ OnePlace(w)'
    BY <1>0, <1>1, <1>3, SMTT(30) DEF ChannelInv, OnlyMine, OnePlace, Absent, AtMostOnce
  <2>2. NotYetOrNoMore(w)'
    BY <1>0, <1>1, <1>3 DEF ChannelInv, NotYetOrNoMore, Absent
  <2> QED
    BY <1>2, <2>1, <2>2 DEF ChannelInv
<1>4. CASE wire' = Append(wire, Head(outbound))
  <2>1. /\ Len(wire') = Len(wire) + 1 /\ wire'[Len(wire) + 1] = outbound[1]
        /\ \A i \in 1 .. Len(wire) : wire'[i] = wire[i]
    BY <1>1, <1>4, AppendType DEF TypeOK
  <2>2. OnlyMine(w)'
    BY <1>0, <1>1, <2>1, SMTT(30) DEF ChannelInv, OnlyMine
  <2>3. AtMostOnce(w, outbound')
    BY <1>0, <1>1, SMTT(30) DEF ChannelInv, OnePlace, AtMostOnce
  <2>4. OnePlace(w)'
    <3>1. CASE outbound[1] = w
      <4>1. Absent(w, outbound') /\ Absent(w, wire)
        BY <1>0, <1>1, <3>1 DEF ChannelInv, OnePlace, Absent, AtMostOnce
      <4>2. AtMostOnce(w, wire')
        BY <1>0, <2>1, <4>1 DEF Absent, AtMostOnce
      <4> QED
        BY <2>3, <4>1, <4>2 DEF OnePlace
    <3>2. CASE outbound[1] # w
      <4>1. AtMostOnce(w, wire')
        BY <1>0, <2>1, <3>2 DEF ChannelInv, OnePlace, AtMostOnce
      <4>2. Absent(w, outbound') \/ Absent(w, wire')
        BY <1>0, <1>1, <2>1, <3>2, SMTT(30) DEF ChannelInv, OnePlace, Absent
      <4> QED
        BY <2>3, <4>1, <4>2 DEF OnePlace
    <3> QED
      BY <3>1, <3>2
  <2>5. NotYetOrNoMore(w)'
    BY <1>0, <1>1, <2>1 DEF ChannelInv, NotYetOrNoMore, Absent
  <2> QED
    BY <1>2, <2>2, <2>4, <2>5 DEF ChannelInv
<1> QED
  BY <1>3, <1>4

\* A command on the wire is not answered.
LEMMA UnansweredSole ==
  ASSUME TypeOK, NEW w \in Waiters, ChannelInv(w), Unanswered
  PROVE  ChannelInv(w)'
<1>1. /\ wire # <<>> /\ wire' = Tail(wire)
      /\ UNCHANGED <<outbound, event, last, lastOf, at, heard>>
  BY DEF Unanswered, ack, calls
<1>2. /\ Len(wire') = Len(wire) - 1 /\ Len(wire) > 0 /\ Len(wire) \in Nat
      /\ \A i \in 1 .. Len(wire) - 1 : wire'[i] = wire[i + 1]
  BY <1>1, TailType DEF TypeOK
<1>3. OnlyMine(w)' /\ OnePlace(w)'
  BY <1>1, <1>2 DEF ChannelInv, OnlyMine, OnePlace, Absent, AtMostOnce
<1>4. NotYetOrNoMore(w)'
  BY <1>1, <1>2 DEF ChannelInv, NotYetOrNoMore, Absent
<1>5. ResultIsOwn(w)'
  BY <1>1 DEF ChannelInv, ResultIsOwn
<1> QED
  BY <1>3, <1>4, <1>5 DEF ChannelInv

\* The steps of the reader thread, of the receiver, and of those who do not wait.
LEMMA OthersSole ==
  ASSUME TypeOK, SoleInv, SendCommand \/ ReaderLoop \/ Unanswered
  PROVE  SoleInv'
<1>1. CASE SendCommand
  <2>1. PICK c \in Fired : /\ outbound' = Append(outbound, c)
                           /\ alone' = IF c = "poll" THEN alone ELSE Unspoilt
    BY <1>1 DEF SendCommand
  <2>2. UNCHANGED <<event, last, lastOf, wire, at, got, own, heard>>
    BY <1>1 DEF SendCommand, ack
  <2>3. CASE c = "poll"
    <3>1. \A w \in Waiters : ChannelInv(w) => ChannelInv(w)'
      BY <2>1, <2>2, <2>3, PollSole
    <3> QED
      BY <2>1, <2>2, <2>3, <3>1, StepSole
  <2>4. CASE c # "poll"
    <3>1. \A w \in Waiters : ~Undisturbed(w)'
      BY <2>1, <2>2, <2>4 DEF Undisturbed, Unspoilt
    <3>2. NoResultYet' /\ AnswerIsOwn' /\ SilenceMeansNone'
      BY <2>1, <2>2, <2>4 DEF SoleInv, NoResultYet, AnswerIsOwn, SilenceMeansNone,
                             Unspoilt
    <3> QED
      BY <3>1, <3>2 DEF SoleInv
  <2> QED
    BY <2>3, <2>4
<1>2. ASSUME NEW a \in {"ack", "nak"}, AckRead(a) PROVE SoleInv'
  <2>1. /\ UNCHANGED <<got, own, alone>>
        /\ at' = [w \in Waiters |-> IF at[w] = "wait" THEN "read" ELSE at[w]]
        /\ heard' = heard \union {w \in Waiters : at[w] # "idle"}
    BY <1>2 DEF AckRead
  <2>2. \A w \in Waiters : at'[w] = "idle" <=> at[w] = "idle"
    BY <2>1
  <2>3. \A w \in Waiters : Undisturbed(w) /\ ChannelInv(w) => ChannelInv(w)'
    BY <1>2, AckSole
  <2> QED
    BY <2>1, <2>2, <2>3, StepSole
<1>3. CASE Write
  <2>1. /\ outbound # <<>> /\ outbound' = Tail(outbound)
        /\ wire' = wire \/ wire' = Append(wire, Head(outbound))
        /\ UNCHANGED <<event, last, lastOf, at, got, own, heard, alone>>
    BY <1>3 DEF Write, ack, calls
  <2>2. \A w \in Waiters : ChannelInv(w) => ChannelInv(w)'
    BY <2>1, WriteSole
  <2> QED
    BY <2>1, <2>2, StepSole
<1>4. CASE Unanswered
  <2>1. UNCHANGED <<at, got, own, heard, alone>>
    BY <1>4 DEF Unanswered, calls
  <2>2. \A w \in Waiters : ChannelInv(w) => ChannelInv(w)'
    BY <1>4, UnansweredSole
  <2> QED
    BY <2>1, <2>2, StepSole
<1>5. CASE Connect \/ NoAnswer \/ PortLost \/ AllSent
  <2>1. UNCHANGED <<outbound, wire, event, last, lastOf, at, got, own, heard, alone>>
    BY <1>5 DEF Connect, NoAnswer, PortLost, AllSent, ack, calls
  <2>2. \A w \in Waiters : ChannelInv(w) => ChannelInv(w)'
    BY <2>1 DEF ChannelInv, OnlyMine, OnePlace, Absent, AtMostOnce,
                NotYetOrNoMore, ResultIsOwn
  <2> QED
    BY <2>1, <2>2, StepSole
<1> QED
  BY <1>1, <1>2, <1>3, <1>4, <1>5 DEF ReaderLoop

\* What SoleInv says holds from the start and through every step.
LEMMA SoleInductive == Spec => []SoleInv
<1>1. Init => SoleInv
  BY DEF Init, SoleInv, Undisturbed, NoResultYet, AnswerIsOwn, SilenceMeansNone
<1>2. TypeOK /\ SoleInv /\ [Next]_vars => SoleInv'
  <2> SUFFICES ASSUME TypeOK, SoleInv, [Next]_vars PROVE SoleInv'
    OBVIOUS
  <2>1. CASE \E v \in Waiters : Call(v)
    BY <2>1, CallSole
  <2>2. CASE SendCommand \/ ReaderLoop \/ Unanswered
    BY <2>2, OthersSole
  <2>3. CASE UNCHANGED vars
    <3>1. UNCHANGED <<outbound, wire, event, last, lastOf, at, got, own, heard, alone>>
      BY <2>3 DEF vars, ack, calls
    <3>2. \A w \in Waiters : ChannelInv(w) => ChannelInv(w)'
      BY <3>1 DEF ChannelInv, OnlyMine, OnePlace, Absent, AtMostOnce,
                  NotYetOrNoMore, ResultIsOwn
    <3> QED
      BY <3>1, <3>2, StepSole
  <2> QED
    BY <2>1, <2>2, <2>3 DEF Next
<1> QED
  BY <1>1, <1>2, TypeCorrect, PTL DEF Spec

\* A call that has the channel to itself returns the answer to its own command,
\* for any set of threads and all queue lengths.
THEOREM SoleCallerGetsOwnAnswer == Spec => []AnswerIsOwn
<1>1. SoleInv => AnswerIsOwn
  BY DEF SoleInv
<1> QED
  BY <1>1, SoleInductive, PTL

\* Such a call misses no answer: when it returns None, none was read since it
\* began.
THEOREM SoleCallerMissesNothing == Spec => []SilenceMeansNone
<1>1. SoleInv => SilenceMeansNone
  BY DEF SoleInv
<1> QED
  BY <1>1, SoleInductive, PTL

=============================================================================
