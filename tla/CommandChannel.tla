--------------------------- MODULE CommandChannel ---------------------------
(***************************************************************************)
(* The command channel of app/gnss/reader.py: threads that hand commands   *)
(* to the receiver, the reader thread that writes them to the serial port  *)
(* and reads the answers, and the one event and one result through which   *)
(* every ACK and NAK reaches whichever thread is waiting.                  *)
(*                                                                         *)
(* send_command_and_wait_ack is called by the orchestrator thread and by   *)
(* the API thread; send_command, which does not wait, by both.  UBX-ACK    *)
(* messages name a message class, not a command, and reader.py does not    *)
(* look even at that: an answer goes to whoever is waiting.  The model     *)
(* tells the commands apart only by what their caller still wants of them. *)
(***************************************************************************)
EXTENDS Naturals, Sequences

CONSTANTS
    Waiters,        \* the threads that call send_command_and_wait_ack
    QueueMax,       \* queue_maxsize of the outbound queue
    WireMax,        \* bound: commands written whose answer was not read yet
    Fired           \* what threads pass to send_command

ASSUME WaitersAssumption == {"past", "config", "poll", "none"} \intersect Waiters = {}
ASSUME BoundsAssumption == QueueMax \in Nat \ {0} /\ WireMax \in Nat \ {0}
ASSUME FiredAssumption == Fired \subseteq {"config", "poll"}

\* A command a thread waits for bears the thread's name; it is past when the
\* call has returned.  Nobody ever waits for the others: a poll is answered with
\* the message it asks for, any other command with an ACK or a NAK.
Command == Waiters \union {"past", "config", "poll"}

VARIABLES
    outbound,       \* self.outbound_queue
    event,          \* self._ack_event
    last,           \* self._last_ack_result: "none", "ack" or "nak"
    open,           \* self.serial is open
    loop,           \* the next step of _reader_loop
    wire,           \* commands written and not answered, or answer not read
    at,             \* the next step of each thread's call
    got,            \* what the thread's last call returned
    (* history *)
    lastOf,         \* the command last is the answer to
    own,            \* the thread's last call returned the answer to its command
    heard,          \* threads whose call has seen an answer since it began
    alone           \* threads whose call has had the channel to itself

ack   == <<event, last, lastOf>>
calls == <<at, got, own, heard, alone>>
vars  == <<outbound, ack, open, loop, wire, calls>>

CallSteps == {"idle", "put", "enter", "wait", "read"}

-----------------------------------------------------------------------------
(* send_command_and_wait_ack                                               *)

\* A command other than a poll spoils the calls that are under way.
Unspoilt == {w \in alone : at[w] = "idle"}

\* Nothing but polls is on its way, and nobody else is calling.
Quiet(w) ==
    /\ \A v \in Waiters \ {w} : at[v] = "idle"
    /\ \A s \in {outbound, wire} : \A i \in DOMAIN s : s[i] = "poll"

Begin(w) ==
    /\ at[w] = "idle"
    /\ at' = [at EXCEPT ![w] = "put"]
    /\ got' = [got EXCEPT ![w] = "none"]
    /\ own' = [own EXCEPT ![w] = FALSE]
    /\ heard' = heard \ {w}
    /\ alone' = (Unspoilt \ {w}) \union (IF Quiet(w) THEN {w} ELSE {})
    /\ UNCHANGED <<outbound, open, loop, wire>>

\* Mutant of Reset: the previous answer is not forgotten.
ResetNothing(w) == Begin(w) /\ UNCHANGED ack

\* The locked section at the start: forget the previous answer.
Reset(w) ==
    /\ Begin(w)
    /\ event' = FALSE /\ last' = "none" /\ lastOf' = "none"

\* The command of w that its caller no longer waits for.
Retired(s, w) == [i \in DOMAIN s |-> IF s[i] = w THEN "past" ELSE s[i]]

Return(w, result) ==
    /\ at' = [at EXCEPT ![w] = "idle"]
    /\ got' = [got EXCEPT ![w] = result]
    /\ own' = [own EXCEPT ![w] = (lastOf = w)]
    /\ outbound' = Retired(outbound, w)
    /\ wire' = Retired(wire, w)
    /\ lastOf' = IF lastOf = w THEN "past" ELSE lastOf
    /\ UNCHANGED <<event, last, open, loop, heard, alone>>

\* Mutant of Put: the queue has no limit.
PutUnbounded(w) ==
    /\ at[w] = "put"
    /\ outbound' = Append(outbound, w)
    /\ at' = [at EXCEPT ![w] = "enter"]
    /\ UNCHANGED <<ack, open, loop, wire, got, own, heard, alone>>

\* put_nowait: a full queue ends the call.
Put(w) ==
    /\ at[w] = "put"
    /\ \/ /\ Len(outbound) < QueueMax
          /\ outbound' = Append(outbound, w)
          /\ at' = [at EXCEPT ![w] = "enter"]
          /\ UNCHANGED <<ack, open, loop, wire, got, own, heard, alone>>
       \/ Len(outbound) >= QueueMax /\ Return(w, "full")

\* Mutant of Enter: the event is cleared only after the command is queued.
EnterCleared(w) ==
    /\ at[w] = "enter"
    /\ event' = FALSE /\ last' = "none" /\ lastOf' = "none"
    /\ at' = [at EXCEPT ![w] = "wait"]
    /\ UNCHANGED <<outbound, open, loop, wire, got, own, heard, alone>>

\* Event.wait returns at once if the event is set already.
Enter(w) ==
    /\ at[w] = "enter"
    /\ at' = [at EXCEPT ![w] = IF event THEN "read" ELSE "wait"]
    /\ UNCHANGED <<outbound, ack, open, loop, wire, got, own, heard, alone>>

\* The wait times out.
Expire(w) ==
    /\ at[w] = "wait"
    /\ Return(w, "timeout")

\* The locked section at the end; None is "lost" here, the event having been set.
ReadResult(w) ==
    /\ at[w] = "read"
    /\ Return(w, IF last = "none" THEN "lost" ELSE last)

\* send_command: a full queue drops the command.
SendCommand ==
    /\ Len(outbound) < QueueMax
    /\ \E command \in Fired :
          /\ outbound' = Append(outbound, command)
          /\ alone' = IF command = "poll" THEN alone ELSE Unspoilt
    /\ UNCHANGED <<ack, open, loop, wire, at, got, own, heard>>

-----------------------------------------------------------------------------
(* The reader thread                                                       *)

Step(from, to) == loop = from /\ loop' = to

\* The top of the loop: connect if necessary.  Until it succeeds nothing is
\* taken from the queue.
Connect ==
    /\ \/ open /\ Step("top", "process") /\ UNCHANGED open
       \/ ~open /\ Step("top", "process") /\ open' = TRUE
       \/ ~open /\ Step("top", "top") /\ UNCHANGED open
    /\ UNCHANGED <<outbound, ack, wire, calls>>

\* _parse_message of an ACK-ACK or ACK-NAK: the result, then the event, which
\* wakes every thread that waits for it.
AckRead(a) ==
    /\ Step("process", "send")
    /\ wire # <<>> /\ Head(wire) # "poll"
    /\ wire' = Tail(wire)
    /\ last' = a /\ lastOf' = Head(wire) /\ event' = TRUE
    /\ at' = [w \in Waiters |-> IF at[w] = "wait" THEN "read" ELSE at[w]]
    /\ heard' = heard \union {w \in Waiters : at[w] # "idle"}
    /\ UNCHANGED <<outbound, open, got, own, alone>>

\* No message, or one that is not an answer.
NoAnswer ==
    /\ Step("process", "send")
    /\ UNCHANGED <<outbound, ack, open, wire, calls>>

\* An error of the port or 30 s of silence: _close_serial.  The iteration goes
\* on and throws away what is queued.
PortLost ==
    /\ Step("process", "send")
    /\ open' = FALSE
    /\ UNCHANGED <<outbound, ack, wire, calls>>

\* _send_queued_commands takes one command: it is written, or dropped because
\* the port is closed or fails.
Write ==
    /\ Step("send", "send") /\ outbound # <<>>
    /\ outbound' = Tail(outbound)
    /\ \/ /\ open /\ Len(wire) < WireMax
          /\ wire' = Append(wire, Head(outbound))
          /\ UNCHANGED open
       \/ open /\ open' = FALSE /\ UNCHANGED wire
       \/ ~open /\ UNCHANGED <<open, wire>>
    /\ UNCHANGED <<ack, calls>>

AllSent ==
    /\ Step("send", "top") /\ outbound = <<>>
    /\ UNCHANGED <<outbound, ack, open, wire, calls>>

\* A command is not answered, or its answer is lost.
Unanswered ==
    /\ wire # <<>>
    /\ wire' = Tail(wire)
    /\ UNCHANGED <<outbound, ack, open, loop, calls>>

-----------------------------------------------------------------------------
Init ==
    /\ outbound = <<>> /\ wire = <<>>
    /\ event = FALSE /\ last = "none" /\ lastOf = "none"
    /\ open = FALSE /\ loop = "top"
    /\ at = [w \in Waiters |-> "idle"]
    /\ got = [w \in Waiters |-> "none"]
    /\ own = [w \in Waiters |-> FALSE]
    /\ heard = {} /\ alone = {}

Call(w) == Reset(w) \/ Put(w) \/ Enter(w) \/ Expire(w) \/ ReadResult(w)

ReaderLoop == Connect \/ (\E a \in {"ack", "nak"} : AckRead(a)) \/ NoAnswer
              \/ PortLost \/ Write \/ AllSent

Next == (\E w \in Waiters : Call(w)) \/ SendCommand \/ ReaderLoop \/ Unanswered

Spec == Init /\ [][Next]_vars

-----------------------------------------------------------------------------
(* Properties                                                              *)

\* Every variable stays within its type, both queues within their limits.
TypeOK ==
    /\ outbound \in Seq(Command) /\ Len(outbound) <= QueueMax
    /\ wire \in Seq(Command) /\ Len(wire) <= WireMax
    /\ event \in BOOLEAN /\ last \in {"none", "ack", "nak"}
    /\ open \in BOOLEAN /\ loop \in {"top", "process", "send"}
    /\ at \in [Waiters -> CallSteps]
    /\ got \in [Waiters -> {"none", "ack", "nak", "timeout", "full", "lost"}]
    /\ lastOf \in Command \union {"none"}
    /\ own \in [Waiters -> BOOLEAN]
    /\ heard \subseteq Waiters /\ alone \subseteq Waiters

\* A call never returns an answer the reader thread read before the call began,
\* whatever other threads ask, send, or give up at the same time.
FreshAnswer == \A w \in Waiters : got[w] \in {"ack", "nak"} => w \in heard

\* The answer a call returns is the answer to its own command, if the call had
\* the channel to itself: when it began only polls were on their way (no earlier
\* command whose answer is still to come), and nobody else called or sent a
\* command since.  Lost ports, dropped commands and missing answers are no matter.
AnswerIsOwn == \A w \in alone : got[w] \in {"ack", "nak"} => own[w]

\* Such a call that gives up has seen no answer since it began: none that falls
\* between the reset and the wait is missed.
SilenceMeansNone ==
    \A w \in alone : got[w] \in {"timeout", "lost"} => w \notin heard

=============================================================================
