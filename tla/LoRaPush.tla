------------------------------ MODULE LoRaPush ------------------------------
(***************************************************************************)
(* One LoRaPushClient of app/gnss/lora_push.py: the thread that connects   *)
(* to the LoRa module's serial port and writes the RTCM stream to it in    *)
(* packets, the reader thread that queues the frames, and the owner        *)
(* (_start_lora and _cleanup_lora of autoflow.py) that starts and stops    *)
(* the client.                                                             *)
(*                                                                         *)
(* The link is transparent: a frame is a run of bytes, and a byte is known *)
(* by its position in what the base receiver has produced.                 *)
(***************************************************************************)
EXTENDS Naturals, Sequences

CONSTANTS
    PacketSize,     \* packet_size, 240 bytes
    QueueMax,       \* maxsize of the frame queue, 500
    FrameSizes,     \* lengths of the RTCM frames
    MaxBytes        \* bound: bytes the receiver produces

ASSUME PacketSizeAssumption == PacketSize \in Nat \ {0}
ASSUME QueueMaxAssumption == QueueMax \in Nat \ {0}
ASSUME FrameSizesAssumption == FrameSizes \subseteq Nat \ {0}
ASSUME MaxBytesAssumption == MaxBytes \in Nat

VARIABLES
    (* fields of the client *)
    stopEvent,      \* self._stop_event
    connected,      \* self._connected
    port,           \* self._serial is an open port
    queue,          \* self._queue, a sequence of frames
    (* push thread *)
    pc,             \* the next step of _run_loop
    buffer,         \* the bytes taken from the queue
    (* owner and reader thread *)
    owner,          \* the next step of _start_lora or _cleanup_lora
    registered,     \* put_rtcm is among the reader's callbacks
    handing,        \* the frame the reader hands over, or <<>>
    (* history *)
    produced,       \* bytes the receiver has produced
    last            \* the latest byte written to the port

client == <<stopEvent, connected, port>>
owners == <<owner, registered>>
reader == <<handing, produced>>

vars == <<client, queue, pc, buffer, owners, reader, last>>

-----------------------------------------------------------------------------
(* The reader thread                                                       *)

\* A frame is read; the callbacks are copied under the lock and called outside
\* it, so that the owner may remove the callback before the call.
ReadFrame ==
    /\ registered /\ handing = <<>>
    /\ \E size \in FrameSizes :
        /\ produced + size <= MaxBytes
        /\ produced' = produced + size
        /\ handing' = [i \in 1 .. size |-> produced + i]
    /\ UNCHANGED <<client, queue, pc, buffer, owners, last>>

\* Mutant of PutRtcm: the queue has no limit.
PutAlways ==
    /\ handing # <<>>
    /\ queue' = Append(queue, handing)
    /\ handing' = <<>>
    /\ UNCHANGED <<client, pc, buffer, owners, produced, last>>

\* put_rtcm: a full queue drops the frame.
PutRtcm ==
    /\ handing # <<>>
    /\ queue' = IF Len(queue) < QueueMax THEN Append(queue, handing) ELSE queue
    /\ handing' = <<>>
    /\ UNCHANGED <<client, pc, buffer, owners, produced, last>>

-----------------------------------------------------------------------------
(* _run_loop                                                               *)

Goto(from, to) ==
    /\ pc = from
    /\ pc' = to
    /\ UNCHANGED <<client, queue, buffer, owners, reader, last>>

Top ==
    \/ stopEvent /\ Goto("top", "exiting")
    \/ ~stopEvent /\ ~connected /\ Goto("top", "connect")
    \/ ~stopEvent /\ connected /\ Goto("top", "drain")

\* _connect_serial.
ConnectSerial ==
    /\ pc = "connect"
    /\ \/ port' = TRUE /\ connected' = TRUE /\ pc' = "drain"
       \/ port' = FALSE /\ connected' = FALSE /\ pc' = "pause"
    /\ UNCHANGED <<stopEvent, queue, buffer, owners, reader, last>>

\* Five seconds, or the stop event.
Pause == Goto("pause", "top")

\* get_nowait, until the queue is empty.
Get(from) ==
    /\ pc = from
    /\ queue # <<>>
    /\ buffer' = buffer \o Head(queue)
    /\ queue' = Tail(queue)
    /\ UNCHANGED <<client, pc, owners, reader, last>>

Drain == Get("drain") \/ Get("more")

Drained ==
    /\ queue = <<>>
    /\ \/ Goto("drain", "chunks")
       \/ buffer # <<>> /\ Goto("more", "rest")

\* _write_packet.  Without a port the packet is dropped silently; a write that
\* fails may have sent a part of it; a SerialException closes the port.
WritePacket(packet) ==
    /\ \/ /\ port /\ connected
          /\ last' = packet[Len(packet)]
          /\ UNCHANGED <<connected, port>>
       \/ /\ port /\ connected
          /\ last' \in {last} \union {packet[i] : i \in 1 .. Len(packet)}
          /\ \/ UNCHANGED <<connected, port>>
             \/ connected' = FALSE /\ port' = FALSE
       \/ /\ ~(port /\ connected)
          /\ UNCHANGED <<last, connected, port>>
    /\ UNCHANGED <<stopEvent, queue, owners, reader>>

WriteChunk ==
    /\ pc = "chunks"
    /\ Len(buffer) >= PacketSize
    /\ WritePacket(SubSeq(buffer, 1, PacketSize))
    /\ buffer' = SubSeq(buffer, PacketSize + 1, Len(buffer))
    /\ UNCHANGED pc

\* Mutant of ChunksDone: a rest is kept until it fills a packet.
ChunksDoneIdle ==
    Len(buffer) < PacketSize /\ Goto("chunks", "idle")

\* Less than a packet is left: wait 0.05 s for more.
ChunksDone ==
    \/ buffer = <<>> /\ Goto("chunks", "idle")
    \/ buffer # <<>> /\ Len(buffer) < PacketSize /\ Goto("chunks", "linger")

Linger == Goto("linger", "more")

\* Mutant of WriteRest: the buffer is written and kept.
WriteRestAndKeep ==
    /\ pc = "rest"
    /\ WritePacket(buffer)
    /\ UNCHANGED buffer
    /\ pc' = "top"

\* All that is there goes out as one packet, whatever arrived meanwhile.
WriteRest ==
    /\ pc = "rest"
    /\ WritePacket(buffer)
    /\ buffer' = <<>>
    /\ pc' = "top"

Idle == Goto("idle", "top")

\* The buffer is empty wherever the loop tests the stop event, so that there is
\* nothing for the flush behind the loop.
Exit == buffer = <<>> /\ Goto("exiting", "dead")

-----------------------------------------------------------------------------
(* The owner                                                               *)

ownerFrame == <<queue, buffer, reader, last>>

\* _start_lora: the callback is registered before the thread is started.
Register ==
    /\ owner = "new"
    /\ registered' = TRUE
    /\ owner' = "start"
    /\ UNCHANGED <<client, pc, ownerFrame>>

Start ==
    /\ owner = "start"
    /\ stopEvent' = FALSE
    /\ pc' = "top"
    /\ owner' = "idle"
    /\ UNCHANGED <<connected, port, registered, ownerFrame>>

\* /lora/stop, or /lora/start while the client is not connected: _cleanup_lora.
Unregister ==
    /\ owner = "idle"
    /\ registered' = FALSE
    /\ owner' = "set"
    /\ UNCHANGED <<client, pc, ownerFrame>>

StopSet ==
    /\ owner = "set"
    /\ stopEvent' = TRUE
    /\ owner' = "join"
    /\ UNCHANGED <<connected, port, pc, registered, ownerFrame>>

\* join(timeout=5.0).  The waits of the thread end with the stop event, and an
\* open takes less than five seconds; packets may take two seconds each.
StopJoin ==
    /\ owner = "join"
    /\ pc \in {"dead", "chunks", "rest"}
    /\ owner' = "close"
    /\ UNCHANGED <<client, registered, pc, ownerFrame>>

\* Mutant of StopClose: the port is left to the thread.
StopNoClose ==
    /\ owner = "close"
    /\ owner' = "gone"
    /\ UNCHANGED <<client, registered, pc, ownerFrame>>

\* _close_serial.
StopClose ==
    /\ owner = "close"
    /\ port' = FALSE /\ connected' = FALSE
    /\ owner' = "gone"
    /\ UNCHANGED <<stopEvent, registered, pc, ownerFrame>>

-----------------------------------------------------------------------------
Init ==
    /\ stopEvent = FALSE /\ connected = FALSE /\ port = FALSE
    /\ queue = <<>> /\ buffer = <<>>
    /\ pc = "dead"
    /\ owner = "new" /\ registered = FALSE
    /\ handing = <<>> /\ produced = 0
    /\ last = 0

PushThread == Top \/ ConnectSerial \/ Pause \/ Drain \/ Drained \/ WriteChunk
              \/ ChunksDone \/ Linger \/ WriteRest \/ Idle \/ Exit

OwnerContinues == Register \/ Start \/ StopSet \/ StopJoin \/ StopClose

Next == PushThread \/ OwnerContinues \/ Unregister \/ ReadFrame \/ PutRtcm

Spec == Init /\ [][Next]_vars

\* The push thread runs: each of its waits and writes ends.
FairSpec == Spec /\ WF_vars(PushThread)

-----------------------------------------------------------------------------
(* Properties                                                              *)

FieldsOK ==
    /\ stopEvent \in BOOLEAN /\ connected \in BOOLEAN /\ port \in BOOLEAN
    /\ pc \in {"dead", "top", "connect", "pause", "drain", "more", "chunks",
               "linger", "rest", "idle", "exiting"}
    /\ owner \in {"new", "start", "idle", "set", "join", "close", "gone"}
    /\ registered \in BOOLEAN
    /\ produced \in Nat

QueueOK == queue \in Seq(Seq(Nat)) /\ Len(queue) <= QueueMax

BytesOK ==
    /\ buffer \in Seq(Nat) /\ handing \in Seq(Nat)
    /\ last \in Nat

\* Every variable stays within its type and the queue within its limit.
TypeOK == FieldsOK /\ QueueOK /\ BytesOK

\* The exclusive port is free for the next client once this one is stopped,
\* even when its thread is still writing.
PortReleased == owner = "gone" => ~port /\ ~connected

Bytes(s) == {s[i] : i \in 1 .. Len(s)}

AllBytes(taken, frames) ==
    Bytes(taken) \union UNION {Bytes(frames[i]) : i \in 1 .. Len(frames)}

\* The bytes put_rtcm has accepted and no write has taken.
Waiting == AllBytes(buffer, queue)

Stream == INSTANCE LossyStream WITH pending <- Waiting, last <- last

\* What goes out over LoRa is a stream in order without repetitions, through
\* errors, timeouts and reconnects.
ImplementsStream == Stream!Spec

\* A byte that was accepted, in the queue or in the buffer, is handed to the port
\* in the end, even if it fills no packet and no other frame follows, unless the
\* port is lost or the client is stopped.
NoByteLingers ==
    \A byte \in 1 .. MaxBytes :
        byte \in Waiting ~> byte \notin Waiting \/ ~connected \/ stopEvent

=============================================================================
