--------------------------- MODULE LoRaPushProofs ---------------------------
(***************************************************************************)
(* Theorems about LoRaPush, for every packet size, queue length and set of *)
(* frame lengths.                                                          *)
(***************************************************************************)
EXTENDS LoRaPush, SequenceTheorems, TLAPS

-----------------------------------------------------------------------------
(* Type correctness                                                        *)

\* Every step of the threads keeps the types of the fields.
LEMMA FieldsCorrect == FieldsOK /\ [Next]_vars => FieldsOK'
<1> SUFFICES ASSUME FieldsOK, [Next]_vars PROVE FieldsOK'
    OBVIOUS
<1> USE DEF FieldsOK, client, owners, reader, ownerFrame, Goto
<1>1. CASE PushThread
  <2>1. CASE WriteChunk \/ WriteRest
    BY <2>1 DEF WriteChunk, WriteRest, WritePacket
  <2>2. CASE Top \/ ConnectSerial \/ Pause \/ Drain \/ Drained
    BY <2>2 DEF Top, ConnectSerial, Pause, Drain, Get, Drained
  <2>3. CASE ChunksDone \/ Linger \/ Idle \/ Exit
    BY <2>3 DEF ChunksDone, Linger, Idle, Exit
  <2>4. QED BY <1>1, <2>1, <2>2, <2>3 DEF PushThread
<1>2. CASE OwnerContinues \/ Unregister
  BY <1>2 DEF OwnerContinues, Register, Start, StopSet, StopJoin, StopClose, Unregister
<1>3. CASE ReadFrame
  BY <1>3, FrameSizesAssumption DEF ReadFrame
<1>4. CASE PutRtcm
  BY <1>4 DEF PutRtcm
<1>5. CASE UNCHANGED vars
  BY <1>5 DEF vars
<1>6. QED BY <1>1, <1>2, <1>3, <1>4, <1>5 DEF Next

\* Taking the first frame of the queue.
LEMMA TakeFirst ==
    ASSUME NEW S, NEW s \in Seq(S), s # <<>>
    PROVE  Head(s) \in S /\ Tail(s) \in Seq(S) /\ Len(Tail(s)) = Len(s) - 1
BY HeadTailProperties

\* Only put_rtcm adds to the queue, and it looks at the limit.
LEMMA QueueStep == QueueOK /\ handing \in Seq(Nat) /\ [Next]_vars => QueueOK'
<1> SUFFICES ASSUME QueueOK, handing \in Seq(Nat), [Next]_vars PROVE QueueOK'
    OBVIOUS
<1> USE QueueMaxAssumption DEF QueueOK
<1>1. CASE UNCHANGED queue
  BY <1>1
<1>2. CASE Drain
  <2>1. queue \in Seq(Seq(Nat)) /\ queue # <<>> /\ queue' = Tail(queue)
    BY <1>2 DEF Drain, Get
  <2>2. queue' \in Seq(Seq(Nat)) /\ Len(queue') = Len(queue) - 1
    BY <2>1, TakeFirst
  <2>3. Len(queue) \in Nat
    BY <2>1, LenProperties
  <2>4. QED BY <2>2, <2>3
<1>3. CASE PutRtcm
  BY <1>3 DEF PutRtcm
<1>4. UNCHANGED queue \/ Drain \/ PutRtcm
  BY DEF Next, PushThread, Top, ConnectSerial, Pause, Drained, WriteChunk,
     WriteRest, WritePacket, ChunksDone, Linger, Idle, Exit, Goto,
     OwnerContinues, Register, Start, StopSet, StopJoin, StopClose, Unregister,
     ReadFrame, ownerFrame, vars
<1>5. QED BY <1>1, <1>2, <1>3, <1>4

\* Where the thread is about to write the rest, there is one.
RestLeft == pc \in {"linger", "more", "rest"} => buffer # <<>>

\* A buffer that has bytes still has them once a frame was added.
LEMMA AddedTo ==
    ASSUME NEW S, NEW s \in Seq(S), NEW t \in Seq(S), s # <<>>
    PROVE  s \o t # <<>>
<1>1. Len(s) \in Nat \ {0} /\ Len(t) \in Nat
  BY EmptySeq, LenProperties
<1>2. Len(s \o t) = Len(s) + Len(t)
  BY ConcatProperties
<1>3. Len(s \o t) # 0
  BY <1>1, <1>2
<1>4. QED BY <1>3, EmptySeq

\* A packet cut off a buffer has bytes.
LEMMA FirstPart ==
    ASSUME NEW S, NEW s \in Seq(S), NEW n \in Nat \ {0}, n <= Len(s)
    PROVE  SubSeq(s, 1, n) \in Seq(S) /\ SubSeq(s, 1, n) # <<>>
<1>1. \A i \in 1 .. n : s[i] \in S
  BY LenProperties
<1>2. SubSeq(s, 1, n) \in Seq(S) /\ Len(SubSeq(s, 1, n)) = n
  BY <1>1, SubSeqProperties
<1>3. QED BY <1>2, EmptySeq

\* Whenever a rest is about to be written there is one.
LEMMA RestLeftStep ==
    BytesOK /\ QueueOK /\ RestLeft /\ [Next]_vars => RestLeft'
<1> SUFFICES ASSUME BytesOK, QueueOK, RestLeft, [Next]_vars PROVE RestLeft'
    OBVIOUS
<1> USE DEF RestLeft, client, owners, reader, ownerFrame, Goto
<1>1. CASE Drain
  <2>1. queue \in Seq(Seq(Nat)) /\ queue # <<>> /\ buffer \in Seq(Nat)
        /\ buffer' = buffer \o Head(queue) /\ pc' = pc
    BY <1>1 DEF Drain, Get, BytesOK, QueueOK
  <2>2. Head(queue) \in Seq(Nat)
    BY <2>1, TakeFirst
  <2>3. buffer # <<>> => buffer' # <<>>
    BY <2>1, <2>2, AddedTo
  <2>4. QED BY <2>1, <2>3
<1>2. CASE Top \/ ConnectSerial \/ Pause \/ Drained
  BY <1>2 DEF Top, ConnectSerial, Pause, Drained
<1>3. CASE WriteChunk \/ WriteRest
  BY <1>3 DEF WriteChunk, WriteRest
<1>4. CASE ChunksDone \/ Linger \/ Idle \/ Exit
  BY <1>4 DEF ChunksDone, Linger, Idle, Exit
<1>5. CASE OwnerContinues \/ Unregister
  BY <1>5 DEF OwnerContinues, Register, Start, StopSet, StopJoin, StopClose, Unregister
<1>6. CASE ReadFrame \/ PutRtcm \/ UNCHANGED vars
  BY <1>6 DEF ReadFrame, PutRtcm, vars
<1>7. QED BY <1>1, <1>2, <1>3, <1>4, <1>5, <1>6 DEF Next, PushThread

\* A packet that goes out is made of bytes the receiver produced.
LEMMA WriteBytes ==
    ASSUME BytesOK, NEW packet \in Seq(Nat), packet # <<>>, WritePacket(packet)
    PROVE  last' \in Nat /\ handing' = handing
<1>1. \A i \in 1 .. Len(packet) : packet[i] \in Nat
  OBVIOUS
<1>2. Len(packet) \in 1 .. Len(packet)
  OBVIOUS
<1>3. last' \in Nat
  BY <1>1, <1>2 DEF WritePacket, BytesOK
<1>4. QED BY <1>3 DEF WritePacket, reader

\* Buffer and packet stay sequences of bytes.
LEMMA BytesStep ==
    FieldsOK /\ QueueOK /\ BytesOK /\ RestLeft /\ [Next]_vars => BytesOK'
<1> SUFFICES ASSUME FieldsOK, QueueOK, BytesOK, RestLeft, [Next]_vars PROVE BytesOK'
    OBVIOUS
<1>1. CASE UNCHANGED <<buffer, handing, last>>
  BY <1>1 DEF BytesOK
<1>2. CASE Drain
  <2>1. queue \in Seq(Seq(Nat)) /\ queue # <<>> /\ buffer \in Seq(Nat)
        /\ buffer' = buffer \o Head(queue)
    BY <1>2 DEF Drain, Get, BytesOK, QueueOK
  <2>2. Head(queue) \in Seq(Nat)
    BY <2>1, TakeFirst
  <2>3. buffer' \in Seq(Nat)
    BY <2>1, <2>2, ConcatProperties
  <2>4. QED BY <1>2, <2>3 DEF Drain, Get, BytesOK, reader
<1>3. CASE WriteChunk
  <2> DEFINE packet == SubSeq(buffer, 1, PacketSize)
  <2>1. packet \in Seq(Nat) /\ packet # <<>>
    BY <1>3, PacketSizeAssumption, FirstPart DEF WriteChunk, BytesOK
  <2>2. WritePacket(packet)
    BY <1>3 DEF WriteChunk
  <2>3. last' \in Nat /\ handing' = handing
    BY <2>1, <2>2, WriteBytes
  <2>4. buffer' \in Seq(Nat)
    BY <1>3, PacketSizeAssumption DEF WriteChunk, BytesOK
  <2>5. QED BY <2>3, <2>4 DEF BytesOK
<1>4. CASE WriteRest
  <2>1. buffer \in Seq(Nat) /\ buffer # <<>> /\ WritePacket(buffer)
    BY <1>4 DEF WriteRest, RestLeft, BytesOK
  <2>2. last' \in Nat /\ handing' = handing
    BY <2>1, WriteBytes
  <2>3. QED BY <1>4, <2>2 DEF BytesOK, WriteRest
<1>5. CASE ReadFrame
  <2>1. PICK size \in FrameSizes : handing' = [i \in 1 .. size |-> produced + i]
    BY <1>5 DEF ReadFrame
  <2>2. handing' \in Seq(Nat)
    BY <2>1, FrameSizesAssumption DEF FieldsOK
  <2>3. QED BY <1>5, <2>2 DEF ReadFrame, BytesOK
<1>6. CASE PutRtcm
  BY <1>6 DEF PutRtcm, BytesOK
<1>7. UNCHANGED <<buffer, handing, last>> \/ Drain \/ WriteChunk
      \/ WriteRest \/ ReadFrame \/ PutRtcm
  BY DEF Next, PushThread, Top, ConnectSerial, Pause, Drained, ChunksDone,
     Linger, Idle, Exit, Goto, OwnerContinues, Register, Start, StopSet,
     StopJoin, StopClose, Unregister, ownerFrame, reader, vars
<1>8. QED BY <1>1, <1>2, <1>3, <1>4, <1>5, <1>6, <1>7

\* The client begins within its type, with no rest to write.
LEMMA TypeInit == Init => TypeOK /\ RestLeft
<1> SUFFICES ASSUME Init PROVE TypeOK /\ RestLeft
    OBVIOUS
<1>1. stopEvent \in BOOLEAN /\ connected \in BOOLEAN /\ port \in BOOLEAN
      /\ registered \in BOOLEAN
  BY DEF Init
<1>2. FieldsOK
  BY <1>1 DEF Init, FieldsOK
<1>3. QueueOK
  BY QueueMaxAssumption DEF Init, QueueOK
<1>4. BytesOK
  BY DEF Init, BytesOK
<1>5. RestLeft
  BY DEF Init, RestLeft
<1>6. QED BY <1>2, <1>3, <1>4, <1>5 DEF TypeOK

\* The queue stays within its limit and every field within its type, for every
\* packet size, queue length and set of frame lengths.
THEOREM TypeCorrect == Spec => []TypeOK
<1>1. TypeOK /\ RestLeft /\ [Next]_vars => (TypeOK /\ RestLeft)'
  <2> SUFFICES ASSUME FieldsOK, QueueOK, BytesOK, RestLeft, [Next]_vars
               PROVE  FieldsOK' /\ QueueOK' /\ BytesOK' /\ RestLeft'
      BY DEF TypeOK
  <2>1. FieldsOK' BY FieldsCorrect
  <2>2. QueueOK' BY QueueStep DEF BytesOK
  <2>3. BytesOK' BY BytesStep
  <2>4. RestLeft' BY RestLeftStep
  <2>5. QED BY <2>1, <2>2, <2>3, <2>4
<1>2. QED BY <1>1, TypeInit, PTL DEF Spec

-----------------------------------------------------------------------------
(* The port                                                                *)

\* Once the owner has joined, the stop event stands and the thread is past the
\* point where it would open the port.
Winding ==
    /\ owner \in {"join", "close", "gone"} => stopEvent
    /\ owner \in {"close", "gone"} =>
           pc \in {"chunks", "linger", "more", "rest", "idle", "top", "exiting", "dead"}

\* The stop event stays, the thread runs down, and the port stays closed.
PortInv == FieldsOK /\ Winding /\ PortReleased

\* A stopped client holds no port and opens none, after any step.
LEMMA PortStep == PortInv /\ [Next]_vars => PortInv'
<1> SUFFICES ASSUME PortInv, [Next]_vars PROVE PortInv'
    OBVIOUS
<1> USE DEF PortInv, Winding, PortReleased, client, owners, reader,
            ownerFrame, Goto
<1>1. FieldsOK'
  BY FieldsCorrect
<1>2. Winding' /\ PortReleased'
  <2>1. CASE Top \/ ConnectSerial \/ Pause
    BY <2>1 DEF Top, ConnectSerial, Pause
  <2>2. CASE Drain \/ Drained \/ ChunksDone \/ Linger \/ Idle \/ Exit
    BY <2>2 DEF Drain, Get, Drained, ChunksDone, Linger, Idle, Exit
  <2>3. CASE WriteChunk \/ WriteRest
    BY <2>3 DEF WriteChunk, WriteRest, WritePacket
  <2>4. CASE OwnerContinues
    BY <2>4 DEF OwnerContinues, Register, Start, StopSet, StopJoin, StopClose
  <2>5. CASE Unregister \/ ReadFrame \/ PutRtcm
    BY <2>5 DEF Unregister, ReadFrame, PutRtcm
  <2>6. CASE UNCHANGED vars
    BY <2>6 DEF vars
  <2>7. QED BY <2>1, <2>2, <2>3, <2>4, <2>5, <2>6 DEF Next, PushThread
<1>3. QED BY <1>1, <1>2

\* The exclusive port is free once the client is stopped (lora_push.py stop and
\* _close_serial), even while its thread is still writing.
THEOREM PortReleasedAlways == Spec => []PortReleased
<1>1. Init => PortInv
  <2>1. Init => FieldsOK
    BY TypeInit DEF TypeOK
  <2>2. Init => Winding /\ PortReleased
    BY DEF Init, Winding, PortReleased
  <2>3. QED BY <2>1, <2>2 DEF PortInv
<1>2. PortInv => PortReleased
  BY DEF PortInv
<1>3. QED BY <1>1, <1>2, PortStep, PTL DEF Spec

-----------------------------------------------------------------------------
(* The stream                                                              *)

Increasing(s) == \A i, j \in 1 .. Len(s) : i < j => s[i] < s[j]

Before(S, T) == \A a \in S, b \in T : a < b

Ordered(taken, frames, coming) ==
    /\ Increasing(taken) /\ Increasing(coming)
    /\ Before(Bytes(taken), Bytes(coming))
    /\ \A i \in 1 .. Len(frames) :
        /\ Increasing(frames[i])
        /\ Before(Bytes(taken), Bytes(frames[i]))
        /\ Before(Bytes(frames[i]), Bytes(coming))
        /\ \A j \in 1 .. Len(frames) :
            i < j => Before(Bytes(frames[i]), Bytes(frames[j]))

\* The bytes are kept in the order in which the receiver produced them: in the
\* buffer, in each frame of the queue and in the frame being handed over, and
\* from each of these to the next.
InOrder == Ordered(buffer, queue, handing)

\* The bytes of a sequence are its elements.
LEMMA BytesIn ==
    ASSUME NEW s \in Seq(Nat)
    PROVE  /\ Len(s) \in Nat
           /\ Bytes(s) \subseteq Nat
           /\ \A i \in 1 .. Len(s) : s[i] \in Nat /\ s[i] \in Bytes(s)
           /\ \A x \in Bytes(s) : \E i \in 1 .. Len(s) : x = s[i]
<1>1. Len(s) \in Nat /\ \A i \in 1 .. Len(s) : s[i] \in Nat
  BY LenProperties, ElementOfSeq
<1>2. QED BY <1>1 DEF Bytes

\* A frame put behind what is left.
LEMMA Joined ==
    ASSUME NEW s \in Seq(Nat), NEW t \in Seq(Nat)
    PROVE  /\ Bytes(s \o t) = Bytes(s) \union Bytes(t)
           /\ Increasing(s) /\ Increasing(t) /\ Before(Bytes(s), Bytes(t))
              => Increasing(s \o t)
<1> DEFINE u == s \o t
<1>1. /\ u \in Seq(Nat)
      /\ Len(u) = Len(s) + Len(t)
      /\ \A i \in 1 .. Len(s) + Len(t) :
             u[i] = IF i <= Len(s) THEN s[i] ELSE t[i - Len(s)]
  BY ConcatProperties
<1>2. Len(s) \in Nat /\ Len(t) \in Nat
  BY LenProperties
<1>3. \A i \in 1 .. Len(s) : i \in 1 .. Len(u) /\ u[i] = s[i]
  BY <1>1, <1>2
<1>4. \A i \in 1 .. Len(t) : i + Len(s) \in 1 .. Len(u) /\ u[i + Len(s)] = t[i]
  BY <1>1, <1>2
<1>5. \A k \in 1 .. Len(u) :
          \/ k \in 1 .. Len(s) /\ u[k] = s[k]
          \/ k - Len(s) \in 1 .. Len(t) /\ u[k] = t[k - Len(s)]
  BY <1>1, <1>2
<1> HIDE DEF u
<1>6. Bytes(u) \subseteq Bytes(s) \union Bytes(t)
  BY <1>5 DEF Bytes
<1>7. Bytes(s) \subseteq Bytes(u)
  BY <1>3 DEF Bytes
<1>8. Bytes(t) \subseteq Bytes(u)
  BY <1>4 DEF Bytes
<1>9. ASSUME Increasing(s), Increasing(t), Before(Bytes(s), Bytes(t)),
             NEW i \in 1 .. Len(u), NEW j \in 1 .. Len(u), i < j
      PROVE  u[i] < u[j]
  <2>1. CASE j \in 1 .. Len(s) /\ u[j] = s[j]
    <3>1. i \in 1 .. Len(s) /\ u[i] = s[i]
      BY <1>2, <1>3, <1>9, <2>1
    <3>2. QED BY <1>9, <2>1, <3>1 DEF Increasing
  <2>2. CASE j - Len(s) \in 1 .. Len(t) /\ u[j] = t[j - Len(s)]
    <3>1. CASE i \in 1 .. Len(s) /\ u[i] = s[i]
      BY <1>9, <2>2, <3>1, BytesIn DEF Before
    <3>2. CASE i - Len(s) \in 1 .. Len(t) /\ u[i] = t[i - Len(s)]
      <4>1. i - Len(s) < j - Len(s)
        BY <1>2, <1>9
      <4>2. QED BY <1>9, <2>2, <3>2, <4>1 DEF Increasing
    <3>3. QED BY <1>5, <3>1, <3>2
  <2>3. QED BY <1>5, <2>1, <2>2
<1>10. QED BY <1>6, <1>7, <1>8, <1>9 DEF u, Increasing

\* A sequence of bytes cut in two.
LEMMA Cut ==
    ASSUME NEW s \in Seq(Nat), NEW n \in 0 .. Len(s)
    PROVE  /\ SubSeq(s, 1, n) \in Seq(Nat)
           /\ SubSeq(s, n + 1, Len(s)) \in Seq(Nat)
           /\ Bytes(s) = Bytes(SubSeq(s, 1, n)) \union Bytes(SubSeq(s, n + 1, Len(s)))
           /\ Increasing(s) =>
                /\ Increasing(SubSeq(s, n + 1, Len(s)))
                /\ Before(Bytes(SubSeq(s, 1, n)), Bytes(SubSeq(s, n + 1, Len(s))))
<1> DEFINE t == SubSeq(s, 1, n)
           u == SubSeq(s, n + 1, Len(s))
<1>1. Len(s) \in Nat /\ \A i \in 1 .. Len(s) : s[i] \in Nat
  BY BytesIn
<1>2. /\ t \in Seq(Nat) /\ Len(t) = n
      /\ \A i \in 1 .. n : t[i] = s[i]
  <2>1. \A i \in 1 .. n : s[i] \in Nat
    BY <1>1
  <2>2. n \in Int /\ (1 <= n \/ n = 0)
    BY <1>1
  <2>3. /\ t \in Seq(Nat)
        /\ Len(t) = IF 1 <= n THEN n - 1 + 1 ELSE 0
        /\ \A i \in 1 .. n - 1 + 1 : t[i] = s[1 + i - 1]
    BY <2>1, <2>2, SubSeqProperties
  <2>4. QED BY <2>2, <2>3
<1>3. /\ u \in Seq(Nat) /\ Len(u) = Len(s) - n
      /\ \A i \in 1 .. Len(s) - n : u[i] = s[n + i]
  <2>1. \A i \in n + 1 .. Len(s) : s[i] \in Nat
    BY <1>1
  <2>2. n + 1 \in Int /\ Len(s) \in Int /\ n \in Nat /\ n <= Len(s)
    BY <1>1
  <2>3. /\ u \in Seq(Nat)
        /\ Len(u) = IF n + 1 <= Len(s) THEN Len(s) - (n + 1) + 1 ELSE 0
        /\ \A i \in 1 .. Len(s) - (n + 1) + 1 : u[i] = s[n + 1 + i - 1]
    BY <2>1, <2>2, SubSeqProperties
  <2>4. QED BY <2>2, <2>3
<1> HIDE DEF t, u
<1>4. \A k \in 1 .. Len(s) :
          \/ k \in 1 .. Len(t) /\ s[k] = t[k]
          \/ k - n \in 1 .. Len(u) /\ s[k] = u[k - n]
  BY <1>1, <1>2, <1>3
<1>5. \A i \in 1 .. Len(t) : i \in 1 .. Len(s) /\ s[i] = t[i]
  BY <1>1, <1>2
<1>6. \A i \in 1 .. Len(u) : i + n \in 1 .. Len(s) /\ s[i + n] = u[i]
  BY <1>1, <1>3
<1>7. Bytes(s) = Bytes(t) \union Bytes(u)
  <2>1. Bytes(s) \subseteq Bytes(t) \union Bytes(u)
    BY <1>4 DEF Bytes
  <2>2. Bytes(t) \subseteq Bytes(s)
    BY <1>5 DEF Bytes
  <2>3. Bytes(u) \subseteq Bytes(s)
    BY <1>6 DEF Bytes
  <2>4. QED BY <2>1, <2>2, <2>3
<1>8. ASSUME Increasing(s)
      PROVE  Increasing(u) /\ Before(Bytes(t), Bytes(u))
  <2>1. ASSUME NEW i \in 1 .. Len(u), NEW j \in 1 .. Len(u), i < j
        PROVE  u[i] < u[j]
    <3>1. i + n < j + n
      BY <1>1, <2>1
    <3>2. QED BY <1>6, <1>8, <2>1, <3>1 DEF Increasing
  <2>2. ASSUME NEW a \in Bytes(t), NEW b \in Bytes(u)
        PROVE  a < b
    <3>1. PICK i \in 1 .. Len(t) : a = t[i]
      BY <1>2, BytesIn
    <3>2. PICK j \in 1 .. Len(u) : b = u[j]
      BY <1>3, BytesIn
    <3>3. i < j + n
      BY <1>1, <1>2, <1>3
    <3>4. QED BY <1>5, <1>6, <1>8, <3>1, <3>2, <3>3 DEF Increasing
  <2>3. QED BY <2>1, <2>2 DEF Increasing, Before
<1>9. QED BY <1>2, <1>3, <1>7, <1>8 DEF t, u

\* A sequence of frames, and its first and last.
LEMMA Frames ==
    ASSUME NEW S, NEW q \in Seq(S)
    PROVE  /\ Len(q) \in Nat
           /\ \A i \in 1 .. Len(q) : q[i] \in S
           /\ \A f \in S : /\ Len(Append(q, f)) = Len(q) + 1
                           /\ \A i \in 1 .. Len(q) : Append(q, f)[i] = q[i]
                           /\ Append(q, f)[Len(q) + 1] = f
           /\ q # <<>> => /\ Len(q) > 0 /\ Head(q) = q[1] /\ Len(Tail(q)) = Len(q) - 1
                          /\ \A i \in 1 .. Len(q) - 1 : Tail(q)[i] = q[i + 1]
<1>1. Len(q) \in Nat /\ \A i \in 1 .. Len(q) : q[i] \in S
  BY LenProperties, ElementOfSeq
<1>2. ASSUME NEW f \in S
      PROVE  /\ Len(Append(q, f)) = Len(q) + 1
             /\ \A i \in 1 .. Len(q) : Append(q, f)[i] = q[i]
             /\ Append(q, f)[Len(q) + 1] = f
  BY AppendProperties
<1>3. ASSUME q # <<>>
      PROVE  /\ Len(q) > 0 /\ Head(q) = q[1] /\ Len(Tail(q)) = Len(q) - 1
             /\ \A i \in 1 .. Len(q) - 1 : Tail(q)[i] = q[i + 1]
  <2>1. Len(q) # 0
    BY <1>3, EmptySeq
  <2>2. QED BY <1>1, <1>3, <2>1, HeadTailProperties
<1>4. QED BY <1>1, <1>2, <1>3

\* Moving the first frame of the queue to the buffer changes neither the bytes
\* nor their order.
LEMMA Taking ==
    ASSUME NEW b \in Seq(Nat), NEW q \in Seq(Seq(Nat)), NEW h \in Seq(Nat), q # <<>>
    PROVE  /\ AllBytes(b \o Head(q), Tail(q)) = AllBytes(b, q)
           /\ Ordered(b, q, h) => Ordered(b \o Head(q), Tail(q), h)
<1> DEFINE c == b \o Head(q)
           t == Tail(q)
<1>1. /\ Len(q) \in Nat /\ Len(q) > 0 /\ Head(q) = q[1] /\ q[1] \in Seq(Nat)
      /\ Len(t) = Len(q) - 1
      /\ \A i \in 1 .. Len(q) - 1 : t[i] = q[i + 1]
  BY Frames
<1>2. /\ Bytes(c) = Bytes(b) \union Bytes(q[1])
      /\ Increasing(b) /\ Increasing(q[1]) /\ Before(Bytes(b), Bytes(q[1]))
         => Increasing(c)
  BY <1>1, Joined
<1> HIDE DEF c, t
<1>3. \A i \in 1 .. Len(t) : i + 1 \in 1 .. Len(q) /\ t[i] = q[i + 1]
  BY <1>1
<1>4. \A i \in 1 .. Len(q) : i = 1 \/ (i - 1 \in 1 .. Len(t) /\ q[i] = t[i - 1])
  BY <1>1
<1>5. AllBytes(c, t) = AllBytes(b, q)
  <2>1. UNION {Bytes(t[i]) : i \in 1 .. Len(t)} \subseteq UNION {Bytes(q[i]) : i \in 1 .. Len(q)}
    BY <1>3
  <2>2. Bytes(q[1]) \subseteq UNION {Bytes(q[i]) : i \in 1 .. Len(q)}
    <3>1. 1 \in 1 .. Len(q)
      BY <1>1
    <3>2. QED BY <3>1
  <2>3. UNION {Bytes(q[i]) : i \in 1 .. Len(q)}
           \subseteq Bytes(q[1]) \union UNION {Bytes(t[i]) : i \in 1 .. Len(t)}
    BY <1>4
  <2>4. QED BY <1>2, <2>1, <2>2, <2>3 DEF AllBytes
<1>6. ASSUME Ordered(b, q, h) PROVE Ordered(c, t, h)
  <2>1. 1 \in 1 .. Len(q)
    BY <1>1
  <2>2. /\ Increasing(b) /\ Increasing(h) /\ Before(Bytes(b), Bytes(h))
        /\ \A i \in 1 .. Len(q) :
            /\ Increasing(q[i])
            /\ Before(Bytes(b), Bytes(q[i]))
            /\ Before(Bytes(q[i]), Bytes(h))
            /\ \A j \in 1 .. Len(q) : i < j => Before(Bytes(q[i]), Bytes(q[j]))
    BY <1>6 DEF Ordered
  <2>3. Increasing(c) /\ Before(Bytes(c), Bytes(h))
    BY <1>2, <2>1, <2>2 DEF Before
  <2>4. ASSUME NEW i \in 1 .. Len(t)
        PROVE  /\ Increasing(t[i])
               /\ Before(Bytes(c), Bytes(t[i]))
               /\ Before(Bytes(t[i]), Bytes(h))
               /\ \A j \in 1 .. Len(t) : i < j => Before(Bytes(t[i]), Bytes(t[j]))
    <3>1. i + 1 \in 1 .. Len(q) /\ t[i] = q[i + 1] /\ 1 < i + 1
      BY <1>3
    <3>2. Increasing(t[i]) /\ Before(Bytes(t[i]), Bytes(h))
      BY <2>2, <3>1
    <3>3. Before(Bytes(b), Bytes(t[i])) /\ Before(Bytes(q[1]), Bytes(t[i]))
      BY <2>1, <2>2, <3>1
    <3>4. Before(Bytes(c), Bytes(t[i]))
      BY <1>2, <3>3 DEF Before
    <3>5. ASSUME NEW j \in 1 .. Len(t), i < j
          PROVE  Before(Bytes(t[i]), Bytes(t[j]))
      <4>1. j + 1 \in 1 .. Len(q) /\ t[j] = q[j + 1] /\ i + 1 < j + 1
        BY <1>3, <3>5
      <4>2. QED BY <2>2, <3>1, <4>1
    <3>6. QED BY <3>2, <3>4, <3>5
  <2>5. QED BY <2>2, <2>3, <2>4 DEF Ordered
<1>7. QED BY <1>5, <1>6 DEF c, t

\* Bytes in order stay so without the frame the reader holds.
LEMMA NothingComing ==
    ASSUME NEW b, NEW q, NEW h, Ordered(b, q, h)
    PROVE  Ordered(b, q, <<>>)
<1>1. Bytes(<<>>) = {} /\ Increasing(<<>>)
  BY EmptySeq DEF Bytes, Increasing
<1>2. QED BY <1>1 DEF Ordered, Before

\* The frame that is handed over takes its place behind the others.
LEMMA Queuing ==
    ASSUME NEW b \in Seq(Nat), NEW q \in Seq(Seq(Nat)), NEW h \in Seq(Nat),
           Ordered(b, q, h)
    PROVE  /\ AllBytes(b, Append(q, h)) = AllBytes(b, q) \union Bytes(h)
           /\ \A new \in Bytes(h), old \in AllBytes(b, q) : old < new
           /\ Ordered(b, Append(q, h), <<>>)
<1> DEFINE r == Append(q, h)
<1>1. /\ Len(q) \in Nat /\ Len(r) = Len(q) + 1
      /\ \A i \in 1 .. Len(q) : r[i] = q[i]
      /\ r[Len(q) + 1] = h
  BY Frames
<1>2. Bytes(<<>>) = {} /\ Increasing(<<>>)
  BY EmptySeq DEF Bytes, Increasing
<1> HIDE DEF r
<1>3. ASSUME NEW i \in 1 .. Len(r)
      PROVE  (i \in 1 .. Len(q) /\ r[i] = q[i]) \/ (i = Len(q) + 1 /\ r[i] = h)
  <2>1. i \in 1 .. Len(q) \/ i = Len(q) + 1
    BY <1>1
  <2>2. QED BY <1>1, <2>1
<1>4. /\ \A i \in 1 .. Len(q) : i \in 1 .. Len(r) /\ r[i] = q[i]
      /\ Len(q) + 1 \in 1 .. Len(r) /\ r[Len(q) + 1] = h
  BY <1>1
<1>5. AllBytes(b, r) = AllBytes(b, q) \union Bytes(h)
  <2>1. UNION {Bytes(r[i]) : i \in 1 .. Len(r)}
           \subseteq Bytes(h) \union UNION {Bytes(q[i]) : i \in 1 .. Len(q)}
    BY <1>3
  <2>2. UNION {Bytes(q[i]) : i \in 1 .. Len(q)} \subseteq UNION {Bytes(r[i]) : i \in 1 .. Len(r)}
    BY <1>4
  <2>3. Bytes(h) \subseteq UNION {Bytes(r[i]) : i \in 1 .. Len(r)}
    BY <1>4
  <2>4. QED BY <2>1, <2>2, <2>3 DEF AllBytes
<1>6. /\ Increasing(b) /\ Increasing(h) /\ Before(Bytes(b), Bytes(h))
      /\ \A i \in 1 .. Len(q) :
          /\ Increasing(q[i])
          /\ Before(Bytes(b), Bytes(q[i]))
          /\ Before(Bytes(q[i]), Bytes(h))
          /\ \A j \in 1 .. Len(q) : i < j => Before(Bytes(q[i]), Bytes(q[j]))
  BY DEF Ordered
<1>7. \A new \in Bytes(h), old \in AllBytes(b, q) : old < new
  BY <1>6 DEF AllBytes, Before
<1>8. Ordered(b, r, <<>>)
  <2>1. \A i \in 1 .. Len(r) :
          /\ Increasing(r[i])
          /\ Before(Bytes(b), Bytes(r[i]))
          /\ Before(Bytes(r[i]), Bytes(<<>>))
    BY <1>2, <1>3, <1>6 DEF Before
  <2>2. ASSUME NEW i \in 1 .. Len(r), NEW j \in 1 .. Len(r), i < j
        PROVE  Before(Bytes(r[i]), Bytes(r[j]))
    <3>1. i \in 1 .. Len(q) /\ r[i] = q[i]
      BY <1>1, <1>3, <2>2
    <3>2. QED BY <1>3, <1>6, <2>2, <3>1
  <2>3. Before(Bytes(b), Bytes(<<>>))
    BY <1>2 DEF Before
  <2>4. QED BY <1>2, <1>6, <2>1, <2>2, <2>3 DEF Ordered
<1>9. QED BY <1>5, <1>7, <1>8 DEF r

\* The first bytes of the buffer leave it.
LEMMA Sending ==
    ASSUME NEW b \in Seq(Nat), NEW q \in Seq(Seq(Nat)), NEW h \in Seq(Nat),
           NEW n \in 0 .. Len(b), Ordered(b, q, h)
    PROVE  LET gone == SubSeq(b, 1, n)
               left == SubSeq(b, n + 1, Len(b))
           IN  /\ Ordered(left, q, h)
               /\ AllBytes(b, q) = Bytes(gone) \union AllBytes(left, q)
               /\ Before(Bytes(gone), AllBytes(left, q))
<1> DEFINE gone == SubSeq(b, 1, n)
           left == SubSeq(b, n + 1, Len(b))
<1>1. /\ Bytes(b) = Bytes(gone) \union Bytes(left)
      /\ Increasing(b) => Increasing(left) /\ Before(Bytes(gone), Bytes(left))
  BY Cut
<1> HIDE DEF gone, left
<1>2. Ordered(left, q, h)
  BY <1>1 DEF Ordered, Before
<1>3. AllBytes(b, q) = Bytes(gone) \union AllBytes(left, q)
  BY <1>1 DEF AllBytes
<1>4. Before(Bytes(gone), AllBytes(left, q))
  <2>1. Before(Bytes(gone), Bytes(left))
    BY <1>1 DEF Ordered
  <2>2. \A i \in 1 .. Len(q) : Before(Bytes(gone), Bytes(q[i]))
    BY <1>1 DEF Ordered, Before
  <2>3. QED BY <2>1, <2>2 DEF AllBytes, Before
<1>5. QED BY <1>2, <1>3, <1>4 DEF gone, left

\* Whatever waits or is handed over was produced, and later than the latest byte
\* written.
Within ==
    /\ last <= produced
    /\ \A x \in Waiting \union Bytes(handing) : last < x /\ x <= produced

StreamInv == TypeOK /\ RestLeft /\ InOrder /\ Within

\* One step of the client as a step of the stream: what it does to the bytes that
\* wait, and that the order is kept.
StreamStep == InOrder' /\ Within' /\ [Stream!Next]_<<Waiting, last>>

\* Nothing but time passes for the stream.
LEMMA StreamIdle ==
    StreamInv /\ UNCHANGED <<buffer, queue, handing, produced, last>> => StreamStep
BY DEF StreamInv, InOrder, Within, Waiting, StreamStep

\* Taking a frame off the queue into the buffer loses and reorders nothing.
LEMMA DrainStep == StreamInv /\ Drain => StreamStep
<1> SUFFICES ASSUME StreamInv, Drain PROVE StreamStep
    OBVIOUS
<1>1. /\ buffer \in Seq(Nat) /\ queue \in Seq(Seq(Nat)) /\ handing \in Seq(Nat)
      /\ queue # <<>> /\ buffer' = buffer \o Head(queue) /\ queue' = Tail(queue)
      /\ handing' = handing /\ produced' = produced /\ last' = last
  BY DEF StreamInv, TypeOK, BytesOK, QueueOK, Drain, Get, reader
<1>2. Ordered(buffer, queue, handing)
  BY DEF StreamInv, InOrder
<1>3. /\ AllBytes(buffer \o Head(queue), Tail(queue)) = AllBytes(buffer, queue)
      /\ Ordered(buffer \o Head(queue), Tail(queue), handing)
  BY <1>1, <1>2, Taking
<1>4. Waiting' = Waiting /\ InOrder'
  BY <1>1, <1>3 DEF Waiting, InOrder
<1>5. QED BY <1>1, <1>4 DEF StreamInv, Within, StreamStep

\* A frame the reader queues comes after every byte queued before.
LEMMA PutStep == StreamInv /\ PutRtcm => StreamStep
<1> SUFFICES ASSUME StreamInv, PutRtcm PROVE StreamStep
    OBVIOUS
<1>1. /\ buffer \in Seq(Nat) /\ queue \in Seq(Seq(Nat)) /\ handing \in Seq(Nat)
      /\ queue' = Append(queue, handing) \/ queue' = queue
      /\ handing' = <<>> /\ buffer' = buffer /\ produced' = produced /\ last' = last
  BY DEF StreamInv, TypeOK, BytesOK, QueueOK, PutRtcm
<1>2. Ordered(buffer, queue, handing)
  BY DEF StreamInv, InOrder
<1>3. Bytes(handing') = {}
  BY <1>1, EmptySeq DEF Bytes
<1>4. CASE queue' = queue
  <2>1. InOrder'
    BY <1>1, <1>2, <1>4, NothingComing DEF InOrder
  <2>2. Waiting' = Waiting
    BY <1>1, <1>4 DEF Waiting
  <2>3. QED BY <1>1, <1>3, <2>1, <2>2 DEF StreamInv, Within, StreamStep
<1>5. CASE queue' = Append(queue, handing)
  <2>1. /\ AllBytes(buffer, Append(queue, handing)) = AllBytes(buffer, queue) \union Bytes(handing)
        /\ \A new \in Bytes(handing), old \in AllBytes(buffer, queue) : old < new
        /\ Ordered(buffer, Append(queue, handing), <<>>)
    BY <1>1, <1>2, Queuing
  <2>2. InOrder'
    BY <1>1, <1>5, <2>1 DEF InOrder
  <2>3. /\ Waiting' = Waiting \union Bytes(handing)
        /\ \A new \in Bytes(handing), old \in Waiting : old < new
    BY <1>1, <1>5, <2>1 DEF Waiting
  <2>4. Within'
    BY <1>1, <1>3, <2>3 DEF StreamInv, Within
  <2>5. Stream!Accept
    BY <1>1, <2>3 DEF Stream!Accept, StreamInv, Within
  <2>6. QED BY <2>2, <2>4, <2>5 DEF StreamStep, Stream!Next
<1>6. QED BY <1>1, <1>4, <1>5

\* A new frame is later than all there is.
LEMMA ReadStep == StreamInv /\ ReadFrame => StreamStep
<1> SUFFICES ASSUME StreamInv, ReadFrame PROVE StreamStep
    OBVIOUS
<1>1. PICK size \in FrameSizes :
          produced' = produced + size /\ handing' = [i \in 1 .. size |-> produced + i]
  BY DEF ReadFrame
<1>2. size \in Nat /\ produced \in Nat /\ last \in Nat
  BY FrameSizesAssumption DEF StreamInv, TypeOK, FieldsOK, BytesOK
<1>3. /\ buffer' = buffer /\ queue' = queue /\ last' = last /\ handing = <<>>
      /\ Len(handing') = size /\ \A i \in 1 .. size : handing'[i] = produced + i
  BY <1>1, <1>2 DEF ReadFrame
<1>4. Waiting' = Waiting
  BY <1>3 DEF Waiting
<1>5. \A x \in Bytes(handing') : x \in Nat /\ produced < x /\ x <= produced + size
  BY <1>2, <1>3 DEF Bytes
<1>6. Waiting \subseteq Nat
  <2>1. Bytes(buffer) \subseteq Nat
    BY BytesIn DEF StreamInv, TypeOK, BytesOK
  <2>2. \A i \in 1 .. Len(queue) : Bytes(queue[i]) \subseteq Nat
    BY BytesIn, Frames DEF StreamInv, TypeOK, QueueOK
  <2>3. QED BY <2>1, <2>2 DEF Waiting, AllBytes
<1>7. Within'
  <2>1. last <= produced /\ \A x \in Waiting : last < x /\ x <= produced
    BY DEF StreamInv, Within
  <2>2. last <= produced + size
    BY <1>2, <2>1
  <2>3. \A x \in Waiting : last < x /\ x <= produced + size
    BY <1>2, <1>6, <2>1
  <2>4. \A x \in Bytes(handing') : last < x /\ x <= produced + size
    BY <1>2, <1>5, <2>1
  <2>5. QED BY <1>1, <1>3, <1>4, <2>2, <2>3, <2>4 DEF Within
<1>8. InOrder'
  <2>1. Increasing(handing')
    BY <1>2, <1>3 DEF Increasing
  <2>2. Before(Waiting, Bytes(handing'))
    <3>1. ASSUME NEW a \in Waiting, NEW b \in Bytes(handing') PROVE a < b
      <4>1. a \in Nat /\ a <= produced
        BY <1>6, <3>1 DEF StreamInv, Within
      <4>2. QED BY <1>2, <1>5, <3>1, <4>1
    <3>2. QED BY <3>1 DEF Before
  <2>3. /\ Bytes(buffer) \subseteq Waiting
        /\ \A i \in 1 .. Len(queue) : Bytes(queue[i]) \subseteq Waiting
    BY DEF Waiting, AllBytes
  <2>4. /\ Before(Bytes(buffer), Bytes(handing'))
        /\ \A i \in 1 .. Len(queue) : Before(Bytes(queue[i]), Bytes(handing'))
    BY <2>2, <2>3 DEF Before
  <2>5. Ordered(buffer, queue, handing')
    BY <2>1, <2>4 DEF StreamInv, InOrder, Ordered
  <2>6. QED BY <1>3, <2>5 DEF InOrder
<1>9. QED BY <1>3, <1>4, <1>7, <1>8 DEF StreamStep

\* A write takes the oldest bytes, and the latest byte it sends is one of them.
LEMMA WriteStep ==
    ASSUME StreamInv, NEW n \in 0 .. Len(buffer),
           SubSeq(buffer, 1, n) # <<>>, WritePacket(SubSeq(buffer, 1, n)),
           buffer' = SubSeq(buffer, n + 1, Len(buffer))
    PROVE  StreamStep
<1> DEFINE gone == SubSeq(buffer, 1, n)
           left == SubSeq(buffer, n + 1, Len(buffer))
<1>1. /\ buffer \in Seq(Nat) /\ queue \in Seq(Seq(Nat)) /\ handing \in Seq(Nat)
      /\ last \in Nat /\ produced \in Nat
      /\ Ordered(buffer, queue, handing)
  BY DEF StreamInv, TypeOK, FieldsOK, BytesOK, QueueOK, InOrder
<1>2. /\ Ordered(left, queue, handing)
      /\ AllBytes(buffer, queue) = Bytes(gone) \union AllBytes(left, queue)
      /\ Before(Bytes(gone), AllBytes(left, queue))
  BY <1>1, Sending
<1>3. queue' = queue /\ handing' = handing /\ produced' = produced
  BY DEF WritePacket, reader
<1>4. Waiting' = AllBytes(left, queue) /\ Waiting = Bytes(gone) \union Waiting'
  BY <1>2, <1>3 DEF Waiting
<1>5. gone \in Seq(Nat) /\ Bytes(gone) \subseteq Nat
  BY <1>1, Cut, BytesIn
<1>6. last' \in {last} \union Bytes(gone)
  <2>1. Len(gone) \in 1 .. Len(gone)
    BY <1>5, EmptySeq
  <2>2. gone[Len(gone)] \in Bytes(gone)
    BY <2>1 DEF Bytes
  <2>3. QED BY <2>2 DEF WritePacket, Bytes
<1> HIDE DEF gone, left
<1>7. Waiting \ Waiting' = Bytes(gone)
  <2>1. \A x \in Bytes(gone) : x \notin Waiting'
    <3>1. ASSUME NEW x \in Bytes(gone), x \in Waiting' PROVE FALSE
      <4>1. x \in Nat /\ x < x
        BY <1>2, <1>4, <1>5, <3>1 DEF Before
      <4>2. QED BY <4>1
    <3>2. QED BY <3>1
  <2>2. QED BY <1>4, <2>1
<1>8. Stream!Forward
  BY <1>2, <1>4, <1>6, <1>7 DEF Stream!Forward, Before
<1>9. InOrder'
  BY <1>2, <1>3 DEF InOrder, left
<1>10. Within'
  <2>1. last' \in Nat /\ last' <= produced
    BY <1>1, <1>4, <1>5, <1>6 DEF StreamInv, Within
  <2>2. \A x \in Waiting' : last' < x /\ x <= produced
    BY <1>2, <1>4, <1>6 DEF StreamInv, Within, Before
  <2>3. Before(Bytes(gone), Bytes(handing))
    BY <1>1, Cut DEF gone, Ordered, Before
  <2>4. \A x \in Bytes(handing) : last' < x /\ x <= produced
    BY <1>6, <2>3 DEF StreamInv, Within, Before
  <2>5. QED BY <1>3, <2>1, <2>2, <2>4 DEF Within
<1>11. QED BY <1>8, <1>9, <1>10 DEF StreamStep, Stream!Next

\* A packet written, in part or whole or not at all, takes the oldest bytes
\* and leaves later ones.
LEMMA WritesStep == StreamInv /\ (WriteChunk \/ WriteRest) => StreamStep
<1> SUFFICES ASSUME StreamInv, WriteChunk \/ WriteRest PROVE StreamStep
    OBVIOUS
<1>1. buffer \in Seq(Nat) /\ Len(buffer) \in Nat
  BY LenProperties DEF StreamInv, TypeOK, BytesOK
<1>2. CASE WriteChunk
  <2>1. PacketSize \in 0 .. Len(buffer)
    BY <1>1, <1>2, PacketSizeAssumption DEF WriteChunk
  <2>2. SubSeq(buffer, 1, PacketSize) # <<>>
    BY <1>1, <1>2, PacketSizeAssumption, FirstPart DEF WriteChunk
  <2>3. QED BY <1>2, <2>1, <2>2, WriteStep DEF WriteChunk
<1>3. CASE WriteRest
  <2>1. SubSeq(buffer, 1, Len(buffer)) = buffer /\ buffer # <<>>
    BY <1>1, <1>3, SubSeqFull DEF WriteRest, StreamInv, RestLeft
  <2>2. SubSeq(buffer, Len(buffer) + 1, Len(buffer)) = <<>>
    BY <1>1, SubSeqEmpty
  <2>3. Len(buffer) \in 0 .. Len(buffer)
    BY <1>1
  <2>4. WritePacket(SubSeq(buffer, 1, Len(buffer)))
        /\ buffer' = SubSeq(buffer, Len(buffer) + 1, Len(buffer))
    BY <1>3, <2>1, <2>2 DEF WriteRest
  <2>5. QED BY <2>1, <2>3, <2>4, WriteStep
<1>4. QED BY <1>2, <1>3

\* Every step of the client is a step of the stream or none, and keeps the
\* bytes in order.
LEMMA NextStreamStep == StreamInv /\ [Next]_vars => StreamStep
<1> SUFFICES ASSUME StreamInv, [Next]_vars PROVE StreamStep
    OBVIOUS
<1>1. \/ UNCHANGED <<buffer, queue, handing, produced, last>>
      \/ Drain \/ WriteChunk \/ WriteRest \/ ReadFrame \/ PutRtcm
  BY DEF Next, PushThread, Top, ConnectSerial, Pause, Drained, ChunksDone,
     Linger, Idle, Exit, Goto, OwnerContinues, Register, Start, StopSet,
     StopJoin, StopClose, Unregister, ownerFrame, reader, vars
<1>2. QED BY <1>1, StreamIdle, DrainStep, WritesStep, ReadStep, PutStep

\* The client begins as a stream of which nothing is pending.
LEMMA StreamInit == Init => InOrder /\ Within /\ Stream!Init
<1> SUFFICES ASSUME Init PROVE InOrder /\ Within /\ Stream!Init
    OBVIOUS
<1>1. /\ buffer = <<>> /\ queue = <<>> /\ handing = <<>> /\ last = 0 /\ produced = 0
  BY DEF Init
<1>2. Len(<<>>) = 0 /\ Bytes(<<>>) = {} /\ Increasing(<<>>)
  BY EmptySeq DEF Bytes, Increasing
<1>3. Waiting = {}
  BY <1>1, <1>2 DEF Waiting, AllBytes
<1>4. InOrder
  BY <1>1, <1>2 DEF InOrder, Ordered, Before
<1>5. QED BY <1>1, <1>2, <1>3, <1>4 DEF Within, Stream!Init

\* In every state the bytes are in order, buffer before queue before the
\* frame the reader holds.
LEMMA StreamInvAlways == Spec => []StreamInv
<1>1. Init => StreamInv
  BY TypeInit, StreamInit DEF StreamInv
<1>2. StreamInv /\ [Next]_vars => StreamInv'
  <2>1. StreamInv /\ [Next]_vars => InOrder' /\ Within'
    BY NextStreamStep DEF StreamStep
  <2>2. StreamInv /\ [Next]_vars => FieldsOK' /\ QueueOK' /\ BytesOK' /\ RestLeft'
    BY FieldsCorrect, QueueStep, BytesStep, RestLeftStep DEF StreamInv, TypeOK, BytesOK
  <2>3. QED BY <2>1, <2>2 DEF StreamInv, TypeOK
<1>3. QED BY <1>1, <1>2, PTL DEF Spec

\* The bytes keep the order in which the receiver produced them from put_rtcm to
\* the packets (lora_push.py _run_loop), whatever is queued between two reads.
THEOREM InOrderAlways == Spec => []InOrder
<1>1. StreamInv => InOrder
  BY DEF StreamInv
<1>2. QED BY <1>1, StreamInvAlways, PTL

\* The client implements the stream: what is written are the oldest bytes that
\* wait, in order and once (lora_push.py _run_loop and _write_packet), through
\* partial writes, lost packets and reconnects.
THEOREM ImplementsStreamAlways == Spec => ImplementsStream
<1>1. Init => Stream!Init
  BY StreamInit
<1>2. StreamInv /\ [Next]_vars => [Stream!Next]_<<Waiting, last>>
  BY NextStreamStep DEF StreamStep
<1>3. QED BY <1>1, <1>2, StreamInvAlways, PTL DEF Spec, ImplementsStream, Stream!Spec

=============================================================================
