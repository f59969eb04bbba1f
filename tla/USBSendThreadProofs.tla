------------------------ MODULE USBSendThreadProofs ------------------------
(***************************************************************************)
(* Theorems about USBSendThread, for every packet size, queue size and set *)
(* of frame lengths.                                                       *)
(*                                                                         *)
(* The inductive invariant relates the three places a frame passes: the    *)
(* identities grow from the outgoing queue over the frame being cut up to  *)
(* the queue of whole frames (InOrder), the last packet pushed since the   *)
(* queues were emptied is exactly the one in front of lPacketIndex         *)
(* (TailFits), and while there is none the frame being cut up is either at *)
(* its beginning or where it was when they were (HeadFits).                *)
(***************************************************************************)
EXTENDS USBSendThread, UsbFramingProofs

\* The identities in front of the outgoing queue's end never exceed those
\* behind it.
InOrder ==
    /\ lFrontOfQueue.id <= kaiOffered
    /\ \A i \in 1..Len(mQueue) :
          /\ lFrontOfQueue.id < mQueue[i].id
          /\ mQueue[i].id <= kaiOffered
    /\ \A i, j \in 1..Len(mQueue) : i < j => mQueue[i].id < mQueue[j].id

\* The packet to be pushed next may follow the last one pushed.
TailFits ==
    Stream # <<>> =>
        LET last == Stream[Len(Stream)]
        IN  IF Fragmenting /\ lPacketIndex > 0
            THEN /\ last.stitch
                 /\ last.msg = lFrontOfQueue
                 /\ EndOf(last) = lPacketIndex
            ELSE /\ ~last.stitch
                 /\ last.msg.id <= lFrontOfQueue.id
                 /\ Fragmenting => last.msg.id < lFrontOfQueue.id

\* The packet to be pushed next may be the first one.
HeadFits ==
    Stream = <<>> /\ Fragmenting /\ lPacketIndex > 0 =>
        emptiedAt = [msg |-> lFrontOfQueue, from |-> lPacketIndex]

Inv == TypeOK /\ InOrder /\ TailFits /\ HeadFits /\ OutgoingFramed
-----------------------------------------------------------------------------

\* What the type of the queue says of its elements.
LEMMA QueueTypes ==
    ASSUME TypeOK
    PROVE  /\ Len(mQueue) \in Nat
           /\ lFrontOfQueue.id \in Nat
           /\ \A i \in 1..Len(mQueue) : mQueue[i].id \in Nat
<1>1. /\ mQueue \in Seq(Message)
      /\ lFrontOfQueue \in Message
  BY DEF TypeOK
<1>2. \A i \in 1..Len(mQueue) : mQueue[i] \in Message
  BY <1>1
<1> QED
  BY <1>1, <1>2 DEF Message

\* What has been taken and what is still queued are one run of packets.
LEMMA StreamType ==
    ASSUME TypeOK
    PROVE  /\ Stream \in Seq(Fragments)
           /\ Len(Stream) \in Nat
           /\ Stream # <<>> => Stream[Len(Stream)] \in Fragments
<1>1. Stream \in Seq(Fragments)
  BY DEF TypeOK, Stream
<1> HIDE DEF Stream
<1> QED
  BY <1>1

\* A packet pushed comes at the end of it, a packet taken stays where it is.
LEMMA StreamSteps ==
    ASSUME NEW before \in Seq(Fragments), NEW queue \in Seq(Fragments)
    PROVE  /\ \A packet \in Fragments :
                  before \o Append(queue, packet) = Append(before \o queue, packet)
           /\ queue # <<>> =>
                  Append(before, Head(queue)) \o Tail(queue) = before \o queue
<1>1. ASSUME NEW packet \in Fragments
      PROVE  before \o Append(queue, packet) = Append(before \o queue, packet)
  OBVIOUS
<1>2. ASSUME queue # <<>>
      PROVE  Append(before, Head(queue)) \o Tail(queue) = before \o queue
  <2> DEFINE left  == Append(before, Head(queue)) \o Tail(queue)
             right == before \o queue
  <2>1. /\ left \in Seq(Fragments) /\ right \in Seq(Fragments)
        /\ Len(left) = Len(right)
    BY <1>2
  <2>2. ASSUME NEW i \in 1..Len(left)
        PROVE  left[i] = right[i]
    BY <1>2
  <2> HIDE DEF left, right
  <2> QED
    BY <2>1, <2>2 DEF left, right
<1> QED
  BY <1>1, <1>2

\* The initial state satisfies the inductive invariant.
LEMMA InitInv == Init => Inv
<1> SUFFICES ASSUME Init PROVE Inv
  OBVIOUS
<1>1. NoMessage \in Message /\ NoMessage.length = 0
  BY DEF NoMessage, Message
<1>2. TypeOK
  <2>1. mQueue \in Seq(Message) /\ Len(mQueue) <= mMaxBufferSize
    BY SendAssumption DEF Init
  <2>2. mOutgoingQueue \in Seq(Fragments)
    BY DEF Init
  <2>3. lFrontOfQueue \in Message /\ lPacketIndex \in 0..lFrontOfQueue.length
    BY <1>1 DEF Init
  <2> QED
    BY <1>1, <2>1, <2>2, <2>3 DEF Init, TypeOK
<1>3. Stream = <<>>
  BY DEF Init, Stream
<1> QED
  BY <1>2, <1>3 DEF Init, Inv, InOrder, TailFits, HeadFits, OutgoingFramed,
                    WellFramed, NoMessage, Fragmenting

\* The thread takes the next frame from its queue.
LEMMA PopFrontInv == Inv /\ PopFront => Inv'
<1> SUFFICES ASSUME Inv, PopFront PROVE Inv'
  OBVIOUS
<1> USE DEF PopFront
<1>1. /\ mQueue \in Seq(Message) /\ mQueue # <<>>
      /\ Len(mQueue) \in Nat /\ Len(mQueue) > 0
      /\ lFrontOfQueue' = mQueue[1]
      /\ lFrontOfQueue' \in Message
      /\ Len(mQueue') = Len(mQueue) - 1
      /\ mQueue' \in Seq(Message)
      /\ \A i \in 1..Len(mQueue') : mQueue'[i] = mQueue[i + 1]
  BY DEF Inv, TypeOK
<1>2. TypeOK'
  BY <1>1, SendAssumption DEF Inv, TypeOK, Message, historyVars
<1>3. InOrder'
  <2>1. /\ \A i \in 1..Len(mQueue) :
              mQueue[i].id \in Nat /\ mQueue[i].id <= kaiOffered
        /\ \A i, j \in 1..Len(mQueue) : i < j => mQueue[i].id < mQueue[j].id
    BY QueueTypes DEF Inv, InOrder
  <2>2. ASSUME NEW i \in 1..Len(mQueue')
        PROVE  i + 1 \in 1..Len(mQueue) /\ 1 \in 1..Len(mQueue) /\ 1 < i + 1
    BY <1>1
  <2>3. lFrontOfQueue'.id <= kaiOffered'
    BY <1>1, <2>1
  <2>4. ASSUME NEW i \in 1..Len(mQueue')
        PROVE  lFrontOfQueue'.id < mQueue'[i].id /\ mQueue'[i].id <= kaiOffered'
    BY <1>1, <2>1, <2>2
  <2>5. ASSUME NEW i \in 1..Len(mQueue'), NEW j \in 1..Len(mQueue'), i < j
        PROVE  mQueue'[i].id < mQueue'[j].id
    BY <1>1, <2>1, <2>2, <2>5
  <2> QED
    BY <2>3, <2>4, <2>5 DEF InOrder
<1>4. TailFits'
  <2> SUFFICES ASSUME Stream # <<>>
               PROVE  TailFits'
    BY DEF TailFits, Stream, historyVars
  <2> DEFINE last == Stream[Len(Stream)]
  <2>1. last \in Fragments
    BY StreamType DEF Inv
  <2>2. ~last.stitch /\ last.msg.id <= lFrontOfQueue.id
    BY DEF Inv, TailFits
  <2>3. lFrontOfQueue.id < lFrontOfQueue'.id
    BY <1>1 DEF Inv, InOrder
  <2>4. /\ last.msg.id \in Nat
        /\ lFrontOfQueue.id \in Nat
        /\ lFrontOfQueue'.id \in Nat
    <3>1. lFrontOfQueue \in Message
      BY DEF Inv, TypeOK
    <3> QED
      BY <1>1, <2>1, <3>1 DEF Message, Fragments
  <2>5. last.msg.id < lFrontOfQueue'.id
    BY <2>2, <2>3, <2>4
  <2>6. Stream' = Stream /\ lPacketIndex' = 0
    BY DEF Stream, historyVars
  <2> QED
    BY <1>1, <2>1, <2>2, <2>4, <2>5, <2>6 DEF TailFits
<1>5. HeadFits' /\ OutgoingFramed'
  BY DEF Inv, HeadFits, OutgoingFramed, Stream, historyVars
<1> QED
  BY <1>2, <1>3, <1>4, <1>5 DEF Inv

\* The thread pushes the next packet of its frame.
LEMMA PushFragmentInv == Inv /\ PushFragment => Inv'
<1> SUFFICES ASSUME Inv, PushFragment PROVE Inv'
  OBVIOUS
<1> DEFINE lPacket == Fragment(lFrontOfQueue, lPacketIndex)
<1>1. /\ lFrontOfQueue \in Message /\ lFrontOfQueue.length \in Nat
      /\ lPacketIndex \in Nat /\ lPacketIndex < lFrontOfQueue.length
      /\ mOutgoingQueue \in Seq(Fragments)
  BY DEF Inv, TypeOK, Message, PushFragment, Fragmenting
<1>2. /\ lPacket \in Fragments
      /\ lPacket.msg = lFrontOfQueue
      /\ lPacket.from = lPacketIndex
      /\ lPacket.payload \in Nat
      /\ lPacket.payload > 0
      /\ lPacketIndex + lPacket.payload <= lFrontOfQueue.length
      /\ lPacket.stitch <=> lPacketIndex + lPacket.payload < lFrontOfQueue.length
  BY <1>1, FragmentProgress
<1> HIDE DEF lPacket
<1>3. /\ mOutgoingQueue' = Append(mOutgoingQueue, lPacket)
      /\ lPacketIndex' = lPacketIndex + lPacket.payload
      /\ UNCHANGED <<mQueue, mStopRequest, thread, lFrontOfQueue, kaiOffered,
                     popped, emptiedAt>>
  BY DEF PushFragment, lPacket, historyVars
<1>4. TypeOK'
  BY <1>1, <1>2, <1>3 DEF Inv, TypeOK
<1>5. InOrder'
  BY <1>3 DEF Inv, InOrder
<1>6. Stream \in Seq(Fragments) /\ Stream' = Append(Stream, lPacket)
  BY <1>1, <1>2, <1>3, StreamType, StreamSteps DEF Inv, TypeOK, Stream
<1>7. /\ Stream' # <<>>
      /\ Stream'[Len(Stream')] = lPacket
      /\ Stream'[1] = IF Stream = <<>> THEN lPacket ELSE Stream[1]
  BY <1>2, <1>6
<1>8. TailFits'
  <2>1. CASE lPacket.stitch
    BY <1>1, <1>2, <1>3, <1>7, <2>1 DEF TailFits, Fragmenting, EndOf
  <2>2. CASE ~lPacket.stitch
    BY <1>1, <1>2, <1>3, <1>7, <2>2 DEF TailFits, Fragmenting, EndOf, Message
  <2> QED
    BY <2>1, <2>2
<1>9. Stream # <<>> => Follows(Stream[Len(Stream)], lPacket)
  BY <1>1, <1>2 DEF Inv, TailFits, Fragmenting, Follows, EndOf
<1>10. OutgoingFramed'
  <2>1. WellFramed(Stream')
    BY <1>2, <1>6, <1>9, AppendFramed DEF Inv, OutgoingFramed
  <2>2. \/ Stream'[1].from = 0
        \/ Stream'[1].msg = emptiedAt.msg /\ Stream'[1].from = emptiedAt.from
    BY <1>1, <1>2, <1>7 DEF Inv, OutgoingFramed, HeadFits, Fragmenting
  <2> QED
    BY <1>3, <2>1, <2>2 DEF OutgoingFramed
<1>11. HeadFits'
  BY <1>7 DEF HeadFits
<1> QED
  BY <1>4, <1>5, <1>8, <1>10, <1>11 DEF Inv

\* XLink Kai's receiver hands over a frame.
LEMMA OfferInv == Inv /\ Offer => Inv'
<1> SUFFICES ASSUME Inv, Offer PROVE Inv'
  OBVIOUS
<1>1. PICK length \in KaiLengths :
          AddToQueue([id |-> kaiOffered + 1, length |-> length])
  BY DEF Offer
<1> DEFINE m == [id |-> kaiOffered + 1, length |-> length]
<1>2. m \in Message /\ m.id = kaiOffered + 1 /\ kaiOffered \in Nat
  BY SendAssumption, FramingAssumption DEF Message, Inv, TypeOK
<1>3. kaiOffered' = m.id
  BY <1>1 DEF AddToQueue
<1>4. UNCHANGED <<mOutgoingQueue, mStopRequest, thread, lFrontOfQueue,
                 lPacketIndex, popped, emptiedAt>>
  BY <1>1 DEF AddToQueue, threadVars, historyVars
<1>5. \/ mQueue' = mQueue
      \/ mQueue' = Append(mQueue, m) /\ Len(mQueue) < mMaxBufferSize
  BY <1>1 DEF AddToQueue
<1> HIDE DEF m
<1>6. TypeOK'
  <2>1. mQueue' \in Seq(Message) /\ Len(mQueue') <= mMaxBufferSize
    <3>1. mQueue \in Seq(Message) /\ Len(mQueue) <= mMaxBufferSize
      BY DEF Inv, TypeOK
    <3>2. CASE mQueue' = mQueue
      BY <3>1, <3>2
    <3>3. CASE mQueue' = Append(mQueue, m) /\ Len(mQueue) < mMaxBufferSize
      BY <1>2, <3>1, <3>3, SendAssumption
    <3> QED
      BY <1>5, <3>2, <3>3
  <2>2. kaiOffered' \in Nat
    BY <1>2, <1>3
  <2> QED
    BY <1>4, <2>1, <2>2 DEF Inv, TypeOK
<1>7. InOrder'
  <2>1. /\ Len(mQueue) \in Nat /\ lFrontOfQueue.id \in Nat
        /\ \A i \in 1..Len(mQueue) : mQueue[i].id \in Nat
    BY QueueTypes DEF Inv
  <2>2. /\ lFrontOfQueue.id <= kaiOffered
        /\ \A i \in 1..Len(mQueue) :
              lFrontOfQueue.id < mQueue[i].id /\ mQueue[i].id <= kaiOffered
        /\ \A i, j \in 1..Len(mQueue) : i < j => mQueue[i].id < mQueue[j].id
    BY DEF Inv, InOrder
  <2>3. CASE mQueue' = mQueue
    <3>1. \A i \in 1..Len(mQueue) :
              lFrontOfQueue.id < mQueue[i].id /\ mQueue[i].id <= kaiOffered + 1
      BY <1>2, <2>1, <2>2
    <3> QED
      BY <1>2, <1>3, <1>4, <2>1, <2>2, <2>3, <3>1 DEF InOrder
  <2>4. CASE mQueue' = Append(mQueue, m)
    <3>1. /\ Len(mQueue') = Len(mQueue) + 1
          /\ \A i \in 1..Len(mQueue) : mQueue'[i] = mQueue[i]
          /\ mQueue'[Len(mQueue) + 1] = m
      BY <1>2, <2>4 DEF Inv, TypeOK
    <3>2. ASSUME NEW i \in 1..Len(mQueue')
          PROVE  lFrontOfQueue.id < mQueue'[i].id /\ mQueue'[i].id <= kaiOffered + 1
      BY <1>2, <2>1, <2>2, <3>1
    <3>3. ASSUME NEW i \in 1..Len(mQueue'), NEW j \in 1..Len(mQueue'), i < j
          PROVE  mQueue'[i].id < mQueue'[j].id
      <4>1. i \in 1..Len(mQueue)
        BY <2>1, <3>1, <3>3
      <4>2. CASE j \in 1..Len(mQueue)
        BY <2>2, <3>1, <3>3, <4>1, <4>2
      <4>3. CASE j = Len(mQueue) + 1
        BY <1>2, <2>1, <2>2, <3>1, <4>1, <4>3
      <4> QED
        BY <2>1, <3>1, <4>2, <4>3
    <3> QED
      BY <1>2, <1>3, <1>4, <2>1, <2>2, <3>2, <3>3 DEF InOrder
  <2> QED
    BY <1>5, <2>3, <2>4
<1>8. TailFits' /\ HeadFits' /\ OutgoingFramed'
  BY <1>4 DEF Inv, TailFits, HeadFits, OutgoingFramed, Fragmenting, Stream
<1> QED
  BY <1>6, <1>7, <1>8 DEF Inv

\* The USB thread takes a packet.
LEMMA PopFromOutgoingQueueInv == Inv /\ PopFromOutgoingQueue => Inv'
<1> SUFFICES ASSUME Inv, PopFromOutgoingQueue PROVE Inv'
  OBVIOUS
<1> USE DEF PopFromOutgoingQueue, threadVars
<1>1. mOutgoingQueue \in Seq(Fragments) /\ mOutgoingQueue # <<>>
  BY DEF Inv, TypeOK
<1>2. /\ mOutgoingQueue' = Tail(mOutgoingQueue)
      /\ popped' = Append(popped, Head(mOutgoingQueue))
      /\ UNCHANGED <<mQueue, mStopRequest, thread, lFrontOfQueue, lPacketIndex,
                     kaiOffered, emptiedAt>>
  OBVIOUS
<1>3. TypeOK'
  BY <1>1, <1>2 DEF Inv, TypeOK
<1>4. InOrder'
  BY <1>2 DEF Inv, InOrder
<1>5. Stream' = Stream
  BY <1>1, <1>2, StreamSteps DEF Inv, TypeOK, Stream
<1>6. TailFits' /\ HeadFits' /\ OutgoingFramed'
  BY <1>2, <1>5 DEF Inv, TailFits, HeadFits, OutgoingFramed, Fragmenting
<1> QED
  BY <1>3, <1>4, <1>6 DEF Inv

\* The queues are emptied, by the USB thread or by StopThread.
LEMMA ClearInv == Inv /\ (ClearQueues \/ RequestStop) => Inv'
<1> SUFFICES ASSUME Inv, ClearQueues \/ RequestStop PROVE Inv'
  OBVIOUS
<1>1. /\ mQueue' = <<>> /\ mOutgoingQueue' = <<>> /\ popped' = <<>>
      /\ emptiedAt' = IF Fragmenting /\ lPacketIndex > 0
                      THEN [msg |-> lFrontOfQueue, from |-> lPacketIndex]
                      ELSE [msg |-> NoMessage, from |-> 0]
      /\ UNCHANGED <<thread, lFrontOfQueue, lPacketIndex, kaiOffered>>
      /\ mStopRequest' \in BOOLEAN
  BY DEF Inv, TypeOK, ClearQueues, RequestStop, EmptyQueues, threadVars
<1>2. TypeOK'
  <2>1. emptiedAt' \in [msg : Message, from : Nat]
    BY <1>1 DEF Inv, TypeOK, Message, NoMessage
  <2> QED
    BY <1>1, <2>1, SendAssumption DEF Inv, TypeOK
<1>3. Stream' = <<>>
  BY <1>1 DEF Stream
<1>4. HeadFits'
  BY <1>1 DEF HeadFits, Fragmenting
<1> QED
  BY <1>1, <1>2, <1>3, <1>4 DEF Inv, InOrder, TailFits, OutgoingFramed, WellFramed

\* The thread begins, ends, or is joined.
LEMMA ThreadLifeInv == Inv /\ (StartThread \/ Exit \/ Join) => Inv'
<1> SUFFICES ASSUME Inv, StartThread \/ Exit \/ Join PROVE Inv'
  OBVIOUS
<1>1. /\ UNCHANGED <<mQueue, mOutgoingQueue, mStopRequest, lFrontOfQueue,
                     lPacketIndex, kaiOffered, popped, emptiedAt>>
      /\ thread' \in {"none", "running", "exited"}
  BY DEF StartThread, Exit, Join, historyVars
<1> QED
  BY <1>1 DEF Inv, TypeOK, InOrder, TailFits, HeadFits, OutgoingFramed,
              Fragmenting, Stream

\* Every reachable state of the send thread satisfies the inductive invariant.
THEOREM Invariance == SafetySpec => []Inv
<1>1. Inv /\ [Next]_vars => Inv'
  <2> SUFFICES ASSUME Inv, [Next]_vars PROVE Inv'
    OBVIOUS
  <2>1. CASE StartThread \/ Exit \/ Join
    BY <2>1, ThreadLifeInv
  <2>2. CASE PopFront
    BY <2>2, PopFrontInv
  <2>3. CASE PushFragment
    BY <2>3, PushFragmentInv
  <2>4. CASE Offer
    BY <2>4, OfferInv
  <2>5. CASE PopFromOutgoingQueue
    BY <2>5, PopFromOutgoingQueueInv
  <2>6. CASE ClearQueues \/ RequestStop
    BY <2>6, ClearInv
  <2>7. CASE UNCHANGED vars
    BY <2>7 DEF vars, threadVars, historyVars, Inv, TypeOK, InOrder, TailFits,
                HeadFits, OutgoingFramed, Fragmenting, Stream
  <2> QED
    BY <2>1, <2>2, <2>3, <2>4, <2>5, <2>6, <2>7 DEF Next, ThreadStep
<1> QED
  BY <1>1, InitInv, PTL DEF SafetySpec

\* The queue of whole frames never holds more than mMaxBufferSize, and the
\* thread never runs past the end of its frame.
THEOREM TypeCorrect == SafetySpec => []TypeOK
<1>1. Inv => TypeOK
  BY DEF Inv
<1> QED
  BY <1>1, Invariance, PTL

\* Whatever order AddToQueue, ClearQueues, PopFromOutgoingQueue and the
\* thread's own steps come in: what the USB thread has taken since the queues
\* were last emptied, and what it may still take, are whole frames in order
\* with no packet missing, after at most the rest of the one frame that lost
\* its beginning when they were emptied.
THEOREM OutgoingAlwaysFramed == SafetySpec => []OutgoingFramed
<1>1. Inv => OutgoingFramed
  BY DEF Inv
<1> QED
  BY <1>1, Invariance, PTL

\* When the last packet taken or queued since the queues were emptied announces
\* more of its frame, the thread is still cutting that frame up, and goes on
\* exactly where the packet ends.
THEOREM NothingEverCutOff == SafetySpec => []NothingCutOff
<1>1. Inv => NothingCutOff
  BY DEF Inv, TailFits, NothingCutOff
<1> QED
  BY <1>1, Invariance, PTL
=============================================================================
