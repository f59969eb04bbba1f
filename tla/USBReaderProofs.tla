-------------------------- MODULE USBReaderProofs --------------------------
(***************************************************************************)
(* Theorems about USBReader, with any number of faults, frames and queue   *)
(* places: its types, the packets in order, the lifecycle it implements,   *)
(* and the FrameChannel it is from XLink Kai to the PSP.                   *)
(***************************************************************************)
EXTENDS USBReader, UsbFramingProofs, SequenceTheorems

SenderProofs == INSTANCE USBSendThreadProofs
    WITH mMaxBufferSize <- mMaxBufferedMessages, mQueue <- sendQueue,
         mOutgoingQueue <- outgoingQueue, mStopRequest <- sendStop,
         thread <- sendThread, lFrontOfQueue <- sendFront,
         lPacketIndex <- sendIndex

\* Why StitchExclusive holds: a flag can only be set by a transfer that is
\* left out while the other flag is set.
StitchInv ==
    /\ StitchExclusive
    /\ usbThread = "read" => ~mSendStitching
    /\ usbThread = "write" => ~mReceiveStitching

-----------------------------------------------------------------------------

\* One turn of the loop keeps the two directions apart.
LEMMA StitchStep == StitchInv /\ [Next]_vars => StitchInv'
<1> SUFFICES ASSUME StitchInv, [Next]_vars PROVE StitchInv'
  OBVIOUS
<1> USE DEF StitchInv, StitchExclusive
<1>1. CASE LoopCondition
  BY <1>1 DEF LoopCondition, transferVars
<1>2. CASE StopBranch
  BY <1>2 DEF StopBranch, transferVars
<1>3. CASE CheckDevice
  BY <1>3 DEF CheckDevice, transferVars
<1>4. CASE HandleError
  BY <1>4 DEF HandleError, AfterErrors, AfterRead
<1>5. CASE BailOut
  BY <1>5 DEF BailOut, transferVars, AfterErrors, AfterRead
<1>6. CASE NoError
  BY <1>6 DEF NoError, transferVars, AfterErrors, AfterRead
<1>7. CASE ReadPacket
  BY <1>7 DEF ReadPacket, AfterRead
<1>8. CASE ReadTimeout \/ ReadFault \/ ReadNull
  BY <1>8 DEF ReadTimeout, ReadFault, ReadNull, transferVars, AfterRead
<1>9. CASE WritePacket
  BY <1>9 DEF WritePacket, transferVars
<1>10. CASE WriteDone
  BY <1>10 DEF WriteDone, transferVars
<1>11. CASE StartReceiverThread
  BY <1>11 DEF StartReceiverThread, transferVars
<1>12. CASE JoinUsb
  BY <1>12 DEF JoinUsb, transferVars
<1>13. CASE \/ SenderStep \/ ReceiverStep \/ Send \/ MainOpen \/ MainGivesUp
            \/ Close \/ StopSender \/ JoinSender \/ StopReceiver \/ JoinReceiver
            \/ Finished \/ Unplug \/ Plug \/ UNCHANGED vars
  <2>1. UNCHANGED <<mReceiveStitching, mSendStitching, usbThread>>
    BY <1>13 DEF SenderStep, ReceiverStep, Send, MainOpen, MainGivesUp, Close,
       StopSender, JoinSender, StopReceiver, JoinReceiver, Finished, Unplug, Plug,
       vars, readerVars, transferVars
  <2> QED
    BY <2>1
<1> QED
  BY <1>1, <1>2, <1>3, <1>4, <1>5, <1>6, <1>7, <1>8, <1>9, <1>10, <1>11, <1>12,
     <1>13 DEF Next, UsbStep, Closing

\* With any faults and any interleaving the USB thread is never in the middle
\* of a frame in both directions.
THEOREM NeverBothStitching == Spec => []StitchExclusive
<1>1. Init => StitchInv
  BY DEF Init, StitchInv, StitchExclusive
<1>2. StitchInv => StitchExclusive
  BY DEF StitchInv
<1> QED
  BY <1>1, <1>2, StitchStep, PTL DEF Spec

-----------------------------------------------------------------------------

\* Every step of the program is a step of the send thread's specification, or
\* leaves its queues alone.
LEMMA SenderRefinementStep ==
    [Next]_vars => [SenderProofs!Next]_(SenderProofs!vars)
<1> SUFFICES ASSUME [Next]_vars
             PROVE  SenderProofs!Next \/ UNCHANGED SenderProofs!vars
  OBVIOUS
<1> USE DEF senderVars, SenderProofs!vars, SenderProofs!threadVars,
        Sender!threadVars, SenderProofs!historyVars, Sender!historyVars
<1>0. Sender!EmptyQueues => SenderProofs!EmptyQueues
  BY DEF Sender!EmptyQueues, SenderProofs!EmptyQueues, Sender!Fragmenting,
     SenderProofs!Fragmenting, Sender!NoMessage, SenderProofs!NoMessage
<1>1. CASE \/ LoopCondition \/ StopBranch \/ CheckDevice \/ BailOut \/ NoError
           \/ ReadPacket \/ ReadTimeout \/ ReadFault \/ ReadNull \/ WriteDone
  BY <1>1 DEF LoopCondition, StopBranch, CheckDevice, BailOut, NoError,
     ReadPacket, ReadTimeout, ReadFault, ReadNull, WriteDone
<1>2. CASE HandleError
  BY <1>2, <1>0 DEF HandleError, Sender!ClearQueues, SenderProofs!Next,
     SenderProofs!ClearQueues
<1>3. CASE WritePacket
  BY <1>3 DEF WritePacket, Sender!PopFromOutgoingQueue, SenderProofs!Next,
     SenderProofs!PopFromOutgoingQueue
<1>4. CASE SenderStep
  <2>1. Sender!PopFront => SenderProofs!PopFront
    BY DEF Sender!PopFront, SenderProofs!PopFront, Sender!Fragmenting,
       SenderProofs!Fragmenting
  <2>2. Sender!Exit => SenderProofs!Exit
    BY DEF Sender!Exit, SenderProofs!Exit, Sender!Fragmenting,
       SenderProofs!Fragmenting
  <2>3. \A m, index : Sender!Fragment(m, index) = SenderProofs!Fragment(m, index)
    BY DEF Sender!Fragment, SenderProofs!Fragment, Sender!Payload,
       SenderProofs!Payload, Sender!Stitch, SenderProofs!Stitch, Sender!Room,
       SenderProofs!Room, Sender!HeaderLength, SenderProofs!HeaderLength,
       Sender!cAsyncHeaderAndSubHeaderSize,
       SenderProofs!cAsyncHeaderAndSubHeaderSize
  <2>4. Sender!PushFragment => SenderProofs!PushFragment
    BY <2>3 DEF Sender!PushFragment, SenderProofs!PushFragment,
       Sender!Fragmenting, SenderProofs!Fragmenting
  <2> QED
    BY <1>4, <2>1, <2>2, <2>4 DEF SenderStep, Sender!ThreadStep,
       SenderProofs!Next, SenderProofs!ThreadStep
<1>5. CASE Send
  BY <1>5 DEF Send, Sender!Offer, Sender!AddToQueue, SenderProofs!Next,
     SenderProofs!Offer, SenderProofs!AddToQueue
<1>6. CASE StartReceiverThread
  BY <1>6 DEF StartReceiverThread, Sender!StartThread, SenderProofs!Next,
     SenderProofs!StartThread
<1>7. CASE StopSender
  BY <1>7, <1>0 DEF StopSender, Sender!RequestStop, SenderProofs!Next,
     SenderProofs!RequestStop
<1>8. CASE JoinSender
  BY <1>8 DEF JoinSender, Sender!Join, SenderProofs!Next, SenderProofs!Join
<1>9. CASE \/ ReceiverStep \/ MainOpen \/ MainGivesUp \/ Close \/ JoinUsb
           \/ StopReceiver \/ JoinReceiver \/ Finished \/ Unplug \/ Plug
           \/ UNCHANGED vars
  BY <1>9 DEF ReceiverStep, MainOpen, MainGivesUp, Close, JoinUsb, StopReceiver,
     JoinReceiver, Finished, Unplug, Plug, vars
<1> QED
  BY <1>1, <1>2, <1>3, <1>4, <1>5, <1>6, <1>7, <1>8, <1>9
     DEF Next, UsbStep, Closing

\* Inside the whole program the send thread behaves as it is specified alone.
THEOREM ReaderImplementsSendThread == Spec => SenderProofs!SafetySpec
<1>1. Init => SenderProofs!Init
  BY DEF Init, Sender!Init, Sender!NoMessage, SenderProofs!Init,
     SenderProofs!NoMessage
<1> QED
  BY <1>1, SenderRefinementStep, PTL DEF Spec, SenderProofs!SafetySpec

\* The send thread's inductive invariant holds in the whole program.
LEMMA SenderInvariance == Spec => []SenderProofs!Inv
BY SenderProofs!Invariance, ReaderImplementsSendThread, ReaderAssumption,
   FramingAssumption, PTL
   DEF SenderProofs!Invariance, cAsyncHeaderAndSubHeaderSize,
   SenderProofs!cAsyncHeaderAndSubHeaderSize

\* So in the whole program too, between one reset and the next, the USB thread
\* takes whole frames in order with no packet missing, after at most the rest
\* of the one frame that the reset cut the beginning off.
THEOREM OutgoingAlwaysFramed == Spec => []Sender!OutgoingFramed
<1>1. SenderProofs!SafetySpec => []SenderProofs!OutgoingFramed
  BY SenderProofs!OutgoingAlwaysFramed, ReaderAssumption, FramingAssumption
     DEF SenderProofs!OutgoingAlwaysFramed, cAsyncHeaderAndSubHeaderSize,
     SenderProofs!cAsyncHeaderAndSubHeaderSize
<1>2. SenderProofs!OutgoingFramed => Sender!OutgoingFramed
  BY DEF SenderProofs!OutgoingFramed, Sender!OutgoingFramed,
     SenderProofs!Stream, Sender!Stream, SenderProofs!WellFramed,
     Sender!WellFramed, SenderProofs!Follows, Sender!Follows,
     SenderProofs!EndOf, Sender!EndOf
<1> QED
  BY <1>1, <1>2, ReaderImplementsSendThread, PTL

-----------------------------------------------------------------------------

\* The counter of the restarts is a number, so that it is above zero after one.
RetriesCounted == mRetryCounter \in Nat

\* The counter is only counted up or put back to 0.
LEMMA RetriesStep == RetriesCounted /\ [Next]_vars => RetriesCounted'
<1> SUFFICES ASSUME RetriesCounted, [Next]_vars PROVE RetriesCounted'
  OBVIOUS
<1> USE DEF RetriesCounted
<1>1. CASE HandleError
  BY <1>1 DEF HandleError
<1>2. CASE BailOut \/ ReadPacket
  BY <1>2 DEF BailOut, ReadPacket
<1>3. CASE ~(HandleError \/ BailOut \/ ReadPacket)
  <2>1. UNCHANGED mRetryCounter
    BY <1>3 DEF Next, UsbStep, Closing, LoopCondition, StopBranch, CheckDevice,
       NoError, ReadTimeout, ReadFault, ReadNull, WritePacket, WriteDone,
       SenderStep, ReceiverStep, Send, MainOpen, MainGivesUp,
       StartReceiverThread, Close, JoinUsb, StopSender, JoinSender,
       StopReceiver, JoinReceiver, Finished, Unplug, Plug, vars, readerVars,
       counterVars
  <2> QED
    BY <2>1
<1> QED
  BY <1>1, <1>2, <1>3

\* Every step of the reader is a step of its lifecycle, or one the rest of the
\* program cannot see.
LEMMA LifecycleStep ==
    RetriesCounted /\ [Next]_vars => [Lifecycle!Next]_(Lifecycle!vars)
<1> SUFFICES ASSUME RetriesCounted, [Next]_vars
             PROVE  Lifecycle!Next \/ UNCHANGED Lifecycle!vars
  OBVIOUS
<1> USE DEF Lifecycle!vars, LoopStates
<1>1. CASE LoopCondition
  BY <1>1 DEF LoopCondition, counterVars, Lifecycle!Next, Lifecycle!UsbStep,
     Lifecycle!LoopEnds
<1>2. CASE StopBranch
  BY <1>2 DEF StopBranch, HandleClose, counterVars, Lifecycle!Next,
     Lifecycle!UsbStep, Lifecycle!StopBranch, Lifecycle!HandleClose
<1>3. CASE HandleError
  <2>1. /\ usbThread = "errors"
        /\ usbThread' \in {"loop", "write", "read"}
        /\ mStopRequest' = FALSE
        /\ UNCHANGED main
    BY <1>3 DEF HandleError, AfterErrors, AfterRead
  <2>2. mRetryCounter' > 0
    BY <1>3, ReaderAssumption DEF HandleError, RetriesCounted
  <2> QED
    BY <2>1, <2>2 DEF Lifecycle!Next, Lifecycle!UsbStep, Lifecycle!HandleError
<1>4. CASE BailOut
  <2>1. /\ usbThread = "errors"
        /\ usbThread' \in {"loop", "write", "read"}
        /\ mDeviceHandle' = "null" /\ mStopRequest' = FALSE
        /\ mRetryCounter' = 0
        /\ UNCHANGED main
    BY <1>4 DEF BailOut, HandleClose, AfterErrors, AfterRead
  <2> QED
    BY <2>1 DEF Lifecycle!Next, Lifecycle!UsbStep, Lifecycle!BailOut,
       Lifecycle!HandleClose
<1>5. CASE ReadPacket
  <2>1. /\ usbThread = "read"
        /\ usbThread' \in {"loop", "write"}
        /\ mDeviceHandle = "open"
        /\ mRetryCounter' = 0
        /\ UNCHANGED <<mDeviceHandle, mStopRequest, main>>
    BY <1>5 DEF ReadPacket, AfterRead
  <2> QED
    BY <2>1 DEF Lifecycle!Next, Lifecycle!UsbStep, Lifecycle!ReadPacket
<1>6. CASE \/ CheckDevice \/ NoError \/ ReadTimeout \/ ReadFault \/ ReadNull
           \/ WritePacket \/ WriteDone
  <2>1. /\ usbThread \in LoopStates /\ usbThread' \in LoopStates
        /\ UNCHANGED <<mDeviceHandle, mStopRequest, mRetryCounter, main>>
    BY <1>6 DEF CheckDevice, NoError, ReadTimeout, ReadFault, ReadNull,
       WritePacket, WriteDone, AfterErrors, AfterRead, counterVars
  <2> QED
    BY <2>1
<1>7. CASE MainOpen
  BY <1>7 DEF MainOpen, counterVars, Lifecycle!Next, Lifecycle!Open
<1>8. CASE StartReceiverThread
  BY <1>8 DEF StartReceiverThread, counterVars, Lifecycle!Next,
     Lifecycle!StartReceiverThread
<1>9. CASE MainGivesUp
  BY <1>9 DEF MainGivesUp, HandleClose, counterVars, Lifecycle!Next,
     Lifecycle!Close, Lifecycle!HandleClose
<1>10. CASE Close
  BY <1>10 DEF Close, counterVars, Lifecycle!Next, Lifecycle!Close
<1>11. CASE JoinUsb
  BY <1>11 DEF JoinUsb, counterVars, Lifecycle!Next, Lifecycle!Join
<1>12. CASE JoinSender
  BY <1>12 DEF JoinSender, readerVars, counterVars, Lifecycle!Next,
     Lifecycle!SenderStops
<1>13. CASE JoinReceiver
  BY <1>13 DEF JoinReceiver, readerVars, counterVars, Lifecycle!Next,
     Lifecycle!ReceiverStops
<1>14. CASE StopSender \/ StopReceiver
  BY <1>14 DEF StopSender, StopReceiver, readerVars, counterVars
<1>15. CASE \/ SenderStep \/ ReceiverStep \/ Send \/ Finished \/ Unplug
            \/ Plug \/ UNCHANGED vars
  BY <1>15 DEF SenderStep, ReceiverStep, Send, Finished, Unplug, Plug, vars,
     readerVars, counterVars
<1> QED
  BY <1>1, <1>2, <1>3, <1>4, <1>5, <1>6, <1>7, <1>8, <1>9, <1>10, <1>11, <1>12,
     <1>13, <1>14, <1>15 DEF Next, UsbStep, Closing

\* RefinesLifecycle: what the model of the whole program takes USBReader to do
\* is what it does, with any number of faults and restarts.
THEOREM ReaderImplementsLifecycle == Spec => RefinesLifecycle
<1>1. Init => Lifecycle!Init /\ RetriesCounted
  BY DEF Init, Lifecycle!Init, RetriesCounted, LoopStates
<1> QED
  BY <1>1, RetriesStep, LifecycleStep, PTL
     DEF Spec, RefinesLifecycle, Lifecycle!Spec

-----------------------------------------------------------------------------

\* What SenderProofs!Inv says of the variables of the program.
LEMMA SenderFacts ==
    ASSUME SenderProofs!Inv
    PROVE  /\ outgoingQueue \in Seq(Fragments)
           /\ sendQueue \in Seq(Message)
           /\ sendFront \in Message
           /\ sendIndex \in 0..sendFront.length
           /\ \A i \in 1..Len(sendQueue) : sendFront.id < sendQueue[i].id
<1>1. /\ outgoingQueue \in Seq(SenderProofs!Fragments)
      /\ sendQueue \in Seq(SenderProofs!Message)
      /\ sendFront \in SenderProofs!Message
      /\ sendIndex \in 0..sendFront.length
  BY DEF SenderProofs!Inv, SenderProofs!TypeOK
<1>2. \A i \in 1..Len(sendQueue) : sendFront.id < sendQueue[i].id
  BY DEF SenderProofs!Inv, SenderProofs!InOrder
<1>3. /\ SenderProofs!Message = Message
      /\ SenderProofs!Fragments = Fragments
  BY DEF SenderProofs!Message, Message, SenderProofs!Fragments, Fragments
<1> QED
  BY <1>1, <1>2, <1>3

\* The send thread cuts frames as UsbFraming says.
LEMMA SameFragment == \A m, index : Sender!Fragment(m, index) = Fragment(m, index)
BY DEF Sender!Fragment, Fragment, Sender!Payload, Payload, Sender!Stitch, Stitch,
   Sender!Room, Room, Sender!HeaderLength, HeaderLength,
   Sender!cAsyncHeaderAndSubHeaderSize, cAsyncHeaderAndSubHeaderSize

\* All that a step does to the packets on their way to the PSP and to the place
\* in the frame where the next one will be cut: nothing, emptying the queue,
\* writing or losing its first packet, going on to the next frame, or cutting a
\* packet.
LEMMA PacketMoves ==
    [Next]_vars =>
        \/ UNCHANGED <<written, outgoingQueue, sendFront, sendIndex>>
        \/ /\ outgoingQueue' = <<>>
           /\ UNCHANGED <<written, sendFront, sendIndex>>
        \/ /\ outgoingQueue # <<>>
           /\ outgoingQueue' = Tail(outgoingQueue)
           /\ written' \in {written, Append(written, Head(outgoingQueue))}
           /\ UNCHANGED <<sendFront, sendIndex>>
        \/ /\ sendQueue # <<>>
           /\ sendFront' = Head(sendQueue)
           /\ sendIndex' = 0
           /\ UNCHANGED <<written, outgoingQueue>>
        \/ /\ sendIndex < sendFront.length
           /\ outgoingQueue' = Append(outgoingQueue, Fragment(sendFront, sendIndex))
           /\ sendIndex' = sendIndex + Fragment(sendFront, sendIndex).payload
           /\ UNCHANGED <<written, sendFront>>
<1> SUFFICES ASSUME Next
             PROVE  \/ UNCHANGED <<written, outgoingQueue, sendFront, sendIndex>>
                    \/ /\ outgoingQueue' = <<>>
                       /\ UNCHANGED <<written, sendFront, sendIndex>>
                    \/ /\ outgoingQueue # <<>>
                       /\ outgoingQueue' = Tail(outgoingQueue)
                       /\ written' \in {written, Append(written, Head(outgoingQueue))}
                       /\ UNCHANGED <<sendFront, sendIndex>>
                    \/ /\ sendQueue # <<>>
                       /\ sendFront' = Head(sendQueue)
                       /\ sendIndex' = 0
                       /\ UNCHANGED <<written, outgoingQueue>>
                    \/ /\ sendIndex < sendFront.length
                       /\ outgoingQueue' =
                              Append(outgoingQueue, Fragment(sendFront, sendIndex))
                       /\ sendIndex' = sendIndex + Fragment(sendFront, sendIndex).payload
                       /\ UNCHANGED <<written, sendFront>>
  BY DEF vars, senderVars, pspVars
<1> USE DEF senderVars, pspVars
<1>1. CASE WritePacket
  BY <1>1 DEF WritePacket, Sender!PopFromOutgoingQueue, Sender!threadVars
<1>2. CASE HandleError \/ StopSender
  BY <1>2 DEF HandleError, PspReset, Sender!ClearQueues,
     Sender!EmptyQueues, StopSender, Sender!RequestStop, Sender!threadVars
<1>3. CASE SenderStep
  BY <1>3, SameFragment DEF SenderStep, Sender!ThreadStep, Sender!PopFront,
     Sender!PushFragment, Sender!Fragmenting, Sender!Exit
<1>4. CASE Send \/ StartReceiverThread \/ JoinSender
  BY <1>4 DEF Send, Sender!Offer, Sender!AddToQueue, Sender!threadVars,
     StartReceiverThread, Sender!StartThread, JoinSender, Sender!Join
<1>5. CASE ReadPacket \/ ReadFault
  BY <1>5 DEF ReadPacket, ReadFault, PspSends
<1>6. CASE ~(WritePacket \/ HandleError \/ StopSender \/ SenderStep \/ Send
             \/ StartReceiverThread \/ JoinSender \/ ReadPacket \/ ReadFault)
  BY <1>6 DEF Next, UsbStep, Closing, LoopCondition, StopBranch, CheckDevice,
     BailOut, NoError, ReadTimeout, ReadNull, WriteDone, ReceiverStep, MainOpen,
     MainGivesUp, Close, JoinUsb, StopReceiver, JoinReceiver, Finished, Unplug,
     Plug, vars
<1> QED
  BY <1>1, <1>2, <1>3, <1>4, <1>5, <1>6

\* second holds bytes that XLink Kai sent after all of those in first.
Before(first, second) ==
    \/ first.msg.id < second.msg.id
    \/ first.msg = second.msg /\ EndOf(first) <= second.from

\* The bytes of packet lie in front of the place the send thread has reached.
Passed(packet) ==
    \/ packet.msg.id < sendFront.id
    \/ packet.msg = sendFront /\ EndOf(packet) <= sendIndex

\* Why NothingRepeated holds: not only neighbours are in order, so that packets
\* may be lost or cleared, and all are in front of what will be cut next, so
\* that it may be appended.
PacketsInOrder ==
    /\ \A i, j \in 1..Len(written) : i < j => Before(written[i], written[j])
    /\ \A i, j \in 1..Len(outgoingQueue) :
          i < j => Before(outgoingQueue[i], outgoingQueue[j])
    /\ \A i \in 1..Len(written), j \in 1..Len(outgoingQueue) :
          Before(written[i], outgoingQueue[j])
    /\ \A i \in 1..Len(written) : Passed(written[i])
    /\ \A i \in 1..Len(outgoingQueue) : Passed(outgoingQueue[i])

\* Only packets the send thread has cut are written.
OrderInv == written \in Seq(Fragments) /\ PacketsInOrder

\* Each of the moves leaves the packets in order.
LEMMA OrderStep == OrderInv /\ SenderProofs!Inv /\ [Next]_vars => OrderInv'
<1> SUFFICES ASSUME OrderInv, SenderProofs!Inv, [Next]_vars PROVE OrderInv'
  OBVIOUS
<1>1. /\ written \in Seq(Fragments)
      /\ Len(written) \in Nat
      /\ \A i \in 1..Len(written) : written[i] \in Fragments
  BY DEF OrderInv
<1>2. /\ outgoingQueue \in Seq(Fragments)
      /\ Len(outgoingQueue) \in Nat
      /\ \A i \in 1..Len(outgoingQueue) : outgoingQueue[i] \in Fragments
      /\ sendQueue \in Seq(Message)
      /\ sendFront \in Message
      /\ sendIndex \in Nat
      /\ \A i \in 1..Len(sendQueue) : sendFront.id < sendQueue[i].id
  BY SenderFacts DEF Message
<1>3. CASE UNCHANGED <<written, outgoingQueue, sendFront, sendIndex>>
  BY <1>3 DEF OrderInv, PacketsInOrder, Passed
<1>4. CASE /\ outgoingQueue' = <<>>
           /\ UNCHANGED <<written, sendFront, sendIndex>>
  BY <1>4 DEF OrderInv, PacketsInOrder, Passed
<1>5. CASE /\ outgoingQueue # <<>>
           /\ outgoingQueue' = Tail(outgoingQueue)
           /\ written' \in {written, Append(written, Head(outgoingQueue))}
           /\ UNCHANGED <<sendFront, sendIndex>>
  <2>1. /\ Len(outgoingQueue') = Len(outgoingQueue) - 1
        /\ \A j \in 1..Len(outgoingQueue') :
              /\ j + 1 \in 1..Len(outgoingQueue)
              /\ outgoingQueue'[j] = outgoingQueue[j + 1]
        /\ 1 \in 1..Len(outgoingQueue)
        /\ Head(outgoingQueue) = outgoingQueue[1]
    BY <1>2, <1>5
  <2>2. \A packet : Passed(packet)' <=> Passed(packet)
    BY <1>5 DEF Passed
  <2>3. /\ written' \in Seq(Fragments)
        /\ \A i \in 1..Len(written') :
              \/ i \in 1..Len(written) /\ written'[i] = written[i]
              \/ i = Len(written) + 1 /\ written'[i] = outgoingQueue[1]
    <3>1. CASE written' = written
      BY <1>1, <3>1
    <3>2. CASE written' = Append(written, Head(outgoingQueue))
      <4>1. Head(outgoingQueue) \in Fragments
        BY <1>2, <2>1
      <4> QED
        BY <1>1, <2>1, <3>2, <4>1
    <3> QED
      BY <1>5, <3>1, <3>2
  <2>4. ASSUME NEW i \in 1..Len(written'), NEW j \in 1..Len(written'), i < j
        PROVE  Before(written'[i], written'[j])
    <3>1. i \in 1..Len(written) /\ written'[i] = written[i]
      <4>1. Len(written') \in Nat /\ (j \in 1..Len(written) \/ j = Len(written) + 1)
        BY <2>3
      <4>2. i \in 1..Len(written)
        BY <1>1, <2>4, <4>1
      <4>3. i # Len(written) + 1
        BY <1>1, <4>2
      <4> QED
        BY <2>3, <4>2, <4>3
    <3>2. CASE j \in 1..Len(written) /\ written'[j] = written[j]
      BY <2>4, <3>1, <3>2 DEF OrderInv, PacketsInOrder
    <3>3. CASE written'[j] = outgoingQueue[1]
      BY <2>1, <3>1, <3>3 DEF OrderInv, PacketsInOrder
    <3> QED
      BY <2>3, <3>2, <3>3
  <2>5. ASSUME NEW i \in 1..Len(outgoingQueue'), NEW j \in 1..Len(outgoingQueue'),
               i < j
        PROVE  Before(outgoingQueue'[i], outgoingQueue'[j])
    <3>1. i + 1 \in 1..Len(outgoingQueue) /\ j + 1 \in 1..Len(outgoingQueue)
      BY <2>1
    <3>2. i + 1 < j + 1
      BY <2>1, <2>5, <1>2
    <3>3. Before(outgoingQueue[i + 1], outgoingQueue[j + 1])
      BY <3>1, <3>2 DEF OrderInv, PacketsInOrder
    <3> QED
      BY <2>1, <3>3
  <2>6. \A i \in 1..Len(written'), j \in 1..Len(outgoingQueue') :
            Before(written'[i], outgoingQueue'[j])
    <3> SUFFICES ASSUME NEW i \in 1..Len(written'), NEW j \in 1..Len(outgoingQueue')
                 PROVE  Before(written'[i], outgoingQueue[j + 1])
      BY <2>1
    <3>1. CASE i \in 1..Len(written) /\ written'[i] = written[i]
      BY <2>1, <3>1 DEF OrderInv, PacketsInOrder
    <3>2. CASE written'[i] = outgoingQueue[1]
      <4>1. 1 < j + 1 /\ j + 1 \in 1..Len(outgoingQueue)
        BY <1>2, <2>1
      <4> QED
        BY <2>1, <3>2, <4>1 DEF OrderInv, PacketsInOrder
    <3> QED
      BY <2>3, <3>1, <3>2
  <2>7. /\ \A i \in 1..Len(written') : Passed(written'[i])
        /\ \A i \in 1..Len(outgoingQueue') : Passed(outgoingQueue'[i])
    BY <2>1, <2>3 DEF OrderInv, PacketsInOrder
  <2> QED
    BY <2>2, <2>3, <2>4, <2>5, <2>6, <2>7, <1>5 DEF OrderInv, PacketsInOrder, Passed
<1>6. CASE /\ sendQueue # <<>>
           /\ sendFront' = Head(sendQueue)
           /\ sendIndex' = 0
           /\ UNCHANGED <<written, outgoingQueue>>
  <2>1. sendFront.id \in Nat /\ sendFront'.id \in Nat /\ sendFront.id < sendFront'.id
    <3>1. /\ 1 \in 1..Len(sendQueue)
          /\ sendFront' = sendQueue[1] /\ sendQueue[1] \in Message
      BY <1>2, <1>6
    <3> QED
      BY <1>2, <3>1 DEF Message
  <2>2. ASSUME NEW packet \in Fragments, Passed(packet)
        PROVE  packet.msg.id < sendFront'.id
    BY <2>1, <2>2 DEF Passed, Fragments, Message
  <2>3. /\ \A i \in 1..Len(written) : written[i].msg.id < sendFront'.id
        /\ \A i \in 1..Len(outgoingQueue) : outgoingQueue[i].msg.id < sendFront'.id
    BY <1>1, <1>2, <2>2 DEF OrderInv, PacketsInOrder
  <2> QED
    BY <1>6, <2>3 DEF OrderInv, PacketsInOrder, Passed
<1>7. CASE /\ sendIndex < sendFront.length
           /\ outgoingQueue' = Append(outgoingQueue, Fragment(sendFront, sendIndex))
           /\ sendIndex' = sendIndex + Fragment(sendFront, sendIndex).payload
           /\ UNCHANGED <<written, sendFront>>
  <2> DEFINE next == Fragment(sendFront, sendIndex)
  <2>1. /\ next \in Fragments
        /\ next.msg = sendFront /\ next.from = sendIndex
        /\ next.payload \in Nat
    BY <1>2, <1>7, FragmentProgress
  <2> HIDE DEF next
  <2>2. /\ outgoingQueue' = Append(outgoingQueue, next)
        /\ sendIndex' = sendIndex + next.payload
        /\ UNCHANGED <<written, sendFront>>
    BY <1>7 DEF next
  <2>3. ASSUME NEW packet \in Fragments, Passed(packet)
        PROVE  /\ Before(packet, next)
               /\ \/ packet.msg.id < sendFront.id
                  \/ packet.msg = sendFront /\ EndOf(packet) <= sendIndex'
    BY <1>2, <2>1, <2>2, <2>3 DEF Passed, Before, EndOf, Fragments
  <2>4. /\ Len(outgoingQueue') = Len(outgoingQueue) + 1
        /\ \A i \in 1..Len(outgoingQueue') :
              \/ i \in 1..Len(outgoingQueue) /\ outgoingQueue'[i] = outgoingQueue[i]
              \/ i = Len(outgoingQueue) + 1 /\ outgoingQueue'[i] = next
    BY <1>2, <2>1, <2>2
  <2>5. \A i, j \in 1..Len(outgoingQueue') :
            i < j => Before(outgoingQueue'[i], outgoingQueue'[j])
    BY <1>2, <2>3, <2>4 DEF OrderInv, PacketsInOrder
  <2>6. \A i \in 1..Len(written), j \in 1..Len(outgoingQueue') :
            Before(written[i], outgoingQueue'[j])
    BY <1>1, <1>2, <2>3, <2>4 DEF OrderInv, PacketsInOrder
  <2>7. \/ next.msg.id < sendFront.id
        \/ next.msg = sendFront /\ EndOf(next) <= sendIndex'
    BY <1>2, <2>1, <2>2 DEF EndOf
  <2>8. /\ \A i \in 1..Len(written) : Passed(written[i])'
        /\ \A i \in 1..Len(outgoingQueue') : Passed(outgoingQueue[i])'
    BY <1>1, <1>2, <2>2, <2>3, <2>4, <2>7 DEF OrderInv, PacketsInOrder, Passed
  <2> QED
    BY <1>1, <2>2, <2>5, <2>6, <2>8 DEF OrderInv, PacketsInOrder
<1> QED
  BY <1>3, <1>4, <1>5, <1>6, <1>7, PacketMoves

\* The packets written and those still waiting are neighbours in order.
LEMMA InOrderNotRepeated == OrderInv /\ SenderProofs!Inv => NothingRepeated
<1> SUFFICES ASSUME OrderInv, SenderProofs!Inv PROVE NothingRepeated
  OBVIOUS
<1> DEFINE packets == written \o outgoingQueue
<1>1. /\ written \in Seq(Fragments) /\ Len(written) \in Nat
      /\ outgoingQueue \in Seq(Fragments) /\ Len(outgoingQueue) \in Nat
  BY SenderFacts DEF OrderInv
<1>2. /\ Len(packets) = Len(written) + Len(outgoingQueue)
      /\ \A i \in 1..Len(packets) :
            packets[i] = IF i <= Len(written) THEN written[i]
                                              ELSE outgoingQueue[i - Len(written)]
  BY <1>1
<1>3. ASSUME NEW i \in 1..(Len(packets) - 1)
      PROVE  Before(packets[i], packets[i + 1])
  <2>1. CASE i < Len(written)
    BY <1>1, <1>2, <2>1 DEF OrderInv, PacketsInOrder
  <2>2. CASE i = Len(written)
    BY <1>1, <1>2, <2>2 DEF OrderInv, PacketsInOrder
  <2>3. CASE i > Len(written)
    BY <1>1, <1>2, <2>3 DEF OrderInv, PacketsInOrder
  <2> QED
    BY <1>1, <2>1, <2>2, <2>3
<1> QED
  BY <1>3 DEF NothingRepeated, Before

\* The packets are in order in every reachable state.
THEOREM OrderInvariance == Spec => []OrderInv
<1>1. Init => OrderInv
  BY DEF Init, Sender!Init, OrderInv, PacketsInOrder
<1> QED
  BY <1>1, OrderStep, SenderInvariance, PTL DEF Spec

\* NothingRepeated: HandleError, a failing write and a stop empty the queue in
\* the middle of a frame, but the send thread goes on behind what was cut.
THEOREM NothingEverRepeated == Spec => []NothingRepeated
BY InOrderNotRepeated, OrderInvariance, SenderInvariance, PTL

-----------------------------------------------------------------------------
(* The type invariant.  The send thread's part comes from its own proofs;  *)
(* what is left is the PSP's place in its frame, the pieces that come from *)
(* it, the receive thread, and the flags and counters of the USB thread.   *)

\* The PSP is inside its frame.
PspOK ==
    /\ pspFrame \in Message
    /\ pspIndex \in 0..pspFrame.length

\* What TypeOK says of the USB thread, the main thread and the cable.
FlagsOK ==
    /\ mDeviceHandle \in {"null", "open", "stale"}
    /\ mStopRequest \in BOOLEAN
    /\ mError \in BOOLEAN
    /\ mUSBCheckSuccessful \in BOOLEAN
    /\ mReceiveStitching \in BOOLEAN
    /\ mSendStitching \in BOOLEAN
    /\ usbThread \in LoopStates \cup {"none", "exited"}
    /\ main \in MainStates
    /\ plugged \in BOOLEAN

\* What it says of the lengths and the counters.
NumbersOK ==
    /\ mActualLength \in Int
    /\ mStitchingLength \in Int
    /\ mRetryCounter \in Nat
    /\ mReadWriteRetryCounter \in Nat
    /\ faults \in 0..MaxFaults

-----------------------------------------------------------------------------

\* A packet of the PSP is a piece of a frame, and one of a frame's packets
\* brings the PSP on in it, at most to its end.
LEMMA PspPacketOK ==
    ASSUME PspOK, NEW packet \in PspPackets
    PROVE  /\ packet.piece \in Fragments
           /\ packet.kind \in {"async", "hello", "rude", "debug", "unknown"}
           /\ packet.kind = "async" =>
                 /\ packet.piece.msg \in Message
                 /\ EndOf(packet.piece) \in 0..packet.piece.msg.length
<1>1. pspFrame.id \in Nat /\ pspFrame.length \in Nat
  BY DEF PspOK, Message
<1>2. CASE pspIndex < pspFrame.length
  <2>1. packet = [kind |-> "async", piece |-> Fragment(pspFrame, pspIndex)]
    BY <1>2 DEF PspPackets
  <2>2. /\ Fragment(pspFrame, pspIndex) \in Fragments
        /\ Fragment(pspFrame, pspIndex).msg = pspFrame
        /\ EndOf(Fragment(pspFrame, pspIndex)) \in 0..pspFrame.length
    BY <1>1, <1>2, FragmentProgress DEF PspOK, EndOf
  <2> QED
    BY <2>1, <2>2 DEF PspOK
<1>3. CASE /\ ~(pspIndex < pspFrame.length)
           /\ \E length \in PspLengths :
                 packet = [kind  |-> "async",
                           piece |-> Fragment([id |-> pspFrame.id + 1,
                                               length |-> length], 0)]
  <2>1. PICK length \in PspLengths :
            packet = [kind  |-> "async",
                      piece |-> Fragment([id |-> pspFrame.id + 1,
                                          length |-> length], 0)]
    BY <1>3
  <2> DEFINE m == [id |-> pspFrame.id + 1, length |-> length]
  <2>2. m \in Message /\ 0 < m.length
    BY <1>1, ReaderAssumption, FramingAssumption DEF Message
  <2> HIDE DEF m
  <2>3. /\ Fragment(m, 0) \in Fragments
        /\ Fragment(m, 0).msg = m
        /\ EndOf(Fragment(m, 0)) \in 0..m.length
    BY <2>2, FragmentProgress DEF EndOf, Message
  <2>4. packet = [kind |-> "async", piece |-> Fragment(m, 0)]
    BY <2>1 DEF m
  <2> QED
    BY <2>2, <2>3, <2>4
<1>4. CASE /\ ~(pspIndex < pspFrame.length)
           /\ \E signal \in PspSignals :
                 packet = [kind  |-> signal,
                           piece |-> [Fragment(NoMessage, 0) EXCEPT !.payload = 1]]
  <2> DEFINE piece == [Fragment(NoMessage, 0) EXCEPT !.payload = 1]
  <2>1. piece = [msg |-> NoMessage, from |-> 0, payload |-> 1,
                 stitch |-> Stitch(0, 0)]
    BY DEF Fragment, NoMessage
  <2>4. Stitch(0, 0) \in BOOLEAN
    BY DEF Stitch
  <2>5. piece \in Fragments
    BY <2>1, <2>4 DEF Fragments, NoMessage, Message
  <2>2. PICK signal \in PspSignals : packet = [kind |-> signal, piece |-> piece]
    BY <1>4
  <2>3. signal \in {"hello", "rude", "debug", "unknown"}
    BY ReaderAssumption
  <2> HIDE DEF piece
  <2> QED
    BY <2>2, <2>3, <2>5
<1> QED
  BY <1>2, <1>3, <1>4 DEF PspPackets

\* The PSP sends the next packet, forgets the rest of its frame, or waits.
LEMMA PspMoves ==
    [Next]_vars =>
        \/ UNCHANGED <<pspFrame, pspIndex>>
        \/ pspFrame' = pspFrame /\ pspIndex' = pspFrame.length
        \/ \E packet \in PspPackets : PspSends(packet)
<1> SUFFICES ASSUME Next
             PROVE  \/ UNCHANGED <<pspFrame, pspIndex>>
                    \/ pspFrame' = pspFrame /\ pspIndex' = pspFrame.length
                    \/ \E packet \in PspPackets : PspSends(packet)
  BY DEF vars, pspVars
<1> USE DEF pspVars
<1>1. CASE HandleError \/ Unplug
  BY <1>1 DEF HandleError, PspReset, Unplug
<1>2. CASE ReadPacket \/ ReadFault
  BY <1>2 DEF ReadPacket, ReadFault
<1>3. CASE ~(HandleError \/ Unplug \/ ReadPacket \/ ReadFault)
  BY <1>3 DEF Next, UsbStep, Closing, LoopCondition, StopBranch, CheckDevice,
     BailOut, NoError, ReadTimeout, ReadNull, WritePacket, WriteDone, SenderStep,
     ReceiverStep, Send, MainOpen, MainGivesUp, StartReceiverThread, Close,
     JoinUsb, StopSender, JoinSender, StopReceiver, JoinReceiver, Finished, Plug,
     vars
<1> QED
  BY <1>1, <1>2, <1>3

\* The PSP stays inside its frame.
LEMMA PspStep == PspOK /\ [Next]_vars => PspOK'
<1> SUFFICES ASSUME PspOK, [Next]_vars PROVE PspOK'
  OBVIOUS
<1>1. CASE UNCHANGED <<pspFrame, pspIndex>>
  BY <1>1 DEF PspOK
<1>2. CASE pspFrame' = pspFrame /\ pspIndex' = pspFrame.length
  BY <1>2 DEF PspOK, Message
<1>3. CASE \E packet \in PspPackets : PspSends(packet)
  BY <1>3, PspPacketOK DEF PspSends, PspOK
<1> QED
  BY <1>1, <1>2, <1>3, PspMoves

-----------------------------------------------------------------------------

\* A piece in the receive thread's queue is one of the framing.
LEMMA PiecesAreFragments == Receiver!Pieces = Fragments
BY DEF Receiver!Pieces, Receiver!Message, Fragments, Message

\* What HandleAsynchronous hands over to the receive thread, if anything, is a
\* piece of a frame; the length it counts up to is a number.
LEMMA HandleAsynchronousOK ==
    ASSUME PspOK, FlagsOK, NumbersOK, NEW packet \in PspPackets,
           HandleAsynchronous(packet)
    PROVE  /\ \/ UNCHANGED receiverVars
              \/ \E piece \in Fragments : Receiver!AddToQueue(piece)
           /\ mReceiveStitching' \in BOOLEAN
           /\ mActualLength' \in Int
           /\ mStitchingLength' \in Int
<1> DEFINE piece == packet.piece
           added == PacketSize(piece) - cAsyncHeaderSize
           total == mStitchingLength + added
           more  == /\ PacketSize(piece) > cMaxUSBPacketSize - cAsyncHeaderSize
                    /\ total < mActualLength
           first == piece.msg.length > cMaxUSBPacketSize - cAsyncHeaderAndSubHeaderSize
           stitched == [msg |-> piece.msg, from |-> EndOf(piece) - added,
                        payload |-> added, stitch |-> more]
           started == [piece EXCEPT !.stitch = first]
<1>1. /\ piece \in Fragments /\ piece.msg \in Message /\ piece.msg.length \in Nat
      /\ piece.from \in Int /\ piece.payload \in Int
  BY PspPacketOK DEF Fragments, Message
<1>2. PacketSize(piece) \in Int /\ added \in Int /\ total \in Int
  BY <1>1, FramingAssumption DEF PacketSize, HeaderLength, NumbersOK,
     cAsyncHeaderAndSubHeaderSize
<1> HIDE DEF added
<1>3. first \in BOOLEAN /\ more \in BOOLEAN
  OBVIOUS
<1> HIDE DEF first, more, total
<1>4. started \in Fragments
  BY <1>1, <1>3 DEF Fragments
<1>5. stitched \in Fragments
  BY <1>1, <1>2, <1>3 DEF Fragments, EndOf
<1>6. \/ /\ mActualLength' = piece.msg.length
         /\ mReceiveStitching' = first
         /\ mStitchingLength' = IF first THEN piece.payload ELSE mStitchingLength
         /\ Receiver!AddToQueue(started)
      \/ UNCHANGED <<transferVars, receiverVars>>
      \/ /\ mReceiveStitching' = more
         /\ mStitchingLength' = IF more THEN total ELSE 0
         /\ Receiver!AddToQueue(stitched)
         /\ UNCHANGED mActualLength
  BY DEF HandleAsynchronous, first, more, total, added
<1> HIDE DEF started, stitched
<1>7. CASE UNCHANGED <<transferVars, receiverVars>>
  BY <1>7 DEF transferVars, FlagsOK, NumbersOK
<1>8. CASE /\ mActualLength' = piece.msg.length
           /\ mReceiveStitching' = first
           /\ mStitchingLength' = IF first THEN piece.payload ELSE mStitchingLength
           /\ Receiver!AddToQueue(started)
  BY <1>1, <1>3, <1>4, <1>8 DEF NumbersOK
<1>9. CASE /\ mReceiveStitching' = more
           /\ mStitchingLength' = IF more THEN total ELSE 0
           /\ Receiver!AddToQueue(stitched)
           /\ UNCHANGED mActualLength
  BY <1>2, <1>3, <1>5, <1>9 DEF NumbersOK
<1> QED
  BY <1>6, <1>7, <1>8, <1>9

\* The receive thread, and whatever touches its queue, in one step.
ReceiverMove ==
    \/ UNCHANGED receiverVars
    \/ Receiver!ThreadStep
    \/ \E piece \in Fragments : Receiver!AddToQueue(piece)
    \/ Receiver!StartThread \/ Receiver!ClearQueues
    \/ Receiver!RequestStop \/ Receiver!Join

\* The frame being put together stays a set of pieces with a length.
LEMMA ReceiverMoveOK == Receiver!TypeOK /\ ReceiverMove => Receiver!TypeOK'
<1> SUFFICES ASSUME Receiver!TypeOK, ReceiverMove PROVE Receiver!TypeOK'
  OBVIOUS
<1> USE ReaderAssumption DEF Receiver!TypeOK, receiverVars
<1>1. CASE UNCHANGED receiverVars
  BY <1>1
<1>2. CASE Receiver!Pop
  <2>1. /\ Head(receiveQueue) \in Receiver!Pieces
        /\ Tail(receiveQueue) \in Seq(Receiver!Pieces)
        /\ Len(Tail(receiveQueue)) <= mMaxBufferedMessages
    BY <1>2 DEF Receiver!Pop
  <2> QED
    BY <1>2, <2>1 DEF Receiver!Pop, Receiver!ThreadStates
<1>3. CASE Receiver!Copy
  <2> DEFINE start == Receiver!WriteOffset
             placed == [at      |-> start,
                        msg     |-> receiveFront.msg,
                        from    |-> receiveFront.from,
                        payload |-> receiveFront.payload]
             kept == {piece \in lastReceived.data :
                        piece.at < start \/ piece.at >= start + receiveFront.payload}
  <2>1. start \in Int
    BY DEF Receiver!WriteOffset
  <2> HIDE DEF start
  <2>2. placed \in Receiver!Placed
    BY <2>1 DEF Receiver!Pieces, Receiver!Placed
  <2> HIDE DEF placed
  <2>3. kept \cup {placed} \in SUBSET Receiver!Placed
    BY <2>2
  <2>4. lastReceived' = [lastReceived EXCEPT !.data = kept \cup {placed}]
    BY <1>3 DEF Receiver!Copy, start, placed
  <2> HIDE DEF kept
  <2> QED
    BY <1>3, <2>3, <2>4 DEF Receiver!Copy, Receiver!ThreadStates
<1>4. CASE Receiver!Account
  <2>1. /\ Receiver!WriteOffset + receiveFront.payload \in Int
        /\ receiveFront.stitch \in BOOLEAN
    BY DEF Receiver!WriteOffset, Receiver!Pieces
  <2> QED
    BY <1>4, <2>1 DEF Receiver!Account, Receiver!ThreadStates
<1>5. CASE Receiver!Dispatch
  <2> DEFINE Messages == [length : Int, data : SUBSET Receiver!Placed]
             message == Receiver!Contents(lastReceived)
  <2>1. message \in Messages /\ sent \in Seq(Messages)
    BY DEF Receiver!Contents
  <2>2. sent' \in Seq(Messages)
    <3>1. sent' = sent \/ sent' = Append(sent, message)
      BY <1>5 DEF Receiver!Dispatch
    <3> HIDE DEF Messages, message
    <3> QED
      BY <2>1, <3>1
  <2>3. Receiver!EmptyMessage \in [data : SUBSET Receiver!Placed, length : Int, stitch : BOOLEAN]
    BY DEF Receiver!EmptyMessage
  <2> QED
    BY <1>5, <2>2, <2>3 DEF Receiver!Dispatch, Receiver!ThreadStates
<1>6. CASE Receiver!Exit \/ Receiver!StartThread \/ Receiver!RequestStop
  BY <1>6 DEF Receiver!Exit, Receiver!StartThread, Receiver!RequestStop,
     Receiver!ThreadStates
<1>7. CASE Receiver!ClearQueues \/ Receiver!Join
  <2>1. Receiver!EmptyMessage \in [data : SUBSET Receiver!Placed, length : Int, stitch : BOOLEAN]
    BY DEF Receiver!EmptyMessage
  <2>2. <<>> \in Seq(Receiver!Pieces) /\ Len(<<>>) <= mMaxBufferedMessages
    OBVIOUS
  <2>3. /\ lastReceived' = Receiver!EmptyMessage
           \/ lastReceived' = [Receiver!EmptyMessage EXCEPT
                                  !.stitch = receiveFront.stitch]
        /\ receiveQueue' = <<>>
        /\ receiveThread' \in {receiveThread, "dispatch", "none"}
        /\ UNCHANGED <<receiveStop, receiveFront, sent>>
    BY <1>7 DEF Receiver!ClearQueues, Receiver!Join
  <2>4. receiveFront.stitch \in BOOLEAN
    BY DEF Receiver!Pieces
  <2>5. lastReceived' \in [data : SUBSET Receiver!Placed, length : Int, stitch : BOOLEAN]
    BY <2>1, <2>3, <2>4
  <2> QED
    BY <2>2, <2>3, <2>5 DEF Receiver!ThreadStates
<1>8. CASE \E piece \in Fragments : Receiver!AddToQueue(piece)
  BY <1>8, PiecesAreFragments DEF Receiver!AddToQueue, Receiver!Queued
<1> QED
  BY <1>1, <1>2, <1>3, <1>4, <1>5, <1>6, <1>7, <1>8
     DEF ReceiverMove, Receiver!ThreadStep

\* That is all that a step of the program does to it.
LEMMA ReceiverMoves ==
    ASSUME PspOK, FlagsOK, NumbersOK, [Next]_vars
    PROVE  ReceiverMove
<1> USE DEF ReceiverMove, receiverVars
<1>1. CASE ReadPacket
  BY <1>1, HandleAsynchronousOK DEF ReadPacket, ReceiveCallback
<1>2. CASE HandleError \/ ReceiverStep \/ StartReceiverThread \/ StopReceiver
           \/ JoinReceiver
  BY <1>2 DEF HandleError, ReceiverStep, StartReceiverThread, StopReceiver,
     JoinReceiver
<1>3. CASE ~(ReadPacket \/ HandleError \/ ReceiverStep \/ StartReceiverThread
             \/ StopReceiver \/ JoinReceiver)
  <2>1. UNCHANGED receiverVars
    BY <1>3 DEF Next, UsbStep, Closing, LoopCondition, StopBranch, CheckDevice,
       BailOut, NoError, ReadTimeout, ReadFault, ReadNull, WritePacket, WriteDone,
       SenderStep, Send, MainOpen, MainGivesUp, Close, JoinUsb, StopSender,
       JoinSender, Finished, Unplug, Plug, vars
  <2> QED
    BY <2>1
<1> QED
  BY <1>1, <1>2, <1>3

-----------------------------------------------------------------------------

\* A turn of the loop goes on at one of its steps.
LEMMA AfterOK ==
    \A sending, receiving : /\ AfterRead(receiving) \in LoopStates
                            /\ AfterErrors(sending, receiving) \in LoopStates
BY DEF AfterRead, AfterErrors, LoopStates

\* The flags of the USB thread, the main thread and the cable.
LEMMA FlagsStep ==
    ASSUME PspOK, FlagsOK, NumbersOK, SenderProofs!Inv, [Next]_vars
    PROVE  FlagsOK'
<1> USE AfterOK DEF FlagsOK, MainStates, transferVars
<1>1. CASE LoopCondition \/ StopBranch \/ BailOut \/ NoError
  <2>1. usbThread' \in LoopStates \cup {"none", "exited"}
    BY <1>1 DEF LoopCondition, StopBranch, BailOut, NoError, LoopStates
  <2>2. /\ mDeviceHandle' \in {mDeviceHandle, "null"}
        /\ mStopRequest' \in BOOLEAN
        /\ UNCHANGED <<mError, mUSBCheckSuccessful, mReceiveStitching,
                       mSendStitching, main, plugged>>
    BY <1>1 DEF LoopCondition, StopBranch, BailOut, NoError, HandleClose,
       cableVars
  <2> QED
    BY <2>1, <2>2
<1>2. CASE CheckDevice
  <2>1. mUSBCheckSuccessful' \in BOOLEAN
    BY <1>2 DEF CheckDevice, USBCheckDevice
  <2> QED
    BY <1>2, <2>1 DEF CheckDevice, LoopStates
<1>3. CASE HandleError
  BY <1>3 DEF HandleError, Open
<1>4. CASE ReadPacket
  <2>1. PICK packet \in PspPackets : ReceiveCallback(packet)
    BY <1>4 DEF ReadPacket
  <2>2. mError' \in BOOLEAN
    BY <2>1 DEF ReceiveCallback
  <2>3. mReceiveStitching' \in BOOLEAN
    BY <2>1, HandleAsynchronousOK DEF ReceiveCallback
  <2> QED
    <3>1. /\ usbThread' \in LoopStates
          /\ UNCHANGED <<mDeviceHandle, mStopRequest, mUSBCheckSuccessful,
                         mSendStitching, main, plugged>>
      BY <1>4 DEF ReadPacket, cableVars
    <3> QED
      BY <2>2, <2>3, <3>1
<1>5. CASE ReadTimeout \/ ReadFault \/ ReadNull
  <2>1. mError' \in BOOLEAN
    BY <1>5 DEF ReadTimeout, ReadFault, ReadNull, CountFailure
  <2> QED
    <3>1. /\ usbThread' \in LoopStates
          /\ UNCHANGED <<mDeviceHandle, mStopRequest, mUSBCheckSuccessful,
                         mReceiveStitching, mSendStitching, main, plugged>>
      BY <1>5 DEF ReadTimeout, ReadFault, ReadNull, cableVars
    <3> QED
      BY <2>1, <3>1
<1>6. CASE WritePacket
  <2>1. mError' \in BOOLEAN
    BY <1>6 DEF WritePacket, CountFailure
  <2>2. mSendStitching' \in BOOLEAN
    <3>1. Head(outgoingQueue) \in Fragments
      BY <1>6, SenderFacts DEF WritePacket, Sender!PopFromOutgoingQueue
    <3> QED
      BY <1>6, <3>1 DEF WritePacket, Fragments
  <2> QED
    BY <1>6, <2>1, <2>2 DEF WritePacket
<1>7. CASE WriteDone \/ SenderStep \/ ReceiverStep \/ Send
  BY <1>7 DEF WriteDone, SenderStep, ReceiverStep, Send, readerVars, cableVars,
     LoopStates
<1>8. CASE MainOpen \/ MainGivesUp \/ StartReceiverThread \/ Close
  <2>1. CASE MainOpen \/ Close
    BY <2>1 DEF MainOpen, Close, cableVars
  <2>2. CASE MainGivesUp
    BY <2>2 DEF MainGivesUp, HandleClose, cableVars
  <2>3. CASE StartReceiverThread
    BY <2>3 DEF StartReceiverThread, cableVars, LoopStates
  <2> QED
    BY <1>8, <2>1, <2>2, <2>3
<1>9. CASE Closing
  BY <1>9 DEF Closing, JoinUsb, StopSender, JoinSender, StopReceiver,
     JoinReceiver, readerVars, cableVars
<1>10. CASE Unplug
  BY <1>10 DEF Unplug
<1>11. CASE Plug \/ Finished \/ UNCHANGED vars
  <2>1. CASE Plug
    BY <2>1 DEF Plug, readerVars
  <2>2. CASE Finished \/ UNCHANGED vars
    BY <2>2 DEF Finished, vars, readerVars, cableVars
  <2> QED
    BY <1>11, <2>1, <2>2
<1> HIDE DEF FlagsOK, MainStates, transferVars
<1> QED
  BY <1>1, <1>2, <1>3, <1>4, <1>5, <1>6, <1>7, <1>8, <1>9, <1>10, <1>11
     DEF Next, UsbStep

\* The lengths and the counters.
LEMMA NumbersStep ==
    ASSUME PspOK, FlagsOK, NumbersOK, [Next]_vars
    PROVE  NumbersOK'
<1> USE ReaderAssumption DEF NumbersOK, Fault
<1>1. CASE CheckDevice
  BY <1>1 DEF CheckDevice, USBCheckDevice, transferVars, counterVars
<1>2. CASE HandleError
  <2>1. mRetryCounter' \in Nat
    BY <1>2 DEF HandleError
  <2> QED
    BY <1>2, <2>1 DEF HandleError, Open
<1>3. CASE BailOut
  BY <1>3 DEF BailOut, transferVars, cableVars
<1>4. CASE ReadPacket
  <2>1. PICK packet \in PspPackets : ReceiveCallback(packet)
    BY <1>4 DEF ReadPacket
  <2>2. mActualLength' \in Int /\ mStitchingLength' \in Int
    BY <2>1, HandleAsynchronousOK DEF ReceiveCallback, transferVars
  <2>3. /\ mRetryCounter' = 0
        /\ UNCHANGED <<mReadWriteRetryCounter, faults>>
    BY <1>4 DEF ReadPacket, cableVars
  <2> QED
    BY <2>2, <2>3
<1>5. CASE ReadFault \/ WritePacket
  <2>1. mReadWriteRetryCounter' \in Nat
    BY <1>5 DEF ReadFault, WritePacket, CountFailure
  <2>2. faults' \in 0..MaxFaults
    BY <1>5 DEF ReadFault, WritePacket
  <2>3. UNCHANGED <<mActualLength, mStitchingLength, mRetryCounter>>
    BY <1>5 DEF ReadFault, WritePacket, transferVars
  <2> QED
    BY <2>1, <2>2, <2>3
<1>6. CASE Unplug
  BY <1>6 DEF Unplug, transferVars, counterVars
<1>7. CASE ~(CheckDevice \/ HandleError \/ BailOut \/ ReadPacket \/ ReadFault
             \/ WritePacket \/ Unplug)
  <2>1. UNCHANGED <<mActualLength, mStitchingLength, mRetryCounter,
                    mReadWriteRetryCounter, faults>>
    BY <1>7 DEF Next, UsbStep, Closing, LoopCondition, StopBranch, NoError,
       ReadTimeout, ReadNull, WriteDone, SenderStep, ReceiverStep, Send, MainOpen,
       MainGivesUp, StartReceiverThread, Close, JoinUsb, StopSender, JoinSender,
       StopReceiver, JoinReceiver, Finished, Plug, vars, readerVars, transferVars,
       counterVars, cableVars
  <2> QED
    BY <2>1
<1> QED
  BY <1>1, <1>2, <1>3, <1>4, <1>5, <1>6, <1>7

-----------------------------------------------------------------------------

\* All of it together; the send thread's part and the packets written come from
\* SenderProofs!Inv and OrderInv.
TypeInv == PspOK /\ FlagsOK /\ NumbersOK /\ Receiver!TypeOK

\* The initial state has these types.
LEMMA InitTypeInv == Init => TypeInv
<1> SUFFICES ASSUME Init PROVE TypeInv
  OBVIOUS
<1>1. PspOK
  BY DEF Init, PspOK, NoMessage, Message
<1>2. FlagsOK
  BY DEF Init, FlagsOK, MainStates
<1>3. NumbersOK
  BY ReaderAssumption DEF Init, NumbersOK
<1>4. Receiver!TypeOK
  <2>1. Receiver!EmptyMessage \in [data : SUBSET Receiver!Placed, length : Int, stitch : BOOLEAN]
    BY DEF Receiver!EmptyMessage
  <2>2. Receiver!NoPiece \in Receiver!Pieces
    BY DEF Receiver!NoPiece, Receiver!NoMessage, Receiver!Pieces, Receiver!Message
  <2>3. /\ receiveQueue = <<>> /\ sent = <<>>
        /\ lastReceived = Receiver!EmptyMessage
        /\ receiveFront = Receiver!NoPiece
        /\ receiveStop = FALSE /\ receiveThread = "none"
    BY DEF Init, Receiver!Init
  <2>4. receiveQueue \in Seq(Receiver!Pieces) /\ Len(receiveQueue) <= mMaxBufferedMessages
    BY <2>3, ReaderAssumption
  <2>5. sent \in Seq([length : Int, data : SUBSET Receiver!Placed])
    BY <2>3
  <2>6. receiveStop \in BOOLEAN /\ receiveThread \in Receiver!ThreadStates
    BY <2>3 DEF Receiver!ThreadStates
  <2>7. /\ lastReceived \in
              [data : SUBSET Receiver!Placed, length : Int, stitch : BOOLEAN]
        /\ receiveFront \in Receiver!Pieces
    BY <2>1, <2>2, <2>3
  <2> QED
    BY ONLY <2>4, <2>5, <2>6, <2>7 DEF Receiver!TypeOK
<1> QED
  BY <1>1, <1>2, <1>3, <1>4 DEF TypeInv

\* Every step keeps them.
LEMMA TypeInvStep == TypeInv /\ SenderProofs!Inv /\ [Next]_vars => TypeInv'
BY PspStep, FlagsStep, NumbersStep, ReceiverMoves, ReceiverMoveOK DEF TypeInv

\* Every reachable state of the reader has them.
THEOREM TypeInvariance == Spec => []TypeInv
BY InitTypeInv, TypeInvStep, SenderInvariance, PTL DEF Spec

\* TypeOK: in particular both queues keep within mMaxBufferedMessages and the PSP
\* within its frame, whatever fails and is reset.
THEOREM TypeCorrect == Spec => []TypeOK
<1>1. TypeInv /\ OrderInv /\ SenderProofs!Inv => TypeOK
  <2> SUFFICES ASSUME TypeInv, OrderInv, SenderProofs!Inv PROVE TypeOK
    OBVIOUS
  <2>1. Sender!TypeOK
    BY DEF SenderProofs!Inv, SenderProofs!TypeOK, Sender!TypeOK,
       SenderProofs!Message, Sender!Message, SenderProofs!Fragments,
       Sender!Fragments
  <2> QED
    BY <2>1 DEF TypeInv, PspOK, FlagsOK, NumbersOK, OrderInv, TypeOK
<1> QED
  BY <1>1, TypeInvariance, OrderInvariance, SenderInvariance, PTL

-----------------------------------------------------------------------------
(* From XLink Kai to the PSP.  The order of the packets (OrderInv) is what  *)
(* keeps a frame from being taken for another whatever fails; that nothing  *)
(* is missing until something has failed takes more.                        *)

\* Only "rude" makes ReceiveCallback raise mError.
LEMMA PacketRaisesNoError ==
    ASSUME "rude" \notin PspSignals, NEW packet \in PspPackets
    PROVE  packet.kind # "rude"
<1>1. CASE \E piece : packet = [kind |-> "async", piece |-> piece]
  BY <1>1
<1>2. CASE \E signal \in PspSignals :
              packet = [kind  |-> signal,
                        piece |-> [Fragment(NoMessage, 0) EXCEPT !.payload = 1]]
  <2> DEFINE piece == [Fragment(NoMessage, 0) EXCEPT !.payload = 1]
  <2>1. PICK signal \in PspSignals : packet = [kind |-> signal, piece |-> piece]
    BY <1>2
  <2> HIDE DEF piece
  <2> QED
    BY <2>1
<1> QED
  BY <1>1, <1>2 DEF PspPackets

\* A channel that was disturbed stays so.
LEMMA StaysDisturbed ==
    ASSUME [Next]_vars, faults \in Nat
    PROVE  Disturbed => Disturbed'
<1>1. /\ faults' = faults \/ Fault
      /\ \/ UNCHANGED main
         \/ main' \notin {"opening", "running"}
         \/ main = "opening"
  <2>1. CASE \/ LoopCondition \/ StopBranch \/ BailOut \/ NoError
             \/ ReadNull \/ ReadTimeout \/ WriteDone \/ SenderStep
             \/ ReceiverStep \/ Send \/ MainOpen \/ Plug \/ Finished
             \/ UNCHANGED vars
    BY <2>1 DEF LoopCondition, StopBranch, BailOut, NoError, ReadNull,
       ReadTimeout, WriteDone, SenderStep, ReceiverStep, Send, MainOpen, Plug,
       Finished, vars, cableVars
  <2>2. CASE CheckDevice \/ HandleError
    BY <2>2 DEF CheckDevice, USBCheckDevice, HandleError, Open
  <2>3. CASE ReadPacket \/ ReadFault
    BY <2>3 DEF ReadPacket, ReadFault, cableVars
  <2>4. CASE WritePacket
    BY <2>4 DEF WritePacket
  <2>5. CASE MainGivesUp \/ StartReceiverThread \/ Close \/ Closing
    BY <2>5 DEF MainGivesUp, StartReceiverThread, Close, Closing, JoinUsb,
       StopSender, JoinSender, StopReceiver, JoinReceiver, cableVars
  <2>6. CASE Unplug
    BY <2>6 DEF Unplug
  <2> QED
    BY <2>1, <2>2, <2>3, <2>4, <2>5, <2>6 DEF Next, UsbStep
<1> QED
  BY <1>1, ReaderAssumption DEF Disturbed, Fault

\* Only a fault makes the USB thread start over or give up: the PSP sends no
\* command to do so, and the settings allow for a retry.
OnlyFaultsRestart == "rude" \notin PspSignals /\ mMaxFatalRetries > 0

\* The device works, and the USB thread has no reason to let go of it.
Steady ==
    /\ ~mStopRequest
    /\ ~mError
    /\ mRetryCounter = 0
    /\ mDeviceHandle # "stale"
    /\ IF main = "opening" THEN usbThread = "none" ELSE mDeviceHandle = "open"
    /\ usbThread = "errors" => mUSBCheckSuccessful

\* Until the channel is disturbed.
SteadyInv == ~Disturbed => Steady

\* A fault disturbs it.
LEMMA FaultDisturbs ==
    ASSUME NumbersOK, Fault
    PROVE  Disturbed'
BY ReaderAssumption DEF NumbersOK, Fault, Disturbed

\* No step but a fault or the end of the program takes the device away.
LEMMA SteadyStep ==
    ASSUME OnlyFaultsRestart, FlagsOK, NumbersOK, SteadyInv, [Next]_vars
    PROVE  SteadyInv'
<1> SUFFICES ASSUME ~Disturbed'
             PROVE  Steady'
  BY DEF SteadyInv
<1>1. ~Disturbed
  BY StaysDisturbed, ReaderAssumption DEF NumbersOK
<1>2. ~Fault
  BY FaultDisturbs
<1>3. /\ Steady
      /\ main \in {"opening", "running"} /\ main' \in {"opening", "running"}
  BY <1>1 DEF SteadyInv, Disturbed
<1> USE DEF Steady
<1>4. CASE LoopCondition
  BY <1>3, <1>4 DEF LoopCondition, counterVars
<1>5. CASE CheckDevice
  BY <1>2, <1>3, <1>5 DEF CheckDevice, USBCheckDevice, counterVars
<1>6. CASE NoError
  <2>1. /\ usbThread = "errors" /\ usbThread' \in {"loop", "write", "read"}
        /\ UNCHANGED <<mDeviceHandle, mStopRequest, mRetryCounter,
                       mUSBCheckSuccessful, mError, main>>
    BY <1>6 DEF NoError, AfterErrors, AfterRead, counterVars
  <2> QED
    BY <1>3, <2>1
<1>7. CASE ReadPacket
  <2>1. ~mError'
    BY <1>3, <1>7, PacketRaisesNoError DEF OnlyFaultsRestart, ReadPacket, ReceiveCallback
  <2>2. /\ usbThread = "read" /\ usbThread' \in {"loop", "write"}
        /\ mRetryCounter' = 0
        /\ UNCHANGED <<mDeviceHandle, mStopRequest, main>>
    BY <1>7 DEF ReadPacket, AfterRead
  <2> QED
    BY <1>3, <2>1, <2>2
<1>8. CASE ReadTimeout
  <2>1. /\ usbThread = "read" /\ usbThread' \in {"loop", "write"}
        /\ UNCHANGED <<mDeviceHandle, mStopRequest, mRetryCounter, mError, main>>
    BY <1>8 DEF ReadTimeout, AfterRead, counterVars
  <2> QED
    BY <1>3, <2>1
<1>9. ~(StopBranch \/ HandleError \/ ReadFault \/ ReadNull \/ Unplug)
  BY <1>2, <1>3 DEF StopBranch, HandleError, ReadFault, ReadNull, Unplug
<1>10. ~BailOut
  <2>1. mMaxFatalRetries \in Nat /\ mMaxFatalRetries > 0 /\ mRetryCounter = 0
    BY <1>3, ReaderAssumption DEF OnlyFaultsRestart
  <2> QED
    BY <2>1 DEF BailOut
<1>11. CASE WritePacket
  <2>1. /\ usbThread = "write" /\ usbThread' = "write"
        /\ UNCHANGED <<mDeviceHandle, mStopRequest, mRetryCounter, mError, main>>
    BY <1>2, <1>3, <1>11 DEF WritePacket
  <2> QED
    BY <1>3, <2>1
<1>12. CASE WriteDone
  BY <1>3, <1>12 DEF WriteDone, counterVars
<1>13. CASE SenderStep \/ ReceiverStep \/ Send \/ Plug \/ Finished \/ UNCHANGED vars
  <2>1. UNCHANGED <<mDeviceHandle, mStopRequest, mRetryCounter, mError, main,
                    usbThread, mUSBCheckSuccessful>>
    BY <1>13 DEF SenderStep, ReceiverStep, Send, Plug, Finished, vars, readerVars,
       counterVars
  <2> QED
    BY <1>3, <2>1
<1>14. CASE MainOpen
  BY <1>3, <1>14 DEF MainOpen, counterVars
<1>15. CASE StartReceiverThread
  BY <1>3, <1>15 DEF StartReceiverThread, counterVars, FlagsOK
<1>16. ~(MainGivesUp \/ Close \/ Closing)
  BY <1>3 DEF MainGivesUp, Close, Closing, JoinUsb, StopSender, JoinSender,
     StopReceiver, JoinReceiver
<1> QED
  BY <1>4, <1>5, <1>6, <1>7, <1>8, <1>9, <1>10, <1>11, <1>12, <1>13, <1>14,
     <1>15, <1>16 DEF Next, UsbStep

-----------------------------------------------------------------------------

\* A packet that the send thread has cut: at least one byte of its frame, and
\* marked as the last of them or not.
Cut(packet) ==
    /\ packet.payload > 0
    /\ EndOf(packet) <= packet.msg.length
    /\ packet.stitch <=> EndOf(packet) < packet.msg.length

\* All the packets before packet i that belong to its frame are there.
Started(packets, i) ==
    \E j \in 1..i :
        /\ packets[j].from = 0
        /\ \A k \in j..(i - 1) :
              packets[k].stitch /\ Follows(packets[k], packets[k + 1])

Packets == written \o outgoingQueue

\* No packet is missing among those the PSP has got and those it will get, and
\* they end where the next one will be cut.
Intact ==
    /\ \A i \in 1..Len(Packets) : Started(Packets, i)
    /\ 0 < sendIndex /\ sendIndex < sendFront.length =>
          /\ Len(Packets) > 0
          /\ Packets[Len(Packets)].stitch
          /\ Packets[Len(Packets)].msg = sendFront
          /\ EndOf(Packets[Len(Packets)]) = sendIndex

\* Why the PSP gets whole frames: until the channel is disturbed the packets
\* from its first one to the place where the next one is cut have no gap.
\* From then on packets may be missing, but the order of those that are left
\* does not let the PSP take two frames for one.
ToPspInv ==
    /\ SteadyInv
    /\ \A i \in 1..Len(outgoingQueue) : Cut(outgoingQueue[i])
    /\ ~Disturbed => Intact

\* What a step does on the way from XLink Kai to the PSP.
ToPspUnmoved ==
    UNCHANGED <<sendQueue, outgoingQueue, sendFront, sendIndex, kaiOffered, written>>

Cutting == (Sender!PopFront \/ Sender!PushFragment) /\ UNCHANGED written

Offering == Sender!Offer /\ UNCHANGED <<written, Disturbed>>

Clearing ==
    /\ sendQueue' = <<>> /\ outgoingQueue' = <<>>
    /\ UNCHANGED <<sendFront, sendIndex, kaiOffered, written>>
    /\ Disturbed'

Writing ==
    /\ outgoingQueue # <<>>
    /\ outgoingQueue' = Tail(outgoingQueue)
    /\ \/ written' = Append(written, Head(outgoingQueue))
       \/ UNCHANGED written /\ Disturbed'
    /\ UNCHANGED <<sendQueue, sendFront, sendIndex, kaiOffered>>

\* Only when it is disturbed a step empties the queues or loses a packet.
LEMMA ToPspMoves ==
    ASSUME OnlyFaultsRestart, FlagsOK, NumbersOK, SteadyInv, [Next]_vars
    PROVE  ToPspUnmoved \/ Cutting \/ Offering \/ Clearing \/ Writing
<1> USE DEF senderVars, pspVars
<1>1. Disturbed => Disturbed'
  BY StaysDisturbed, ReaderAssumption DEF NumbersOK
<1>2. CASE WritePacket
  <2>1. /\ outgoingQueue # <<>>
        /\ outgoingQueue' = Tail(outgoingQueue)
        /\ UNCHANGED <<sendQueue, sendFront, sendIndex, kaiOffered>>
    BY <1>2 DEF WritePacket, Sender!PopFromOutgoingQueue, Sender!threadVars
  <2>2. mDeviceHandle # "open" => Disturbed
    <3> SUFFICES ASSUME ~Disturbed
                 PROVE  mDeviceHandle = "open"
      OBVIOUS
    <3>1. Steady /\ usbThread = "write"
      BY <1>2 DEF SteadyInv, WritePacket
    <3> QED
      BY <3>1 DEF Steady
  <2>3. \/ written' = Append(written, Head(outgoingQueue))
        \/ UNCHANGED written /\ Disturbed'
    BY <1>1, <1>2, <2>2, FaultDisturbs DEF WritePacket
  <2> QED
    BY <2>1, <2>3 DEF Writing
<1>3. CASE HandleError
  <2>1. Disturbed
    BY <1>3 DEF SteadyInv, Steady, HandleError
  <2> QED
    BY <1>1, <1>3, <2>1 DEF HandleError, PspReset, Sender!ClearQueues,
       Sender!EmptyQueues, Sender!threadVars, Clearing
<1>4. CASE StopSender
  <2>1. Disturbed'
    BY <1>4 DEF StopSender, Disturbed
  <2> QED
    BY <1>4, <2>1 DEF StopSender, Sender!RequestStop, Sender!EmptyQueues,
       Sender!threadVars, Clearing
<1>5. CASE SenderStep
  BY <1>5 DEF SenderStep, Sender!ThreadStep, Sender!Exit, Cutting, ToPspUnmoved
<1>6. CASE Send
  BY <1>6 DEF Send, Offering, Disturbed, cableVars
<1>7. CASE StartReceiverThread \/ JoinSender
  BY <1>7 DEF StartReceiverThread, Sender!StartThread, JoinSender, Sender!Join,
     ToPspUnmoved
<1>8. CASE ReadPacket \/ ReadFault
  BY <1>8 DEF ReadPacket, ReadFault, PspSends, ToPspUnmoved
<1>9. CASE ~(WritePacket \/ HandleError \/ StopSender \/ SenderStep \/ Send
             \/ StartReceiverThread \/ JoinSender \/ ReadPacket \/ ReadFault)
  BY <1>9 DEF Next, UsbStep, Closing, LoopCondition, StopBranch, CheckDevice,
     BailOut, NoError, ReadTimeout, ReadNull, WriteDone, ReceiverStep, MainOpen,
     MainGivesUp, Close, JoinUsb, StopReceiver, JoinReceiver, Finished, Unplug,
     Plug, vars, ToPspUnmoved
<1> QED
  BY <1>2, <1>3, <1>4, <1>5, <1>6, <1>7, <1>8, <1>9
-----------------------------------------------------------------------------

\* The packets before i are all that Started looks at.
LEMMA StartedSame ==
    ASSUME NEW packets, NEW others, NEW i \in Nat,
           \A k \in 1..i : others[k] = packets[k],
           Started(packets, i)
    PROVE  Started(others, i)
<1>1. PICK j \in 1..i :
          /\ packets[j].from = 0
          /\ \A k \in j..(i - 1) :
                packets[k].stitch /\ Follows(packets[k], packets[k + 1])
  BY DEF Started
<1>2. \A k \in j..(i - 1) : k \in 1..i /\ k + 1 \in 1..i
  OBVIOUS
<1>3. \A k \in j..(i - 1) :
          others[k].stitch /\ Follows(others[k], others[k + 1])
  BY <1>1, <1>2
<1> QED
  BY <1>1, <1>3 DEF Started

\* One run of packets behind another: what is appended to the second is appended
\* to both, and what goes from its front to the end of the first changes nothing.
LEMMA Behind ==
    ASSUME NEW first \in Seq(Fragments), NEW second \in Seq(Fragments)
    PROVE  /\ first \o second \in Seq(Fragments)
           /\ \A packet \in Fragments :
                 first \o Append(second, packet) = Append(first \o second, packet)
           /\ second # <<>> =>
                 Append(first, Head(second)) \o Tail(second) = first \o second
<1>1. first \o second \in Seq(Fragments)
  OBVIOUS
<1>2. ASSUME NEW packet \in Fragments
      PROVE  first \o Append(second, packet) = Append(first \o second, packet)
  <2>1. <<packet>> \in Seq(Fragments)
    OBVIOUS
  <2>2. Append(second, packet) = second \o <<packet>>
    BY AppendIsConcat
  <2>3. Append(first \o second, packet) = (first \o second) \o <<packet>>
    BY <1>1, AppendIsConcat
  <2> QED
    BY <2>1, <2>2, <2>3, ConcatAssociative
<1>3. ASSUME second # <<>>
      PROVE  Append(first, Head(second)) \o Tail(second) = first \o second
  <2>1. Head(second) \in Fragments /\ Tail(second) \in Seq(Fragments)
    BY <1>3, HeadTailProperties
  <2>2. <<Head(second)>> \in Seq(Fragments)
    BY <2>1
  <2>3. <<Head(second)>> \o Tail(second) = second
    BY <1>3
  <2>4. Append(first, Head(second)) = first \o <<Head(second)>>
    BY <2>1, AppendIsConcat
  <2> QED
    BY <2>1, <2>2, <2>3, <2>4, ConcatAssociative
<1> QED
  BY <1>1, <1>2, <1>3

\* The packets written come first, then those of the outgoing queue.
LEMMA PacketsFacts ==
    ASSUME OrderInv, SenderProofs!Inv
    PROVE  /\ written \in Seq(Fragments)
           /\ outgoingQueue \in Seq(Fragments)
           /\ Packets \in Seq(Fragments) /\ Len(Packets) \in Nat
<1>1. written \in Seq(Fragments) /\ outgoingQueue \in Seq(Fragments)
  BY SenderFacts DEF OrderInv
<1>2. Packets \in Seq(Fragments)
  BY <1>1 DEF Packets
<1> QED
  BY <1>1, <1>2

\* A packet cut from the frame goes on where the last one ended.
LEMMA IntactPush ==
    ASSUME OrderInv, SenderProofs!Inv, Intact,
           Sender!PushFragment, UNCHANGED written
    PROVE  Intact'
<1> DEFINE packet == Fragment(sendFront, sendIndex)
           last == Len(Packets)
<1>1. /\ sendFront \in Message /\ sendIndex \in Nat
      /\ sendIndex < sendFront.length
      /\ outgoingQueue' = Append(outgoingQueue, packet)
      /\ sendIndex' = sendIndex + packet.payload
      /\ sendFront' = sendFront
  BY SenderFacts, SameFragment DEF Sender!PushFragment, Sender!Fragmenting, Message
<1>2. /\ packet \in Fragments /\ packet.msg = sendFront
      /\ packet.from = sendIndex /\ EndOf(packet) = sendIndex'
      /\ packet.stitch <=> sendIndex' < sendFront.length
  BY <1>1, FragmentProgress DEF EndOf
<1> HIDE DEF packet
<1>3. Packets' = Append(Packets, packet)
  BY <1>1, <1>2, PacketsFacts, Behind DEF Packets
<1>4. /\ last \in Nat
      /\ Len(Packets') = last + 1
      /\ \A i \in 1..last : Packets'[i] = Packets[i]
      /\ Packets'[last + 1] = packet
  BY <1>2, <1>3, PacketsFacts
<1>5. /\ \A i \in 1..last : Started(Packets, i)
      /\ 0 < sendIndex =>
            /\ last > 0
            /\ Packets[last].stitch
            /\ Packets[last].msg = sendFront
            /\ EndOf(Packets[last]) = sendIndex
  BY <1>1 DEF Intact
<1>6. Started(Packets', last + 1)
  <2> DEFINE longer == Packets'
  <2> HIDE DEF longer, last
  <2>1. CASE sendIndex = 0
    <3>1. \A k \in (last + 1)..((last + 1) - 1) : FALSE
      BY <1>4
    <3>2. last + 1 \in 1..(last + 1) /\ longer[last + 1].from = 0
      BY <1>2, <1>4, <2>1 DEF longer
    <3>3. Started(longer, last + 1)
      BY <3>1, <3>2 DEF Started
    <3> QED
      BY <3>3 DEF longer
  <2>2. CASE sendIndex > 0
    <3>1. last \in 1..last
      BY <1>4, <1>5, <2>2
    <3>2. PICK j \in 1..last :
              /\ Packets[j].from = 0
              /\ \A k \in j..(last - 1) :
                    Packets[k].stitch /\ Follows(Packets[k], Packets[k + 1])
      BY <1>5, <3>1 DEF Started
    <3>3. ASSUME NEW k \in j..last
          PROVE  longer[k].stitch /\ Follows(longer[k], longer[k + 1])
      <4>1. CASE k = last
        BY <1>2, <1>4, <1>5, <2>2, <3>1, <4>1 DEF Follows, longer
      <4>2. CASE k # last
        <5>1. k \in j..(last - 1) /\ k \in 1..last /\ k + 1 \in 1..last
          BY <1>4, <4>2
        <5> QED
          BY <1>4, <3>2, <5>1 DEF longer
      <4> QED
        BY <4>1, <4>2
    <3>4. j \in 1..(last + 1) /\ longer[j].from = 0 /\ (last + 1) - 1 = last
      BY <1>4, <3>2 DEF longer
    <3>5. Started(longer, last + 1)
      BY <3>3, <3>4 DEF Started
    <3> QED
      BY <3>5 DEF longer
  <2> QED
    BY <1>1, <2>1, <2>2
<1>7. \A i \in 1..Len(Packets') : Started(Packets', i)
  <2> HIDE DEF last
  <2> SUFFICES ASSUME NEW i \in 1..last
               PROVE  Started(Packets', i)
    BY <1>4, <1>6
  <2>1. i \in Nat /\ \A k \in 1..i : Packets'[k] = Packets[k]
    BY <1>4
  <2> QED
    BY <1>5, <2>1, StartedSame
<1> HIDE DEF last
<1> QED
  BY <1>1, <1>2, <1>4, <1>7 DEF Intact

\* No move leaves a gap that the channel does not know of.
LEMMA IntactStep ==
    ASSUME OrderInv, SenderProofs!Inv,
           ToPspUnmoved \/ Cutting \/ Offering \/ Clearing \/ Writing,
           Intact, ~Disturbed'
    PROVE  Intact'
<1>1. CASE ToPspUnmoved \/ Offering
  <2>1. UNCHANGED <<written, outgoingQueue, sendFront, sendIndex>>
    BY <1>1 DEF ToPspUnmoved, Offering, Sender!Offer, Sender!AddToQueue,
       Sender!threadVars
  <2>2. Packets' = Packets
    BY <2>1 DEF Packets
  <2> QED
    BY <2>1, <2>2 DEF Intact
<1>2. CASE Sender!PopFront /\ UNCHANGED written
  <2>1. UNCHANGED <<written, outgoingQueue>> /\ sendIndex' = 0
    BY <1>2 DEF Sender!PopFront
  <2>2. Packets' = Packets
    BY <2>1 DEF Packets
  <2> QED
    BY <2>1, <2>2 DEF Intact
<1>3. CASE Sender!PushFragment /\ UNCHANGED written
  BY <1>3, IntactPush
<1>4. CASE Writing
  <2>1. /\ outgoingQueue # <<>> /\ outgoingQueue' = Tail(outgoingQueue)
        /\ written' = Append(written, Head(outgoingQueue))
        /\ UNCHANGED <<sendFront, sendIndex>>
    BY <1>4 DEF Writing
  <2>2. Packets' = Packets
    BY <2>1, PacketsFacts, Behind DEF Packets
  <2> QED
    BY <2>1, <2>2 DEF Intact
<1> QED
  BY <1>1, <1>2, <1>3, <1>4 DEF Cutting, Clearing

\* Every packet in the outgoing queue was cut by the send thread.
LEMMA CutStep ==
    ASSUME SenderProofs!Inv,
           ToPspUnmoved \/ Cutting \/ Offering \/ Clearing \/ Writing,
           \A i \in 1..Len(outgoingQueue) : Cut(outgoingQueue[i])
    PROVE  \A i \in 1..Len(outgoingQueue') : Cut(outgoingQueue'[i])
<1>1. outgoingQueue \in Seq(Fragments) /\ Len(outgoingQueue) \in Nat
  BY SenderFacts
<1>2. CASE UNCHANGED outgoingQueue
  BY <1>2
<1>3. CASE outgoingQueue' = <<>>
  BY <1>3
<1>4. CASE outgoingQueue # <<>> /\ outgoingQueue' = Tail(outgoingQueue)
  <2>1. /\ Len(outgoingQueue') = Len(outgoingQueue) - 1
        /\ \A i \in 1..Len(outgoingQueue') :
              /\ i + 1 \in 1..Len(outgoingQueue)
              /\ outgoingQueue'[i] = outgoingQueue[i + 1]
    BY <1>1, <1>4
  <2> QED
    BY <2>1
<1>5. CASE Sender!PushFragment
  <2> DEFINE packet == Fragment(sendFront, sendIndex)
  <2>1. /\ sendFront \in Message /\ sendIndex \in Nat
        /\ sendIndex < sendFront.length
        /\ outgoingQueue' = Append(outgoingQueue, packet)
    BY <1>5, SenderFacts, SameFragment
       DEF Sender!PushFragment, Sender!Fragmenting, Message
  <2>2. packet \in Fragments /\ Cut(packet)
    BY <2>1, FragmentProgress DEF Cut, EndOf
  <2> HIDE DEF packet
  <2>3. \A i \in 1..Len(outgoingQueue') :
            \/ i \in 1..Len(outgoingQueue) /\ outgoingQueue'[i] = outgoingQueue[i]
            \/ outgoingQueue'[i] = packet
    BY <1>1, <2>1, <2>2
  <2> QED
    BY <2>2, <2>3
<1> QED
  BY <1>2, <1>3, <1>4, <1>5 DEF ToPspUnmoved, Cutting, Offering, Clearing, Writing,
     Sender!PopFront, Sender!Offer, Sender!AddToQueue

\* So it is in every reachable state.
THEOREM ToPspInvariance ==
    ASSUME OnlyFaultsRestart
    PROVE  Spec => []ToPspInv
<1>1. Init => ToPspInv
  <2> SUFFICES ASSUME Init PROVE ToPspInv
    OBVIOUS
  <2>1. /\ written = <<>> /\ outgoingQueue = <<>> /\ sendIndex = 0
        /\ mStopRequest = FALSE /\ mError = FALSE /\ mRetryCounter = 0
        /\ mDeviceHandle = "null" /\ main = "opening" /\ usbThread = "none"
    BY DEF Init, Sender!Init
  <2>2. Len(Packets) = 0
    BY <2>1 DEF Packets
  <2>3. Intact
    BY <2>1, <2>2 DEF Intact
  <2>4. Steady
    BY <2>1 DEF Steady
  <2> QED
    BY <2>1, <2>3, <2>4 DEF ToPspInv, SteadyInv
<1>2. /\ ToPspInv /\ TypeInv /\ OrderInv /\ SenderProofs!Inv
      /\ [Next]_vars
      => ToPspInv'
  <2> SUFFICES ASSUME ToPspInv, TypeInv, OrderInv, SenderProofs!Inv,
                      [Next]_vars
               PROVE  ToPspInv'
    OBVIOUS
  <2>1. SteadyInv'
    BY SteadyStep DEF ToPspInv, TypeInv
  <2>2. ToPspUnmoved \/ Cutting \/ Offering \/ Clearing \/ Writing
    BY ToPspMoves DEF ToPspInv, TypeInv
  <2>3. Disturbed => Disturbed'
    BY StaysDisturbed, ReaderAssumption DEF TypeInv, NumbersOK
  <2>4. ~Disturbed' => Intact'
    BY <2>2, <2>3, IntactStep DEF ToPspInv
  <2>5. \A i \in 1..Len(outgoingQueue') : Cut(outgoingQueue'[i])
    BY <2>2, CutStep DEF ToPspInv
  <2>6. (\A i \in 1..Len(outgoingQueue) : Cut(outgoingQueue[i]))'
    BY <2>5 DEF Cut
  <2> QED
    BY <2>1, <2>4, <2>6 DEF ToPspInv
<1> QED
  BY <1>1, <1>2, TypeInvariance, OrderInvariance, SenderInvariance, PTL DEF Spec
-----------------------------------------------------------------------------

\* The frame the send thread is cutting, and those waiting in its queue.
InCut == IF Sender!Fragmenting THEN {sendFront.id} ELSE {}

NonEmptyIn(frames) ==
    {frames[i].id : i \in {n \in DOMAIN frames : frames[n].length > 0}}

\* The frames on their way to the PSP are in one of three places.
LEMMA ToPspPlaces ==
    ToPspChannel = FinishedIn(outgoingQueue) \cup InCut \cup NonEmptyIn(sendQueue)
BY DEF ToPspChannel, InCut, NonEmptyIn

\* Taking the first frame out of the queue, or putting one behind its end.
LEMMA NonEmptyMoves ==
    ASSUME NEW frames \in Seq(Message)
    PROVE  /\ frames # <<>> =>
                 NonEmptyIn(frames)
                     = NonEmptyIn(Tail(frames))
                       \cup (IF Head(frames).length > 0 THEN {Head(frames).id} ELSE {})
           /\ \A m \in Message :
                 NonEmptyIn(Append(frames, m))
                     = NonEmptyIn(frames) \cup (IF m.length > 0 THEN {m.id} ELSE {})
           /\ NonEmptyIn(<<>>) = {}
<1>1. ASSUME NEW other \in Seq(Message), NEW id
      PROVE  id \in NonEmptyIn(other)
                <=> \E i \in 1..Len(other) : other[i].length > 0 /\ other[i].id = id
  BY DEF NonEmptyIn
<1>2. ASSUME frames # <<>>
      PROVE  NonEmptyIn(frames)
                 = NonEmptyIn(Tail(frames))
                   \cup (IF Head(frames).length > 0 THEN {Head(frames).id} ELSE {})
  <2> DEFINE rest == Tail(frames)
             first == Head(frames)
  <2>1. /\ rest \in Seq(Message)
        /\ Len(frames) \in Nat /\ Len(rest) = Len(frames) - 1
        /\ \A i \in 1..Len(rest) : rest[i] = frames[i + 1]
        /\ 1 \in 1..Len(frames) /\ frames[1] = first
    BY <1>2
  <2> HIDE DEF rest, first
  <2>2. ASSUME NEW i \in 1..Len(frames)
        PROVE  i = 1 \/ (i - 1 \in 1..Len(rest) /\ frames[i] = rest[i - 1])
    BY <2>1
  <2>3. \A i \in 1..Len(rest) : i + 1 \in 1..Len(frames) /\ rest[i] = frames[i + 1]
    BY <2>1
  <2>4. ASSUME NEW id
        PROVE  id \in NonEmptyIn(frames)
                  <=> id \in NonEmptyIn(rest) \/ (first.length > 0 /\ id = first.id)
    <3>1. id \in NonEmptyIn(frames)
             <=> \E i \in 1..Len(frames) : frames[i].length > 0 /\ frames[i].id = id
      BY <1>1
    <3>2. id \in NonEmptyIn(rest)
             <=> \E i \in 1..Len(rest) : rest[i].length > 0 /\ rest[i].id = id
      BY <1>1, <2>1
    <3> QED
      BY <2>1, <2>2, <2>3, <3>1, <3>2
  <2>5. ASSUME NEW id
        PROVE  id \in (IF first.length > 0 THEN {first.id} ELSE {})
                  <=> first.length > 0 /\ id = first.id
    OBVIOUS
  <2> QED
    BY <2>4, <2>5 DEF rest, first
<1>3. ASSUME NEW m \in Message
      PROVE  NonEmptyIn(Append(frames, m))
                 = NonEmptyIn(frames) \cup (IF m.length > 0 THEN {m.id} ELSE {})
  <2> DEFINE longer == Append(frames, m)
  <2>1. /\ longer \in Seq(Message)
        /\ Len(frames) \in Nat /\ Len(longer) = Len(frames) + 1
        /\ \A i \in 1..Len(frames) : longer[i] = frames[i]
        /\ longer[Len(longer)] = m
    OBVIOUS
  <2> HIDE DEF longer
  <2>2. ASSUME NEW id
        PROVE  id \in NonEmptyIn(longer)
                  <=> id \in NonEmptyIn(frames) \/ (m.length > 0 /\ id = m.id)
    BY <1>1, <2>1
  <2>3. ASSUME NEW id
        PROVE  id \in (IF m.length > 0 THEN {m.id} ELSE {})
                  <=> m.length > 0 /\ id = m.id
    OBVIOUS
  <2> QED
    BY <2>2, <2>3 DEF longer
<1>4. NonEmptyIn(<<>>) = {}
  BY DEF NonEmptyIn
<1> QED
  BY <1>2, <1>3, <1>4

\* What a run of packets delivers.
OutOf(packets) ==
    [i \in {n \in DOMAIN packets : CompleteAt(packets, n)} |-> packets[i].msg.id]

\* The frame id comes out at moment, after those in delivered.
Extended(delivered, moment, id) ==
    [at \in DOMAIN delivered \cup {moment} |->
        IF at = moment THEN id ELSE delivered[at]]

\* One more packet delivers its frame when that is complete with it, and changes
\* nothing of what came before.
LEMMA OutOfAppend ==
    ASSUME NEW packets \in Seq(Fragments), NEW packet \in Fragments,
           NEW longer, longer = Append(packets, packet)
    PROVE  /\ CompleteAt(longer, Len(packets) + 1) =>
                 /\ Len(packets) + 1 \in DOMAIN OutOf(longer)
                 /\ \A earlier \in DOMAIN OutOf(packets) : earlier < Len(packets) + 1
                 /\ OutOf(longer)
                       = Extended(OutOf(packets), Len(packets) + 1, packet.msg.id)
           /\ ~CompleteAt(longer, Len(packets) + 1) => OutOf(longer) = OutOf(packets)
<1> DEFINE last == Len(packets)
<1>1. /\ last \in Nat /\ DOMAIN packets = 1..last
      /\ DOMAIN longer = 1..(last + 1)
      /\ \A i \in 1..last : longer[i] = packets[i]
      /\ longer[last + 1] = packet
  OBVIOUS
<1> HIDE DEF last
<1>2. ASSUME NEW i \in 1..last
      PROVE  CompleteAt(longer, i) <=> CompleteAt(packets, i)
  <2>1. i \in Nat /\ \A k \in 1..i : longer[k] = packets[k] /\ packets[k] = longer[k]
    BY <1>1
  <2>2. Started(longer, i) <=> Started(packets, i)
    BY <2>1, StartedSame
  <2>3. longer[i] = packets[i]
    BY <1>1
  <2> QED
    BY <2>2, <2>3 DEF CompleteAt, Started
<1> DEFINE before == {n \in 1..last : CompleteAt(packets, n)}
           after  == {n \in 1..(last + 1) : CompleteAt(longer, n)}
<1>3. /\ OutOf(packets) = [i \in before |-> packets[i].msg.id]
      /\ OutOf(longer) = [i \in after |-> longer[i].msg.id]
  BY <1>1 DEF OutOf
<1>4. after = IF CompleteAt(longer, last + 1) THEN before \cup {last + 1} ELSE before
  <2>1. \A i \in 1..(last + 1) : i \in 1..last \/ i = last + 1
    BY <1>1
  <2>2. \A i \in 1..last : i \in 1..(last + 1)
    BY <1>1
  <2>3. last + 1 \in 1..(last + 1)
    BY <1>1
  <2> QED
    BY <1>2, <2>1, <2>2, <2>3
<1>5. \A i \in before : i \in 1..last /\ i < last + 1 /\ longer[i] = packets[i]
  BY <1>1
<1> HIDE DEF before, after
<1>6. CASE CompleteAt(longer, last + 1)
  <2>1. DOMAIN OutOf(packets) = before /\ after = before \cup {last + 1}
    BY <1>3, <1>4, <1>6
  <2>2. \A i \in after : longer[i].msg.id =
            IF i = last + 1 THEN packet.msg.id ELSE OutOf(packets)[i]
    BY <1>1, <1>3, <1>5, <2>1
  <2>3. OutOf(longer) = [at \in before \cup {last + 1} |->
                            IF at = last + 1 THEN packet.msg.id
                                             ELSE OutOf(packets)[at]]
    <3>1. OutOf(longer) = [at \in before \cup {last + 1} |-> longer[at].msg.id]
      BY <1>3, <2>1
    <3>2. \A at \in before \cup {last + 1} :
              longer[at].msg.id = IF at = last + 1 THEN packet.msg.id
                                                   ELSE OutOf(packets)[at]
      BY <2>1, <2>2
    <3> QED
      BY <3>1, <3>2
  <2>4. last + 1 \in DOMAIN OutOf(longer)
    BY <2>3
  <2> QED
    BY <1>5, <1>6, <2>1, <2>3, <2>4 DEF last, Extended
<1>7. CASE ~CompleteAt(longer, last + 1)
  <2>1. after = before
    BY <1>4, <1>7
  <2>2. OutOf(longer) = OutOf(packets)
    BY <1>3, <1>5, <2>1
  <2> QED
    BY <1>7, <2>2 DEF last
<1> QED
  BY <1>6, <1>7

-----------------------------------------------------------------------------

\* A step that shows no frame come or go is one of FrameChannel, or none.
LEMMA ToPspQuiet ==
    ASSUME Disturbed => Disturbed',
           kaiOffered' = kaiOffered,
           ToPspChannel' = ToPspChannel,
           ToPspDelivered' = ToPspDelivered
    PROVE  [ToPsp!Next]_(ToPsp!vars)
<1>1. Disturbed \in BOOLEAN /\ Disturbed' \in BOOLEAN
  BY DEF Disturbed
<1>2. CASE Disturbed' = Disturbed
  BY <1>2 DEF ToPsp!vars
<1>3. CASE Disturbed' # Disturbed
  <2>1. Disturbed' = TRUE
    BY <1>1, <1>3
  <2>2. ToPsp!Lose
    BY <2>1 DEF ToPsp!Lose
  <2> QED
    BY <2>2 DEF ToPsp!Next
<1> QED
  BY <1>2, <1>3

\* The send thread takes a frame along as it takes it out of its queue and cuts
\* it into packets.
LEMMA ToPspCutting ==
    ASSUME SenderProofs!Inv, Cutting
    PROVE  ToPspChannel' = ToPspChannel
<1>1. /\ sendQueue \in Seq(Message) /\ outgoingQueue \in Seq(Fragments)
      /\ sendFront \in Message /\ sendIndex \in Nat
  BY SenderFacts DEF Message
<1>2. CASE Sender!PopFront
  <2>1. /\ sendQueue # <<>>
        /\ sendFront' = Head(sendQueue) /\ sendIndex' = 0
        /\ sendQueue' = Tail(sendQueue) /\ outgoingQueue' = outgoingQueue
        /\ ~Sender!Fragmenting
    BY <1>2 DEF Sender!PopFront
  <2>2. NonEmptyIn(sendQueue) = NonEmptyIn(sendQueue') \cup InCut' /\ InCut = {}
    BY <1>1, <2>1, NonEmptyMoves DEF InCut, Sender!Fragmenting
  <2> QED
    BY <2>1, <2>2, ToPspPlaces DEF ToPspChannel, InCut, NonEmptyIn
<1>3. CASE Sender!PushFragment
  <2> DEFINE packet == Fragment(sendFront, sendIndex)
  <2>1. /\ sendIndex < sendFront.length
        /\ outgoingQueue' = Append(outgoingQueue, packet)
        /\ sendIndex' = sendIndex + packet.payload
        /\ sendFront' = sendFront /\ sendQueue' = sendQueue
    BY <1>3, SameFragment DEF Sender!PushFragment, Sender!Fragmenting
  <2>2. /\ packet \in Fragments /\ packet.msg = sendFront
        /\ packet.stitch <=> sendIndex' < sendFront.length
    BY <1>1, <2>1, FragmentProgress
  <2> HIDE DEF packet
  <2>3. FinishedIn(outgoingQueue') =
            FinishedIn(outgoingQueue) \cup (IF packet.stitch THEN {} ELSE {sendFront.id})
    BY <1>1, <2>1, <2>2, FinishedAppend
  <2>4. /\ InCut = {sendFront.id}
        /\ InCut' = IF packet.stitch THEN {sendFront.id} ELSE {}
    BY <2>1, <2>2 DEF InCut, Sender!Fragmenting
  <2>5. FinishedIn(outgoingQueue') \cup InCut' = FinishedIn(outgoingQueue) \cup InCut
    BY <2>3, <2>4
  <2> QED
    BY <2>1, <2>5 DEF ToPspChannel, InCut
<1> QED
  BY <1>2, <1>3 DEF Cutting

\* A frame from XLink Kai gets a number and is taken or dropped.
LEMMA ToPspOffering ==
    ASSUME SenderProofs!Inv, Offering
    PROVE  ToPsp!Offer
<1>1. PICK length \in KaiLengths :
          Sender!AddToQueue([id |-> kaiOffered + 1, length |-> length])
  BY DEF Offering, Sender!Offer
<1> DEFINE m == [id |-> kaiOffered + 1, length |-> length]
<1>2. /\ sendQueue' \in {sendQueue, Append(sendQueue, m)}
      /\ kaiOffered' = kaiOffered + 1
      /\ UNCHANGED <<outgoingQueue, sendFront, sendIndex, written, Disturbed>>
  BY <1>1 DEF Offering, Sender!AddToQueue, Sender!threadVars
<1>3. m \in Message
  <2>1. length \in 0..cMaxAsynchronousBuffer /\ cMaxAsynchronousBuffer \in Nat
    BY ReaderAssumption, FramingAssumption
  <2>2. kaiOffered \in Nat
    BY DEF SenderProofs!Inv, SenderProofs!TypeOK
  <2> QED
    BY <2>1, <2>2 DEF Message
<1>4. m.id = kaiOffered'
  BY <1>2
<1> HIDE DEF m
<1>5. NonEmptyIn(sendQueue') \in {NonEmptyIn(sendQueue),
                                  NonEmptyIn(sendQueue) \cup {kaiOffered'}}
  <2>1. sendQueue \in Seq(Message)
    BY SenderFacts DEF Offering
  <2>2. NonEmptyIn(Append(sendQueue, m)) =
            NonEmptyIn(sendQueue) \cup (IF m.length > 0 THEN {kaiOffered'} ELSE {})
    BY <1>3, <1>4, <2>1, NonEmptyMoves
  <2>3. NonEmptyIn(Append(sendQueue, m)) \in
            {NonEmptyIn(sendQueue), NonEmptyIn(sendQueue) \cup {kaiOffered'}}
    BY <2>2
  <2> QED
    BY <1>2, <2>3
<1>6. ToPspChannel' = FinishedIn(outgoingQueue) \cup InCut \cup NonEmptyIn(sendQueue')
  BY <1>2 DEF ToPspChannel, InCut, NonEmptyIn, Sender!Fragmenting
<1>7. ToPspChannel' \in {ToPspChannel, ToPspChannel \cup {kaiOffered'}}
  BY <1>5, <1>6, ToPspPlaces
<1>8. ToPspDelivered' = ToPspDelivered
  BY <1>2 DEF ToPspDelivered
<1> QED
  BY <1>2, <1>7, <1>8 DEF ToPsp!Offer

\* When the last packet of a frame is the first one in the outgoing queue all
\* other frames on their way are later.
LEMMA HeadIsFirst ==
    ASSUME SenderProofs!Inv, OrderInv,
           \A i \in 1..Len(outgoingQueue) : Cut(outgoingQueue[i]),
           outgoingQueue # <<>>, ~Head(outgoingQueue).stitch
    PROVE  \A id \in FinishedIn(Tail(outgoingQueue)) \cup InCut \cup NonEmptyIn(sendQueue) :
               id \in Nat /\ Head(outgoingQueue).msg.id < id
<1> DEFINE first == Head(outgoingQueue)
           rest  == Tail(outgoingQueue)
<1>1. /\ outgoingQueue \in Seq(Fragments)
      /\ sendQueue \in Seq(Message) /\ Len(sendQueue) \in Nat
      /\ sendFront \in Message /\ sendIndex \in Nat
      /\ \A i \in 1..Len(sendQueue) : sendFront.id < sendQueue[i].id
  BY SenderFacts DEF Message
<1>2. /\ 1 \in 1..Len(outgoingQueue) /\ first = outgoingQueue[1]
      /\ rest \in Seq(Fragments) /\ first \in Fragments
      /\ \A i \in 1..Len(rest) :
            /\ i + 1 \in 1..Len(outgoingQueue) /\ 1 < i + 1
            /\ rest[i] = outgoingQueue[i + 1] /\ rest[i] \in Fragments
  BY <1>1
<1> HIDE DEF first, rest
<1>3. /\ EndOf(first) = first.msg.length
      /\ first.msg \in Message /\ first.msg.id \in Nat /\ first.msg.length \in Nat
  <2>1. Cut(first) /\ ~first.stitch
    BY <1>2 DEF first
  <2>2. /\ first.msg \in Message /\ first.msg.id \in Nat /\ first.msg.length \in Nat
        /\ EndOf(first) \in Int
    BY <1>2 DEF Fragments, Message, EndOf
  <2> QED
    BY <2>1, <2>2 DEF Cut
<1>4. Passed(first)
  BY <1>2 DEF OrderInv, PacketsInOrder
<1>5. ASSUME NEW i \in 1..Len(rest)
      PROVE  rest[i].msg.id \in Nat /\ first.msg.id < rest[i].msg.id
  <2>1. Before(first, rest[i]) /\ Cut(rest[i])
    BY <1>2 DEF OrderInv, PacketsInOrder
  <2>2. /\ rest[i].msg.id \in Nat /\ rest[i].from \in Int /\ rest[i].payload \in Int
        /\ EndOf(rest[i]) = rest[i].from + rest[i].payload
    BY <1>2 DEF Fragments, Message, EndOf
  <2>3. rest[i].msg # first.msg \/ ~(EndOf(first) <= rest[i].from)
    BY <1>3, <2>1, <2>2 DEF Cut
  <2> QED
    BY <2>1, <2>2, <2>3 DEF Before
<1>6. ASSUME NEW id \in FinishedIn(rest)
      PROVE  id \in Nat /\ first.msg.id < id
  BY <1>2, <1>5, FinishedMember
<1>7. ASSUME NEW id \in InCut
      PROVE  id \in Nat /\ first.msg.id < id
  <2>1. id = sendFront.id /\ sendIndex < sendFront.length
    BY DEF InCut, Sender!Fragmenting
  <2>2. sendFront.id \in Nat /\ sendFront.length \in Nat
    BY <1>1 DEF Message
  <2> QED
    BY <1>1, <1>3, <1>4, <2>1, <2>2 DEF Passed
<1>8. ASSUME NEW id \in NonEmptyIn(sendQueue)
      PROVE  id \in Nat /\ first.msg.id < id
  <2>1. PICK i \in 1..Len(sendQueue) : id = sendQueue[i].id
    BY <1>1 DEF NonEmptyIn
  <2>2. sendQueue[i] \in Message /\ sendFront.id < sendQueue[i].id
    BY <1>1
  <2>3. sendQueue[i].id \in Nat /\ sendFront.id \in Nat
    BY <1>1, <2>2 DEF Message
  <2>4. first.msg.id <= sendFront.id
    BY <1>3, <1>4, <2>3 DEF Passed
  <2> QED
    BY <1>3, <2>1, <2>2, <2>3, <2>4
<1> QED
  BY <1>6, <1>7, <1>8 DEF first, rest

\* Until the channel is disturbed the last packet of a frame completes it.
LEMMA WrittenComplete ==
    ASSUME SenderProofs!Inv, OrderInv, Intact,
           outgoingQueue # <<>>, ~Head(outgoingQueue).stitch,
           written' = Append(written, Head(outgoingQueue))
    PROVE  CompleteAt(written', Len(written) + 1)
<1> DEFINE last == Len(written) + 1
<1>1. /\ written \in Seq(Fragments) /\ outgoingQueue \in Seq(Fragments)
      /\ Len(written) \in Nat /\ Head(outgoingQueue) \in Fragments
      /\ last \in Nat
  BY PacketsFacts
<1>2. /\ \A k \in 1..last : written'[k] = Packets[k]
      /\ last \in 1..Len(Packets)
      /\ written'[last] = Head(outgoingQueue)
  <2>1. /\ Len(Packets) = Len(written) + Len(outgoingQueue)
        /\ Len(outgoingQueue) \in Nat /\ Len(outgoingQueue) > 0
        /\ \A k \in 1..Len(Packets) :
              Packets[k] = IF k <= Len(written) THEN written[k]
                                                ELSE outgoingQueue[k - Len(written)]
        /\ Head(outgoingQueue) = outgoingQueue[1]
    BY <1>1 DEF Packets
  <2>2. /\ \A k \in 1..Len(written) : written'[k] = written[k]
        /\ written'[last] = Head(outgoingQueue)
    BY <1>1
  <2>3. last \in 1..Len(Packets) /\ ~(last <= Len(written)) /\ last - Len(written) = 1
    BY <1>1, <2>1
  <2>4. ASSUME NEW k \in 1..last
        PROVE  written'[k] = Packets[k]
    <3>1. CASE k = last
      BY <2>1, <2>2, <2>3, <3>1
    <3>2. CASE k # last
      <4>1. k \in 1..Len(written) /\ k \in 1..Len(Packets) /\ k <= Len(written)
        BY <1>1, <2>1, <3>2
      <4> QED
        BY <2>1, <2>2, <4>1
    <3> QED
      BY <3>1, <3>2
  <2> QED
    BY <2>2, <2>3, <2>4
<1>3. Started(Packets, last)
  BY <1>2 DEF Intact
<1> HIDE DEF last
<1>4. Started(written', last)
  BY <1>1, <1>2, <1>3, StartedSame
<1> QED
  BY <1>2, <1>4 DEF CompleteAt, Started, last

\* A packet that is written delivers its frame, takes it along, or loses it.
LEMMA ToPspWriting ==
    ASSUME ToPspInv, SenderProofs!Inv, OrderInv, Writing, Disturbed => Disturbed'
    PROVE  [ToPsp!Next]_(ToPsp!vars)
<1> DEFINE packet == Head(outgoingQueue)
           last == Len(written) + 1
<1>1. /\ outgoingQueue # <<>> /\ outgoingQueue' = Tail(outgoingQueue)
      /\ UNCHANGED <<sendQueue, sendFront, sendIndex, kaiOffered>>
      /\ written' = Append(written, packet) \/ (UNCHANGED written /\ Disturbed')
  BY DEF Writing
<1>2. /\ written \in Seq(Fragments) /\ outgoingQueue \in Seq(Fragments)
      /\ packet \in Fragments
      /\ \A i \in 1..Len(outgoingQueue) : Cut(outgoingQueue[i])
      /\ Disturbed \in BOOLEAN /\ Disturbed' \in BOOLEAN
  BY <1>1, PacketsFacts DEF ToPspInv, Disturbed
<1>3. /\ ToPspDelivered = OutOf(written) /\ ToPspDelivered' = OutOf(written')
  BY DEF ToPspDelivered, OutOf
<1>4. /\ ToPspChannel = FinishedIn(outgoingQueue) \cup InCut \cup NonEmptyIn(sendQueue)
      /\ ToPspChannel' = FinishedIn(Tail(outgoingQueue)) \cup InCut \cup NonEmptyIn(sendQueue)
      /\ FinishedIn(outgoingQueue) = FinishedIn(Tail(outgoingQueue))
             \cup (IF packet.stitch THEN {} ELSE {packet.msg.id})
  BY <1>1, <1>2, FinishedTail DEF ToPspChannel, InCut, NonEmptyIn, Sender!Fragmenting
<1>5. ASSUME written' = Append(written, packet)
      PROVE  /\ CompleteAt(written', last) =>
                   /\ last \in DOMAIN OutOf(written')
                   /\ \A earlier \in DOMAIN OutOf(written) : earlier < last
                   /\ OutOf(written') = Extended(OutOf(written), last, packet.msg.id)
             /\ ~CompleteAt(written', last) => OutOf(written') = OutOf(written)
  <2> HIDE DEF packet
  <2> QED
    BY <1>2, <1>5, OutOfAppend
<1>6. CASE UNCHANGED written /\ Disturbed'
  <2>1. ToPspChannel' \subseteq ToPspChannel /\ ToPspDelivered' = ToPspDelivered
    BY <1>3, <1>4, <1>6
  <2>2. ToPsp!Lose
    BY <1>1, <1>2, <1>6, <2>1 DEF ToPsp!Lose
  <2> QED
    BY <2>2 DEF ToPsp!Next
<1>7. CASE written' = Append(written, packet) /\ ~CompleteAt(written', last)
  <2>1. ToPspDelivered' = ToPspDelivered
    BY <1>3, <1>7, <1>5
  <2>2. CASE packet.stitch
    <3>1. ToPspChannel' = ToPspChannel
      BY <1>4, <2>2
    <3> QED
      BY <1>1, <2>1, <3>1, ToPspQuiet
  <2>3. CASE ~packet.stitch
    <3>1. Disturbed
      BY <1>1, <1>7, <2>3, WrittenComplete DEF ToPspInv
    <3>2. ToPspChannel' \subseteq ToPspChannel /\ Disturbed' = TRUE
      BY <1>2, <1>4, <3>1
    <3>3. ToPsp!Lose
      BY <1>1, <2>1, <3>2 DEF ToPsp!Lose
    <3> QED
      BY <3>3 DEF ToPsp!Next
  <2> QED
    BY <2>2, <2>3
<1>8. CASE written' = Append(written, packet) /\ CompleteAt(written', last)
  <2> DEFINE id == packet.msg.id
  <2>1. ~packet.stitch
    <3>1. written'[last] = packet
      BY <1>2, <1>8
    <3> QED
      BY <1>8, <3>1 DEF CompleteAt
  <2>2. \A other \in ToPspChannel' : other \in Nat /\ id < other
    BY <1>1, <1>2, <1>4, <2>1, HeadIsFirst
  <2>3. ToPspChannel = ToPspChannel' \cup {id} /\ id \in Nat
    BY <1>2, <1>4, <2>1 DEF Fragments, Message
  <2>4. /\ id \in ToPspChannel
        /\ \A other \in ToPspChannel : id <= other
        /\ ToPspChannel' = ToPspChannel \ {id}
    <3> HIDE DEF id
    <3>1. \A other \in ToPspChannel : id <= other
      BY <2>2, <2>3
    <3>2. id \notin ToPspChannel'
      BY <2>2, <2>3
    <3> QED
      BY <2>3, <3>1, <3>2
  <2>5. ToPsp!ComesOut(id)
    <3>1. /\ last \in DOMAIN OutOf(written')
          /\ \A earlier \in DOMAIN OutOf(written) : earlier < last
          /\ OutOf(written') = Extended(OutOf(written), last, id)
      BY <1>8, <1>5
    <3> HIDE DEF id, last
    <3> QED
      BY <1>3, <3>1 DEF Extended, ToPsp!ComesOut
  <2>6. Disturbed' \in {Disturbed, TRUE}
    BY <1>2
  <2>7. ToPsp!Deliver
    <3> HIDE DEF id
    <3> QED
      BY <1>1, <2>4, <2>5, <2>6 DEF ToPsp!Deliver
  <2> QED
    BY <2>7 DEF ToPsp!Next
<1> QED
  BY <1>1, <1>6, <1>7, <1>8

\* Every step of the program is one of FrameChannel, or none.
LEMMA ToPspStep ==
    ASSUME OnlyFaultsRestart, TypeInv, ToPspInv, SenderProofs!Inv, OrderInv,
           [Next]_vars
    PROVE  [ToPsp!Next]_(ToPsp!vars)
<1>1. Disturbed => Disturbed'
  BY StaysDisturbed, ReaderAssumption DEF TypeInv, NumbersOK
<1>2. ToPspUnmoved \/ Cutting \/ Offering \/ Clearing \/ Writing
  BY ToPspMoves DEF TypeInv, ToPspInv
<1>3. CASE ToPspUnmoved
  <2>1. UNCHANGED <<sendQueue, outgoingQueue, sendFront, sendIndex, kaiOffered, written>>
    BY <1>3 DEF ToPspUnmoved
  <2>2. ToPspChannel' = ToPspChannel /\ ToPspDelivered' = ToPspDelivered
    BY <2>1 DEF ToPspChannel, ToPspDelivered, Sender!Fragmenting
  <2> QED
    BY <1>1, <2>1, <2>2, ToPspQuiet
<1>4. CASE Cutting
  <2>1. UNCHANGED <<kaiOffered, written>>
    BY <1>4 DEF Cutting, Sender!PopFront, Sender!PushFragment
  <2>2. ToPspChannel' = ToPspChannel
    BY <1>4, ToPspCutting
  <2>3. ToPspDelivered' = ToPspDelivered
    BY <2>1 DEF ToPspDelivered
  <2> QED
    BY <1>1, <2>1, <2>2, <2>3, ToPspQuiet
<1>5. CASE Offering
  BY <1>5, ToPspOffering DEF ToPsp!Next
<1>6. CASE Clearing
  <2>1. /\ sendQueue' = <<>> /\ outgoingQueue' = <<>>
        /\ UNCHANGED <<sendFront, sendIndex, kaiOffered, written>> /\ Disturbed'
    BY <1>6 DEF Clearing
  <2>2. ToPspChannel' = InCut
    BY <2>1, FinishedOne, SenderFacts, NonEmptyMoves
       DEF ToPspChannel, InCut, NonEmptyIn, Sender!Fragmenting
  <2>3. ToPspChannel' \subseteq ToPspChannel
    BY <2>2, ToPspPlaces
  <2>4. ToPspDelivered' = ToPspDelivered
    BY <2>1 DEF ToPspDelivered
  <2>5. Disturbed' = TRUE
    BY <2>1 DEF Disturbed
  <2>6. ToPsp!Lose
    BY <2>1, <2>3, <2>4, <2>5 DEF ToPsp!Lose
  <2> QED
    BY <2>6 DEF ToPsp!Next
<1>7. CASE Writing
  BY <1>1, <1>7, ToPspWriting
<1> QED
  BY <1>2, <1>3, <1>4, <1>5, <1>6, <1>7

\* At the start the channel is empty.
LEMMA ToPspInit ==
    ASSUME Init
    PROVE  ToPsp!Init
<1>1. /\ sendQueue = <<>> /\ outgoingQueue = <<>> /\ written = <<>>
      /\ sendFront.length = 0 /\ sendIndex = 0 /\ kaiOffered = 0
      /\ main = "opening" /\ faults = MaxFaults
  BY DEF Init, Sender!Init, Sender!NoMessage
<1>2. ToPspChannel = {}
  BY <1>1, FinishedOne DEF ToPspChannel, Sender!Fragmenting
<1>3. ToPspDelivered = [moment \in {} |-> 0]
  BY <1>1 DEF ToPspDelivered
<1>4. Disturbed = FALSE
  BY <1>1, ReaderAssumption DEF Disturbed
<1> QED
  BY <1>1, <1>2, <1>3, <1>4 DEF ToPsp!Init

\* ToPspRefinesChannel: the send thread and the USB thread together are a channel
\* from XLink Kai to the PSP that delivers every frame it takes whole, once and in
\* order; faults may make it lose frames, but whatever fails and is reset it never
\* delivers anything else than frames it took, and nothing twice.
THEOREM ReaderImplementsToPsp ==
    ASSUME OnlyFaultsRestart
    PROVE  Spec => ToPspRefinesChannel
<1>1. TypeInv /\ ToPspInv /\ SenderProofs!Inv /\ OrderInv /\ [Next]_vars
      => [ToPsp!Next]_(ToPsp!vars)
  BY ToPspStep
<1>2. Init => ToPsp!Init
  BY ToPspInit
<1> QED
  BY <1>1, <1>2, TypeInvariance, ToPspInvariance, OrderInvariance,
     SenderInvariance, PTL DEF Spec, ToPspRefinesChannel, ToPsp!Spec
=============================================================================
