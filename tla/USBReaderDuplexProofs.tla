----------------------- MODULE USBReaderDuplexProofs -----------------------
(***************************************************************************)
(* How the USB thread shares the pipe with the PSP while nothing goes      *)
(* wrong: the two ends never are in the middle of a frame in both          *)
(* directions, and what comes from the PSP reaches XLink Kai in whole      *)
(* frames, for any packet size, any frames and any interleaving.           *)
(*                                                                         *)
(* What "nothing goes wrong" means is FaultFree; each of its three parts   *)
(* is needed, as the runs short_tail and reset_race show.                  *)
(***************************************************************************)
EXTENDS USBReaderProofs

\* The last packet of a frame of the PSP is long enough to be looked at by
\* ReceiveCallback: rest is what is left of the frame when it has sent one
\* packet with a subheader and k without.
NoShortTail ==
    \A length \in PspLengths : \A k \in 0..length :
        LET rest == length - (Room(0) + k * Room(1))
        IN  rest > 0 => cAsyncHeaderSize + rest >= cHostFSHeaderSize

\* No transfer fails, nothing is unplugged, and the PSP sends no command that
\* makes the USB thread start over.
FaultFree == MaxFaults = 0 /\ "rude" \notin PspSignals /\ NoShortTail

\* Without a fault the USB thread never starts over: while it looks for errors
\* it has a device that works.
Calm ==
    /\ plugged
    /\ faults = 0
    /\ mDeviceHandle # "stale"
    /\ mRetryCounter = 0
    /\ usbThread = "errors" => mUSBCheckSuccessful
    /\ usbThread \in {"body", "errors"} => mDeviceHandle = "open"
    /\ mError => mDeviceHandle = "null"
    /\ main = "opening" => usbThread = "none" /\ ~mError

\* The reader is as far in the PSP's frame as the PSP is.
InStep ==
    /\ mReceiveStitching <=> pspIndex < pspFrame.length
    /\ mReceiveStitching =>
          /\ mStitchingLength = pspIndex
          /\ mActualLength = pspFrame.length
          /\ pspFrame.length \in PspLengths
          /\ pspIndex > 0
          /\ \E k \in 0..pspIndex : pspIndex = Room(0) + k * Room(1)

\* Until the device is let go the flag tells whether the PSP has got only a part
\* of a frame.
LastWritten ==
    mDeviceHandle = "open" \/ main = "opening" =>
        (mSendStitching <=> (written # <<>> /\ written[Len(written)].stitch))

\* Why HalfDuplex holds: with the device the two flags of the USB thread tell
\* both ends' state, and they are never set together; without it nothing moves.
DuplexInv == Calm /\ InStep /\ LastWritten /\ HalfDuplex

-----------------------------------------------------------------------------

\* The room for a frame's bytes in a packet is a positive number.
LEMMA RoomOK ==
    /\ Room(0) \in Nat /\ Room(0) > 0
    /\ Room(1) \in Nat /\ Room(1) > 0
    /\ \A index \in Nat : index > 0 => Room(index) = Room(1)
BY FramingAssumption DEF Room, HeaderLength, cAsyncHeaderAndSubHeaderSize

\* No fault is left.
LEMMA NoFault == Calm => ~Fault
BY DEF Calm, Fault

\* HandleError has no reason to run.
LEMMA NoRestart == Calm => ~HandleError
BY DEF Calm, HandleError

\* No step disturbs it.
LEMMA CalmStep ==
    ASSUME FaultFree, FlagsOK, Calm, [Next]_vars
    PROVE  Calm'
<1> USE DEF Calm, FlagsOK
<1>1. CASE LoopCondition
  BY <1>1 DEF LoopCondition, counterVars, cableVars
<1>2. CASE StopBranch
  BY <1>2 DEF StopBranch, HandleClose, counterVars, cableVars
<1>3. CASE CheckDevice
  <2>1. /\ mUSBCheckSuccessful'
        /\ usbThread = "body" /\ usbThread' = "errors"
        /\ UNCHANGED <<mDeviceHandle, mRetryCounter, mError, main, plugged, faults>>
    BY <1>3, NoFault DEF CheckDevice, USBCheckDevice, counterVars
  <2> QED
    BY <2>1
<1>4. CASE BailOut
  <2>1. /\ mDeviceHandle' = "null" /\ mRetryCounter' = 0
        /\ usbThread = "errors" /\ usbThread' \in {"loop", "write", "read"}
        /\ UNCHANGED <<mUSBCheckSuccessful, mError, main, plugged, faults>>
    BY <1>4 DEF BailOut, HandleClose, AfterErrors, AfterRead, cableVars
  <2> QED
    BY <2>1
<1>5. CASE NoError
  <2>1. /\ usbThread = "errors" /\ usbThread' \in {"loop", "write", "read"}
        /\ UNCHANGED <<mDeviceHandle, mRetryCounter, mUSBCheckSuccessful, mError,
                       main, plugged, faults>>
    BY <1>5 DEF NoError, AfterErrors, AfterRead, counterVars, cableVars
  <2> QED
    BY <2>1
<1>6. CASE ReadPacket
  <2>1. ~mError'
    BY <1>6, PacketRaisesNoError DEF FaultFree, ReadPacket, ReceiveCallback
  <2>2. /\ usbThread' \in {"loop", "write"}
        /\ mRetryCounter' = 0
        /\ usbThread = "read"
        /\ UNCHANGED <<mDeviceHandle, main, plugged, faults>>
    BY <1>6 DEF ReadPacket, AfterRead, cableVars
  <2> QED
    BY <2>1, <2>2
<1>7. CASE ReadTimeout \/ ReadFault \/ ReadNull
  <2>1. ~ReadFault
    BY NoFault DEF ReadFault
  <2>2. /\ usbThread = "read" /\ usbThread' \in {"loop", "write"}
        /\ mError' => mError \/ mDeviceHandle = "null"
        /\ UNCHANGED <<mDeviceHandle, mRetryCounter, main, plugged, faults>>
    <3>1. CASE ReadTimeout
      BY <3>1 DEF ReadTimeout, AfterRead, counterVars, cableVars
    <3>2. CASE ReadNull
      BY <3>2 DEF ReadNull, AfterRead, counterVars, cableVars
    <3> QED
      BY <1>7, <2>1, <3>1, <3>2
  <2> QED
    BY <2>2
<1>8. CASE WritePacket
  <2>1. /\ usbThread = "write" /\ usbThread' = "write"
        /\ mError' => mError \/ mDeviceHandle = "null"
        /\ UNCHANGED <<mDeviceHandle, mRetryCounter, main, plugged, faults>>
    BY <1>8, NoFault DEF WritePacket
  <2> QED
    BY <2>1
<1>9. CASE WriteDone
  BY <1>9 DEF WriteDone, counterVars, cableVars
<1>10. CASE MainOpen \/ MainGivesUp
  <2>1. /\ main = "opening" /\ main' \in {"opening", "closed"}
        /\ mDeviceHandle' \in {"open", "null"}
        /\ UNCHANGED <<mRetryCounter, mUSBCheckSuccessful, mError, usbThread,
                       plugged, faults>>
    BY <1>10 DEF MainOpen, MainGivesUp, HandleClose, counterVars, cableVars
  <2> QED
    BY <2>1
<1>11. CASE StartReceiverThread
  BY <1>11 DEF StartReceiverThread, counterVars, cableVars
<1>12. CASE Close \/ Closing
  <2>1. /\ main' # "opening"
        /\ usbThread' \in {usbThread, "none"}
        /\ UNCHANGED <<mDeviceHandle, mRetryCounter, mUSBCheckSuccessful, mError,
                       plugged, faults>>
    BY <1>12 DEF Close, Closing, JoinUsb, StopSender, JoinSender, StopReceiver,
       JoinReceiver, readerVars, counterVars, cableVars
  <2> QED
    BY <2>1
<1>13. CASE Unplug \/ Plug
  BY <1>13, NoFault DEF Unplug, Plug
<1>14. CASE SenderStep \/ ReceiverStep \/ Send \/ Finished \/ UNCHANGED vars
  <2>1. UNCHANGED <<mDeviceHandle, mRetryCounter, mUSBCheckSuccessful, mError,
                    usbThread, main, plugged, faults>>
    BY <1>14 DEF SenderStep, ReceiverStep, Send, Finished, vars, readerVars,
       counterVars, cableVars
  <2> QED
    BY <2>1
<1> HIDE DEF Calm
<1> QED
  BY <1>1, <1>2, <1>3, <1>4, <1>5, <1>6, <1>7, <1>8, <1>9, <1>10, <1>11, <1>12,
     <1>13, <1>14, NoRestart DEF Next, UsbStep

-----------------------------------------------------------------------------

\* The next packet of a frame the PSP is in the middle of: the reader sees where
\* it ends and whether it is the last one.
LEMMA ReadRest ==
    ASSUME FaultFree, TypeInv, InStep, pspIndex < pspFrame.length,
           NEW packet \in PspPackets, PspSends(packet), ReceiveCallback(packet)
    PROVE  /\ packet.kind = "async"
           /\ packet.piece = Fragment(pspFrame, pspIndex)
           /\ Receiver!AddToQueue(packet.piece)
           /\ pspFrame' = pspFrame
           /\ pspIndex' = EndOf(packet.piece)
           /\ InStep'
<1> DEFINE piece == Fragment(pspFrame, pspIndex)
           size  == PacketSize(piece)
           added == size - cAsyncHeaderSize
           total == mStitchingLength + added
           more  == /\ size > cMaxUSBPacketSize - cAsyncHeaderSize
                    /\ total < mActualLength
<1>1. packet = [kind |-> "async", piece |-> piece]
  BY DEF PspPackets
<1>2. packet.kind = "async" /\ packet.piece = piece
  BY <1>1
<1>3. /\ pspFrame' = piece.msg /\ pspIndex' = EndOf(piece)
      /\ piece.msg = pspFrame /\ piece.from = pspIndex
      /\ piece.payload = Payload(pspFrame.length, pspIndex)
      /\ piece.stitch = Stitch(pspFrame.length, pspIndex)
  BY <1>2 DEF PspSends, Fragment
<1>4. /\ pspFrame.length \in Nat /\ pspIndex \in Nat
      /\ mReceiveStitching /\ mStitchingLength = pspIndex
      /\ mActualLength = pspFrame.length
      /\ pspFrame.length \in PspLengths /\ pspIndex > 0
  BY DEF InStep, TypeInv, PspOK, Message
<1>5. Room(pspIndex) = Room(1) /\ HeaderLength(pspIndex) = cAsyncHeaderSize
  BY <1>4, RoomOK DEF HeaderLength
<1>6. Room(1) = cMaxUSBPacketSize - cAsyncHeaderSize
  BY DEF Room, HeaderLength
<1>7. /\ piece.payload \in Nat /\ piece.payload > 0
      /\ piece.stitch <=> pspFrame.length - pspIndex > Room(1)
      /\ piece.stitch => piece.payload = Room(1)
      /\ ~piece.stitch => piece.payload = pspFrame.length - pspIndex
  <2>1. Stitch(pspFrame.length, pspIndex) <=> pspFrame.length - pspIndex > Room(1)
    BY <1>5 DEF Stitch
  <2>2. Payload(pspFrame.length, pspIndex) =
            IF Stitch(pspFrame.length, pspIndex) THEN Room(1)
                                                 ELSE pspFrame.length - pspIndex
    BY <1>5 DEF Payload
  <2> HIDE DEF piece
  <2> QED
    BY <1>3, <1>4, <2>1, <2>2, RoomOK
<1>8. size = cAsyncHeaderSize + piece.payload
  BY <1>3, <1>5 DEF PacketSize
<1>9. PICK k \in 0..pspIndex : pspIndex = Room(0) + k * Room(1)
  BY <1>4 DEF InStep
<1>10. size >= cHostFSHeaderSize
  <2>1. CASE piece.stitch
    BY <2>1, <1>6, <1>7, <1>8, FramingAssumption DEF cAsyncHeaderAndSubHeaderSize
  <2>2. CASE ~piece.stitch
    <3>1. k \in 0..pspFrame.length
      BY <1>4, <1>9
    <3>2. LET rest == pspFrame.length - (Room(0) + k * Room(1))
          IN  rest > 0 => cAsyncHeaderSize + rest >= cHostFSHeaderSize
      BY <1>4, <3>1 DEF FaultFree, NoShortTail
    <3>3. pspFrame.length - pspIndex > 0 =>
              cAsyncHeaderSize + (pspFrame.length - pspIndex) >= cHostFSHeaderSize
      BY <1>9, <3>2
    <3> QED
      BY <2>2, <1>4, <1>7, <1>8, <3>3
  <2> QED
    BY <2>1, <2>2, <1>3 DEF Stitch
<1> HIDE DEF piece
<1>11. added = piece.payload /\ total = pspIndex + piece.payload
  BY <1>4, <1>7, <1>8, FramingAssumption
<1>12. more <=> piece.stitch
  BY <1>4, <1>6, <1>7, <1>8, <1>11, RoomOK, FramingAssumption
<1>13. HandleAsynchronous(packet)
  BY <1>2, <1>10 DEF ReceiveCallback
<1>14. /\ mReceiveStitching' = more
       /\ mStitchingLength' = IF more THEN total ELSE 0
       /\ Receiver!AddToQueue([msg |-> piece.msg, from |-> EndOf(piece) - added,
                               payload |-> added, stitch |-> more])
       /\ UNCHANGED mActualLength
  BY <1>2, <1>4, <1>13 DEF HandleAsynchronous
<1>15. EndOf(piece) = total /\ EndOf(piece) - added = piece.from
  BY <1>3, <1>4, <1>7, <1>11 DEF EndOf
<1>16. [msg |-> piece.msg, from |-> piece.from, payload |-> piece.payload,
        stitch |-> more] = piece
  <2>1. piece = [msg |-> piece.msg, from |-> piece.from, payload |-> piece.payload,
                 stitch |-> piece.stitch]
    BY DEF piece, Fragment
  <2>2. more \in BOOLEAN /\ piece.stitch \in BOOLEAN
    BY <1>3 DEF Stitch
  <2> HIDE DEF more
  <2> QED
    BY <1>12, <2>1, <2>2
<1> HIDE DEF more, added, total
<1>17. Receiver!AddToQueue(piece)
  BY <1>11, <1>14, <1>15, <1>16
<1>18. InStep'
  <2>1. pspIndex' = pspIndex + piece.payload /\ pspFrame' = pspFrame
    BY <1>3, <1>11, <1>15
  <2>2. mReceiveStitching' <=> pspIndex' < pspFrame'.length
    BY <1>4, <1>7, <1>12, <1>14, <2>1
  <2>3. ASSUME mReceiveStitching'
        PROVE  \E n \in 0..pspIndex' : pspIndex' = Room(0) + n * Room(1)
    <3>1. k \in Nat /\ k + 1 \in 0..pspIndex'
      BY <1>4, <1>7, <1>9, <2>1
    <3>2. (k + 1) * Room(1) = k * Room(1) + Room(1)
      BY <3>1, RoomOK
    <3>3. pspIndex' = Room(0) + (k + 1) * Room(1)
      <4>1. k * Room(1) \in Int
        BY <3>1, RoomOK
      <4> QED
        BY <1>7, <1>9, <1>12, <1>14, <2>1, <2>3, <3>2, <4>1, RoomOK
    <3> QED
      BY <3>1, <3>3
  <2>4. mReceiveStitching' => mStitchingLength' = pspIndex' /\ pspIndex' > 0
    BY <1>3, <1>4, <1>7, <1>14, <1>15, <2>1
  <2> QED
    BY <1>4, <1>14, <2>1, <2>2, <2>3, <2>4 DEF InStep
<1> QED
  BY <1>2, <1>3, <1>17, <1>18 DEF piece

\* Between frames the first packet of the next one is taken for what it is, and
\* any other packet leaves the transfer and the receive thread alone.
LEMMA ReadNext ==
    ASSUME FaultFree, TypeInv, InStep, ~(pspIndex < pspFrame.length),
           NEW packet \in PspPackets, PspSends(packet), ReceiveCallback(packet)
    PROVE  /\ InStep'
           /\ \/ UNCHANGED <<receiverVars, pspFrame, pspIndex>>
              \/ /\ Receiver!AddToQueue(packet.piece)
                 /\ packet.piece = Fragment(pspFrame', 0)
                 /\ pspFrame' \in Message
                 /\ pspFrame'.id = pspFrame.id + 1
                 /\ pspFrame'.length \in PspLengths
                 /\ pspIndex' = EndOf(packet.piece)
<1>1. pspFrame.id \in Nat /\ pspFrame.length \in Nat /\ ~mReceiveStitching
  BY DEF InStep, TypeInv, PspOK, Message
<1>2. CASE \E length \in PspLengths :
              packet = [kind  |-> "async",
                        piece |-> Fragment([id |-> pspFrame.id + 1,
                                            length |-> length], 0)]
  <2>1. PICK length \in PspLengths :
            packet = [kind  |-> "async",
                      piece |-> Fragment([id |-> pspFrame.id + 1,
                                          length |-> length], 0)]
    BY <1>2
  <2> DEFINE m == [id |-> pspFrame.id + 1, length |-> length]
             piece == Fragment(m, 0)
             first == m.length > cMaxUSBPacketSize - cAsyncHeaderAndSubHeaderSize
  <2>2. /\ m \in Message /\ m.id = pspFrame.id + 1
        /\ m.length \in PspLengths /\ m.length \in Nat /\ m.length > 0
    BY <1>1, ReaderAssumption, FramingAssumption DEF Message
  <2>3. packet.kind = "async" /\ packet.piece = piece
    BY <2>1
  <2> HIDE DEF m
  <2>4. /\ piece.msg = m /\ piece.from = 0
        /\ piece.payload = Payload(m.length, 0) /\ piece.stitch = Stitch(m.length, 0)
        /\ piece = [msg |-> piece.msg, from |-> piece.from,
                    payload |-> piece.payload, stitch |-> piece.stitch]
    BY DEF Fragment
  <2> HIDE DEF piece
  <2>5. pspFrame' = m /\ pspIndex' = EndOf(piece)
    BY <2>3, <2>4 DEF PspSends
  <2>6. /\ Room(0) = cMaxUSBPacketSize - cAsyncHeaderAndSubHeaderSize
        /\ HeaderLength(0) = cAsyncHeaderAndSubHeaderSize
    BY DEF Room, HeaderLength
  <2>7. first <=> piece.stitch
    <3>1. Stitch(m.length, 0) <=> m.length > Room(0)
      BY <2>2 DEF Stitch
    <3> QED
      BY <2>4, <2>6, <3>1
  <2>8. /\ piece.payload \in Nat /\ piece.payload > 0
        /\ piece.stitch => piece.payload = Room(0) /\ piece.payload < m.length
        /\ ~piece.stitch => piece.payload = m.length
    <3>1. /\ Stitch(m.length, 0) <=> m.length > Room(0)
          /\ Payload(m.length, 0) = IF Stitch(m.length, 0) THEN Room(0) ELSE m.length
      BY <2>2 DEF Payload, Stitch
    <3> QED
      BY <2>2, <2>4, <3>1, RoomOK
  <2>9. PacketSize(piece) >= cHostFSHeaderSize
    BY <2>4, <2>6, <2>8, FramingAssumption DEF PacketSize, cAsyncHeaderAndSubHeaderSize
  <2>10. HandleAsynchronous(packet)
    BY <2>3, <2>9 DEF ReceiveCallback
  <2>11. /\ mActualLength' = m.length
         /\ mReceiveStitching' = first
         /\ mStitchingLength' = IF first THEN piece.payload ELSE mStitchingLength
         /\ Receiver!AddToQueue([piece EXCEPT !.stitch = first])
    BY <1>1, <2>3, <2>4, <2>8, <2>10 DEF HandleAsynchronous
  <2>12. [piece EXCEPT !.stitch = first] = piece
    <3>1. first \in BOOLEAN /\ piece.stitch \in BOOLEAN
      BY <2>4 DEF Stitch
    <3> HIDE DEF first
    <3> QED
      BY <2>4, <2>7, <3>1
  <2>13. Receiver!AddToQueue(piece)
    BY <2>11, <2>12
  <2> HIDE DEF first
  <2>14. InStep'
    <3>1. pspIndex' = piece.payload
      BY <2>4, <2>5, <2>8 DEF EndOf
    <3>2. mReceiveStitching' => pspIndex' = Room(0) + 0 * Room(1)
      BY <2>7, <2>8, <2>11, <3>1, RoomOK
    <3>3. 0 \in 0..pspIndex'
      BY <2>8, <3>1
    <3> QED
      BY <2>2, <2>5, <2>7, <2>8, <2>11, <3>1, <3>2, <3>3 DEF InStep
  <2> QED
    BY <2>2, <2>3, <2>5, <2>13, <2>14 DEF piece
<1>3. CASE \E signal \in PspSignals :
              packet = [kind  |-> signal,
                        piece |-> [Fragment(NoMessage, 0) EXCEPT !.payload = 1]]
  <2> DEFINE piece == [Fragment(NoMessage, 0) EXCEPT !.payload = 1]
  <2>1. PICK signal \in PspSignals : packet = [kind |-> signal, piece |-> piece]
    BY <1>3
  <2>2. packet.kind # "async"
    <3> HIDE DEF piece
    <3> QED
      BY <2>1, ReaderAssumption
  <2>3. UNCHANGED <<pspFrame, pspIndex>>
    BY <2>2 DEF PspSends
  <2>4. HandleAsynchronous(packet) => UNCHANGED <<transferVars, receiverVars>>
    BY <1>1, <2>2, Zenon DEF HandleAsynchronous
  <2>5. UNCHANGED <<transferVars, receiverVars>>
    BY <2>4 DEF ReceiveCallback
  <2>6. InStep'
    BY <2>3, <2>5 DEF InStep, transferVars
  <2> HIDE DEF piece
  <2> QED
    BY <2>3, <2>5, <2>6
<1> QED
  BY <1>2, <1>3 DEF PspPackets

\* Only a packet that is read moves the reader or the PSP in a frame.
LEMMA OnlyReadMoves ==
    ASSUME Calm, [Next]_vars, ~ReadPacket
    PROVE  UNCHANGED <<transferVars, pspFrame, pspIndex>>
<1>1. ~HandleError /\ ~ReadFault /\ ~Unplug
  BY NoRestart, NoFault DEF ReadFault, Unplug, Calm
<1> QED
  BY <1>1 DEF Next, UsbStep, Closing, LoopCondition, StopBranch, CheckDevice,
     BailOut, NoError, ReadTimeout, ReadNull, WritePacket, WriteDone, SenderStep,
     ReceiverStep, Send, MainOpen, MainGivesUp, StartReceiverThread, Close,
     JoinUsb, StopSender, JoinSender, StopReceiver, JoinReceiver, Finished, Plug,
     vars, readerVars, transferVars, pspVars

\* Reader and PSP stay in step.
LEMMA InStepStep ==
    ASSUME FaultFree, TypeInv, Calm, InStep, [Next]_vars
    PROVE  InStep'
<1>1. CASE ReadPacket
  BY <1>1, ReadRest, ReadNext DEF ReadPacket
<1>2. CASE ~ReadPacket
  BY <1>2, OnlyReadMoves DEF InStep, transferVars
<1> QED
  BY <1>1, <1>2

\* Only a write changes what the PSP has got and the flag that goes with it, and
\* only MainOpen gets a device.
LEMMA WrittenMoves ==
    ASSUME Calm, [Next]_vars, ~WritePacket
    PROVE  /\ UNCHANGED <<written, mSendStitching>>
           /\ (mDeviceHandle' = "open" \/ main' = "opening") =>
                  (mDeviceHandle = "open" \/ main = "opening")
<1>1. ~HandleError /\ ~ReadFault /\ ~Unplug
  BY NoRestart, NoFault DEF ReadFault, Unplug, Calm
<1>2. CASE ReadPacket
  BY <1>2 DEF ReadPacket, PspSends
<1>3. CASE LoopCondition \/ StopBranch \/ CheckDevice \/ BailOut \/ NoError
           \/ ReadTimeout \/ ReadNull \/ WriteDone
  BY <1>3 DEF LoopCondition, StopBranch, CheckDevice, HandleClose, BailOut,
     NoError, ReadTimeout, ReadNull, WriteDone, pspVars
<1>4. CASE SenderStep \/ ReceiverStep \/ Send \/ Plug \/ Finished \/ UNCHANGED vars
  BY <1>4 DEF SenderStep, ReceiverStep, Send, Plug, Finished, vars, readerVars,
     pspVars
<1>5. CASE MainOpen \/ MainGivesUp \/ StartReceiverThread \/ Close
  BY <1>5 DEF MainOpen, MainGivesUp, HandleClose, StartReceiverThread, Close,
     pspVars
<1>6. CASE Closing
  BY <1>6 DEF Closing, JoinUsb, StopSender, JoinSender, StopReceiver,
     JoinReceiver, readerVars, pspVars
<1> QED
  BY <1>1, <1>2, <1>3, <1>4, <1>5, <1>6 DEF Next, UsbStep

\* The flag stays true to the packets written.
LEMMA LastWrittenStep ==
    ASSUME SenderProofs!Inv, written \in Seq(Fragments), Calm, LastWritten,
           [Next]_vars
    PROVE  LastWritten'
<1>1. CASE WritePacket
  <2>1. /\ usbThread = "write"
        /\ outgoingQueue # <<>>
        /\ mSendStitching' = Head(outgoingQueue).stitch
        /\ UNCHANGED <<mDeviceHandle, main>>
    BY <1>1 DEF WritePacket, Sender!PopFromOutgoingQueue
  <2>2. main # "opening"
    BY <2>1 DEF Calm
  <2>3. CASE mDeviceHandle = "open"
    <3>1. written' = Append(written, Head(outgoingQueue))
      BY <1>1, <2>3, NoFault DEF WritePacket
    <3>2. Head(outgoingQueue) \in Fragments
      BY <2>1, SenderFacts
    <3>3. written' # <<>> /\ written'[Len(written')] = Head(outgoingQueue)
      BY <3>1, <3>2
    <3> QED
      BY <2>1, <3>3 DEF LastWritten
  <2>4. CASE mDeviceHandle # "open"
    BY <2>1, <2>2, <2>4 DEF LastWritten
  <2> QED
    BY <2>3, <2>4
<1>2. CASE ~WritePacket
  BY <1>2, WrittenMoves DEF LastWritten
<1> QED
  BY <1>1, <1>2

\* When the device has been let go neither end moves any more.
LEMMA NoDeviceNoMove ==
    ASSUME Calm, [Next]_vars, mDeviceHandle' # "open"
    PROVE  UNCHANGED <<written, pspFrame, pspIndex>>
<1>1. ~ReadPacket
  BY DEF ReadPacket
<1>2. UNCHANGED <<pspFrame, pspIndex>>
  BY <1>1, OnlyReadMoves
<1>3. CASE WritePacket
  BY <1>2, <1>3, NoFault DEF WritePacket
<1>4. CASE ~WritePacket
  BY <1>2, <1>4, WrittenMoves
<1> QED
  BY <1>3, <1>4

\* All of it together.
LEMMA DuplexStep ==
    ASSUME FaultFree, TypeInv, SenderProofs!Inv, OrderInv, StitchInv', DuplexInv,
           [Next]_vars
    PROVE  DuplexInv'
<1>1. Calm' /\ InStep' /\ LastWritten'
  BY CalmStep, InStepStep, LastWrittenStep DEF DuplexInv, TypeInv, OrderInv
<1>2. HalfDuplex'
  <2>1. CASE mDeviceHandle' = "open"
    BY <1>1, <2>1 DEF HalfDuplex, InStep, LastWritten, StitchInv, StitchExclusive
  <2>2. CASE mDeviceHandle' # "open"
    BY <2>2, NoDeviceNoMove DEF DuplexInv, HalfDuplex
  <2> QED
    BY <2>1, <2>2
<1> QED
  BY <1>1, <1>2 DEF DuplexInv

\* At the start nothing is under way.
LEMMA InitDuplexInv ==
    ASSUME FaultFree, Init
    PROVE  DuplexInv
<1>1. Calm
  BY DEF Init, Calm, FaultFree
<1>2. InStep /\ HalfDuplex
  BY DEF Init, InStep, HalfDuplex, NoMessage
<1>3. LastWritten
  BY DEF Init, LastWritten
<1> QED
  BY <1>1, <1>2, <1>3 DEF DuplexInv

\* The two ends agree in every reachable state.
THEOREM DuplexInvariance ==
    ASSUME FaultFree
    PROVE  Spec => []DuplexInv
<1>1. Spec => []StitchInv
  <2>1. Init => StitchInv
    BY DEF Init, StitchInv, StitchExclusive
  <2> QED
    BY <2>1, StitchStep, PTL DEF Spec
<1>2. TypeInv /\ SenderProofs!Inv /\ OrderInv /\ StitchInv' /\ DuplexInv
      /\ [Next]_vars => DuplexInv'
  BY DuplexStep
<1>3. Init => DuplexInv
  BY InitDuplexInv
<1> QED
  BY <1>1, <1>2, <1>3, TypeInvariance, SenderInvariance, OrderInvariance, PTL
     DEF Spec

\* HalfDuplex: without faults the PSP and the reader are never in the middle of a
\* frame to each other at once, for any sizes of packets and frames.
THEOREM AlwaysHalfDuplex ==
    ASSUME FaultFree
    PROVE  Spec => []HalfDuplex
<1>1. DuplexInv => HalfDuplex
  BY DEF DuplexInv
<1> QED
  BY <1>1, DuplexInvariance, PTL

\* FrameEndSeen: without faults ReceiveCallback finds the end of every frame, so
\* no frame is taken for the rest of the one before it.
THEOREM FrameEndAlwaysSeen ==
    ASSUME FaultFree
    PROVE  Spec => []FrameEndSeen
<1>1. TypeInv /\ DuplexInv => FrameEndSeen
  BY DEF TypeInv, PspOK, Message, DuplexInv, InStep, FrameEndSeen
<1> QED
  BY <1>1, TypeInvariance, DuplexInvariance, PTL
=============================================================================
