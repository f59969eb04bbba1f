----------------------------- MODULE USBReader -----------------------------
(***************************************************************************)
(* The class USBReader with the two queue threads it owns, the main thread *)
(* that starts and closes it, and the PSP at the other end of the cable.   *)
(*                                                                         *)
(* The USB thread is the lambda of StartReceiverThread.  One turn of its   *)
(* loop is five steps, so that a stop request of the main thread, a frame  *)
(* from XLink Kai and the steps of the queue threads can fall in between:  *)
(*    "loop"    the condition of the while                                 *)
(*    "body"    the test of mStopRequest and USBCheckDevice                *)
(*    "errors"  HandleError, bailing out, or neither                       *)
(*    "read"    USBBulkRead and ReceiveCallback                            *)
(*    "write"   one turn of the loop in HandleAsynchronousSend             *)
(***************************************************************************)
EXTENDS UsbFraming

CONSTANTS mMaxBufferedMessages,   \* settings, handed to the constructor
          mMaxFatalRetries,
          mMaxReadWriteRetries,
          KaiLengths, MaxKai,     \* frames from XLink Kai, see USBSendThread
          PspLengths, MaxPsp,     \* lengths and number of the PSP's frames
          PspSignals,             \* what else the PSP sends
          MaxFaults,              \* bound: unplugs and failing transfers
          MayClose                \* whether the user ends the program

ASSUME ReaderAssumption ==
    /\ mMaxBufferedMessages \in Nat
    /\ mMaxFatalRetries \in Nat
    /\ mMaxReadWriteRetries \in Nat
    /\ KaiLengths \subseteq 0..cMaxAsynchronousBuffer
    /\ MaxKai \in Nat
    /\ PspLengths \subseteq 1..cMaxAsynchronousBuffer
    /\ MaxPsp \in Nat
    /\ PspSignals \subseteq {"hello", "rude", "debug", "unknown"}
    /\ MaxFaults \in Nat
    /\ MayClose \in BOOLEAN

VARIABLES
    \* USBReader
    mDeviceHandle,            \* "null", "open", or "stale": the PSP has gone
    mStopRequest,
    mError,
    mUSBCheckSuccessful,
    mReceiveStitching,
    mSendStitching,
    mActualLength,
    mStitchingLength,
    mRetryCounter,            \* attempts to get the device back
    mReadWriteRetryCounter,   \* transfers that failed on an opened device
    usbThread,                \* "none", a step of the loop, or "exited"
    \* mUSBSendThread
    sendQueue, outgoingQueue, sendStop, sendThread, sendFront, sendIndex,
    kaiOffered, popped, emptiedAt,
    \* mUSBReceiveThread
    receiveQueue, lastReceived, receiveStop, receiveThread, receiveFront, sent,
    \* the main thread
    main,
    \* the cable and the PSP
    plugged,
    faults,                   \* how many faults may still happen
    pspFrame, pspIndex,       \* the frame the PSP is sending, and how far
    written                   \* history: the packets the PSP has got

transferVars == <<mReceiveStitching, mActualLength, mStitchingLength>>
counterVars  == <<mRetryCounter, mReadWriteRetryCounter>>
senderVars   == <<sendQueue, outgoingQueue, sendStop, sendThread, sendFront,
                  sendIndex, kaiOffered, popped, emptiedAt>>
receiverVars == <<receiveQueue, lastReceived, receiveStop, receiveThread,
                  receiveFront, sent>>
cableVars    == <<plugged, faults>>
pspVars      == <<pspFrame, pspIndex, written>>
readerVars   == <<mDeviceHandle, mStopRequest, mError, mUSBCheckSuccessful,
                  transferVars, mSendStitching, counterVars, usbThread>>
vars == <<readerVars, senderVars, receiverVars, main, cableVars, pspVars>>

Sender == INSTANCE USBSendThread
    WITH mMaxBufferSize <- mMaxBufferedMessages, mQueue <- sendQueue,
         mOutgoingQueue <- outgoingQueue, mStopRequest <- sendStop,
         thread <- sendThread, lFrontOfQueue <- sendFront,
         lPacketIndex <- sendIndex

Receiver == INSTANCE USBReceiveThread
    WITH mMaxBufferSize <- mMaxBufferedMessages, mQueue <- receiveQueue,
         mLastReceivedMessage <- lastReceived, mStopRequest <- receiveStop,
         thread <- receiveThread, lFrontOfQueue <- receiveFront

LoopStates == {"loop", "body", "errors", "read", "write"}
MainStates == {"opening", "running", "join", "stopSender", "joinSender",
               "stopReceiver", "joinReceiver", "closed"}

Init ==
    /\ mDeviceHandle = "null"
    /\ mStopRequest = FALSE
    /\ mError = FALSE
    /\ mUSBCheckSuccessful = FALSE
    /\ mReceiveStitching = FALSE
    /\ mSendStitching = FALSE
    /\ mActualLength = 0
    /\ mStitchingLength = 0
    /\ mRetryCounter = 0
    /\ mReadWriteRetryCounter = 0
    /\ usbThread = "none"
    /\ Sender!Init
    /\ Receiver!Init
    /\ main = "opening"
    /\ plugged = TRUE
    /\ faults = MaxFaults
    /\ pspFrame = NoMessage
    /\ pspIndex = 0
    /\ written = <<>>

Fault == faults > 0 /\ faults' = faults - 1

-----------------------------------------------------------------------------
(* The USB thread: the loop, opening and closing the device.               *)

\* Mutant: a stop request ends the loop with the device still open.
LoopCondition_Stops ==
    /\ usbThread = "loop"
    /\ usbThread' = IF ~mStopRequest /\ (mDeviceHandle # "null" \/ mRetryCounter > 0)
                    THEN "body" ELSE "exited"
    /\ UNCHANGED <<mDeviceHandle, mStopRequest, mError, mUSBCheckSuccessful,
                   transferVars, mSendStitching, counterVars, senderVars,
                   receiverVars, main, cableVars, pspVars>>

LoopCondition ==
    /\ usbThread = "loop"
    /\ usbThread' = IF \/ mDeviceHandle # "null"
                       \/ (mRetryCounter > 0 /\ ~mStopRequest)
                    THEN "body" ELSE "exited"
    /\ UNCHANGED <<mDeviceHandle, mStopRequest, mError, mUSBCheckSuccessful,
                   transferVars, mSendStitching, counterVars, senderVars,
                   receiverVars, main, cableVars, pspVars>>

\* HandleClose also takes back a stop request.
HandleClose ==
    /\ mDeviceHandle' = "null"
    /\ mStopRequest' = FALSE

\* Mutant: the loop is left to notice the request, the device stays open.
StopBranch_KeepsDevice ==
    /\ usbThread = "body"
    /\ mStopRequest
    /\ usbThread' = "loop"
    /\ UNCHANGED <<mDeviceHandle, mStopRequest, mError, mUSBCheckSuccessful,
                   transferVars, mSendStitching, counterVars, senderVars,
                   receiverVars, main, cableVars, pspVars>>

StopBranch ==
    /\ usbThread = "body"
    /\ mStopRequest
    /\ HandleClose
    /\ usbThread' = "loop"
    /\ UNCHANGED <<mError, mUSBCheckSuccessful, transferVars, mSendStitching,
                   counterVars, senderVars, receiverVars, main, cableVars,
                   pspVars>>

\* The hello of USBCheckDevice succeeds trivially without a device, and
\* fails on one that has gone.
USBCheckDevice ==
    \/ /\ mUSBCheckSuccessful' = (mDeviceHandle # "stale")
       /\ UNCHANGED faults
    \/ /\ mDeviceHandle = "open"
       /\ Fault
       /\ mUSBCheckSuccessful' = FALSE

CheckDevice ==
    /\ usbThread = "body"
    /\ ~mStopRequest
    /\ IF mUSBCheckSuccessful THEN UNCHANGED <<mUSBCheckSuccessful, faults>>
                              ELSE USBCheckDevice
    /\ usbThread' = "errors"
    /\ UNCHANGED <<mDeviceHandle, mStopRequest, mError, transferVars,
                   mSendStitching, counterVars, senderVars, receiverVars, main,
                   plugged, pspVars>>

\* The result of Open on a closed device.
Open ==
    \/ /\ mDeviceHandle' = IF plugged THEN "open" ELSE "null"
       /\ UNCHANGED faults
    \/ /\ plugged
       /\ Fault
       /\ mDeviceHandle' = "null"

\* The reset in HandleClose may make the PSP forget the rest of its frame.
PspReset ==
    /\ pspIndex' \in {pspIndex, pspFrame.length}
    /\ UNCHANGED <<pspFrame, written>>

\* Mutant: writing goes on in the middle of a frame from the PSP.
AfterRead_Writes(receiving) == "write"

\* Mutant: reading goes on in the middle of a frame to the PSP.
AfterErrors_Reads(sending, receiving) == "read"

\* Reading is skipped in the middle of a frame to the PSP, writing in the
\* middle of a frame from it.
AfterRead(receiving) == IF receiving THEN "loop" ELSE "write"
AfterErrors(sending, receiving) ==
    IF sending THEN AfterRead(receiving) ELSE "read"

\* Mutant: the frame begun towards the PSP is not given up.
HandleError_KeepsSendStitching ==
    /\ usbThread = "errors"
    /\ (mError /\ mRetryCounter < mMaxFatalRetries) \/ ~mUSBCheckSuccessful
    /\ mStopRequest' = FALSE
    /\ Open
    /\ mRetryCounter' = mRetryCounter + 1
    /\ mError' = FALSE
    /\ mUSBCheckSuccessful' = FALSE
    /\ mReceiveStitching' = FALSE
    /\ UNCHANGED mSendStitching
    /\ Sender!ClearQueues
    /\ Receiver!ClearQueues
    /\ PspReset
    /\ usbThread' = AfterErrors(mSendStitching, FALSE)
    /\ UNCHANGED <<mActualLength, mStitchingLength, mReadWriteRetryCounter,
                   main, plugged>>

HandleError ==
    /\ usbThread = "errors"
    /\ (mError /\ mRetryCounter < mMaxFatalRetries) \/ ~mUSBCheckSuccessful
    /\ mStopRequest' = FALSE
    /\ Open
    /\ mRetryCounter' = mRetryCounter + 1
    /\ mError' = FALSE
    /\ mUSBCheckSuccessful' = FALSE
    /\ mReceiveStitching' = FALSE
    /\ mSendStitching' = FALSE
    /\ Sender!ClearQueues
    /\ Receiver!ClearQueues
    /\ PspReset
    /\ usbThread' = AfterErrors(FALSE, FALSE)
    /\ UNCHANGED <<mActualLength, mStitchingLength, mReadWriteRetryCounter,
                   main, plugged>>

BailOut ==
    /\ usbThread = "errors"
    /\ ~(mError /\ mRetryCounter < mMaxFatalRetries) /\ mUSBCheckSuccessful
    /\ mRetryCounter >= mMaxFatalRetries
    /\ HandleClose
    /\ mRetryCounter' = 0
    /\ usbThread' = AfterErrors(mSendStitching, mReceiveStitching)
    /\ UNCHANGED <<mError, mUSBCheckSuccessful, transferVars, mSendStitching,
                   mReadWriteRetryCounter, senderVars, receiverVars, main,
                   cableVars, pspVars>>

NoError ==
    /\ usbThread = "errors"
    /\ ~mError /\ mUSBCheckSuccessful
    /\ mRetryCounter < mMaxFatalRetries
    /\ usbThread' = AfterErrors(mSendStitching, mReceiveStitching)
    /\ UNCHANGED <<mDeviceHandle, mStopRequest, mError, mUSBCheckSuccessful,
                   transferVars, mSendStitching, counterVars, senderVars,
                   receiverVars, main, cableVars, pspVars>>

-----------------------------------------------------------------------------
(* The USB thread: reading.                                                *)

\* The packets the PSP may send next: the rest of its frame, or between
\* frames a new one or a packet that is no part of a frame.
PspPackets ==
    IF pspIndex < pspFrame.length
    THEN {[kind |-> "async", piece |-> Fragment(pspFrame, pspIndex)]}
    ELSE {[kind  |-> "async",
           piece |-> Fragment([id |-> pspFrame.id + 1, length |-> length], 0)] :
             length \in IF pspFrame.id < MaxPsp THEN PspLengths ELSE {}}
         \cup
         {[kind |-> signal, piece |-> [Fragment(NoMessage, 0) EXCEPT !.payload = 1]] :
             signal \in PspSignals}

PspSends(packet) ==
    /\ packet \in PspPackets
    /\ IF packet.kind = "async"
       THEN /\ pspFrame' = packet.piece.msg
            /\ pspIndex' = EndOf(packet.piece)
       ELSE UNCHANGED <<pspFrame, pspIndex>>
    /\ UNCHANGED written

\* While a frame is unfinished every packet of the user channel is taken as
\* its continuation; otherwise only one whose subheader announces a frame,
\* with at least one byte of it, is of use.
HandleAsynchronous(packet) ==
    LET piece == packet.piece
        size  == PacketSize(piece)
        Starts == packet.kind = "async" /\ piece.from = 0 /\ piece.payload > 0
        added  == size - cAsyncHeaderSize
        total  == mStitchingLength + added
        more   == /\ size > cMaxUSBPacketSize - cAsyncHeaderSize
                  /\ total < mActualLength
        first  == piece.msg.length > cMaxUSBPacketSize - cAsyncHeaderAndSubHeaderSize
    IN  \/ /\ ~mReceiveStitching
           /\ Starts
           /\ mActualLength' = piece.msg.length
           /\ mReceiveStitching' = first
           /\ mStitchingLength' = IF first THEN piece.payload ELSE mStitchingLength
           /\ Receiver!AddToQueue([piece EXCEPT !.stitch = first])
        \/ /\ ~mReceiveStitching
           /\ ~Starts
           /\ UNCHANGED <<transferVars, receiverVars>>
        \/ /\ mReceiveStitching
           /\ mReceiveStitching' = more
           /\ mStitchingLength' = IF more THEN total ELSE 0
           /\ Receiver!AddToQueue([msg |-> piece.msg, from |-> EndOf(piece) - added,
                                   payload |-> added, stitch |-> more])
           /\ UNCHANGED mActualLength

\* Mutant: packets shorter than both headers of a frame are left out.
ReceiveCallback_BothHeaders(packet) ==
    LET usable == PacketSize(packet.piece) >= cAsyncHeaderAndSubHeaderSize
    IN  /\ mError' = (mError \/ (usable /\ packet.kind = "rude"))
        /\ IF usable /\ packet.kind \in {"async", "debug"}
           THEN HandleAsynchronous(packet)
           ELSE UNCHANGED <<transferVars, receiverVars>>

\* Only packets as long as a HostFsCommand are looked at.
ReceiveCallback(packet) ==
    LET usable == PacketSize(packet.piece) >= cHostFSHeaderSize
    IN  /\ mError' = (mError \/ (usable /\ packet.kind = "rude"))
        /\ IF usable /\ packet.kind \in {"async", "debug"}
           THEN HandleAsynchronous(packet)
           ELSE UNCHANGED <<transferVars, receiverVars>>

ReadPacket ==
    /\ usbThread = "read"
    /\ mDeviceHandle = "open"
    /\ \E packet \in PspPackets : PspSends(packet) /\ ReceiveCallback(packet)
    /\ mRetryCounter' = 0
    /\ usbThread' = AfterRead(mReceiveStitching')
    /\ UNCHANGED <<mDeviceHandle, mStopRequest, mUSBCheckSuccessful,
                   mSendStitching, mReadWriteRetryCounter, senderVars, main,
                   cableVars>>

\* LIBUSB_ERROR_TIMEOUT and LIBUSB_ERROR_BUSY.
ReadTimeout ==
    /\ usbThread = "read"
    /\ mDeviceHandle = "open"
    /\ usbThread' = AfterRead(mReceiveStitching)
    /\ UNCHANGED <<mDeviceHandle, mStopRequest, mError, mUSBCheckSuccessful,
                   transferVars, mSendStitching, counterVars, senderVars,
                   receiverVars, main, cableVars, pspVars>>

\* Mutant: failing transfers are not counted.
CountFailure_Never ==
    /\ mReadWriteRetryCounter' = mReadWriteRetryCounter
    /\ mError' = (mError \/ mReadWriteRetryCounter' > mMaxReadWriteRetries)

\* A transfer that fails on an opened device.
CountFailure ==
    /\ mReadWriteRetryCounter' = mReadWriteRetryCounter + 1
    /\ mError' = (mError \/ mReadWriteRetryCounter' > mMaxReadWriteRetries)

\* Any other result of the read.  USBBulkRead forgets what came with an
\* error, so the packet may be lost.
ReadFault ==
    /\ usbThread = "read"
    /\ \/ /\ mDeviceHandle = "stale"
          /\ UNCHANGED <<faults, pspVars>>
       \/ /\ mDeviceHandle = "open"
          /\ Fault
          /\ \/ UNCHANGED pspVars
             \/ \E packet \in PspPackets : PspSends(packet)
    /\ CountFailure
    /\ usbThread' = AfterRead(mReceiveStitching)
    /\ UNCHANGED <<mDeviceHandle, mStopRequest, mUSBCheckSuccessful,
                   transferVars, mSendStitching, mRetryCounter, senderVars,
                   receiverVars, main, plugged>>

ReadNull ==
    /\ usbThread = "read"
    /\ mDeviceHandle = "null"
    /\ mError' = TRUE
    /\ usbThread' = AfterRead(mReceiveStitching)
    /\ UNCHANGED <<mDeviceHandle, mStopRequest, mUSBCheckSuccessful,
                   transferVars, mSendStitching, counterVars, senderVars,
                   receiverVars, main, cableVars, pspVars>>

-----------------------------------------------------------------------------
(* The USB thread: writing.                                                *)

\* One packet is taken from the outgoing queue and written; a failing write
\* is not repeated.
WritePacket ==
    /\ usbThread = "write"
    /\ ~mStopRequest
    /\ Sender!PopFromOutgoingQueue
    /\ mSendStitching' = Head(outgoingQueue).stitch
    /\ \/ /\ mDeviceHandle = "open"
          /\ written' = Append(written, Head(outgoingQueue))
          /\ UNCHANGED <<mError, mReadWriteRetryCounter, faults>>
       \/ /\ mDeviceHandle # "open"
          /\ CountFailure
          /\ UNCHANGED <<faults, written>>
       \/ /\ mDeviceHandle = "open"
          /\ Fault
          /\ CountFailure
          /\ written' \in {written, Append(written, Head(outgoingQueue))}
    /\ UNCHANGED <<mDeviceHandle, mStopRequest, mUSBCheckSuccessful,
                   transferVars, mRetryCounter, usbThread, receiverVars, main,
                   plugged, pspFrame, pspIndex>>

WriteDone ==
    /\ usbThread = "write"
    /\ mStopRequest \/ outgoingQueue = <<>>
    /\ usbThread' = "loop"
    /\ UNCHANGED <<mDeviceHandle, mStopRequest, mError, mUSBCheckSuccessful,
                   transferVars, mSendStitching, counterVars, senderVars,
                   receiverVars, main, cableVars, pspVars>>

UsbStep ==
    \/ LoopCondition \/ StopBranch \/ CheckDevice
    \/ HandleError \/ BailOut \/ NoError
    \/ ReadPacket \/ ReadTimeout \/ ReadFault \/ ReadNull
    \/ WritePacket \/ WriteDone

-----------------------------------------------------------------------------
(* The queue threads, and XLink Kai's receiver calling Send.               *)

SenderStep ==
    /\ Sender!ThreadStep
    /\ UNCHANGED <<readerVars, receiverVars, main, cableVars, pspVars>>

ReceiverStep ==
    /\ Receiver!ThreadStep
    /\ UNCHANGED <<readerVars, senderVars, main, cableVars, pspVars>>

\* Only while mUSBSendThread points to something.
Send ==
    /\ main \in {"running", "join", "stopSender", "joinSender"}
    /\ Sender!Offer
    /\ UNCHANGED <<readerVars, receiverVars, main, cableVars, pspVars>>

-----------------------------------------------------------------------------
(* The main thread: the loop that opens the device, StartReceiverThread,   *)
(* and Close.                                                              *)

\* A failing Open is followed by Close, which leaves everything as it was.
MainOpen ==
    /\ main = "opening"
    /\ mDeviceHandle = "null"
    /\ plugged
    /\ mDeviceHandle' = "open"
    /\ UNCHANGED <<mStopRequest, mError, mUSBCheckSuccessful, transferVars,
                   mSendStitching, counterVars, usbThread, senderVars,
                   receiverVars, main, cableVars, pspVars>>

\* The user ends the program, or the connection to XLink Kai fails, before
\* the threads were started: Close lets go of the device itself.
MainGivesUp ==
    /\ MayClose
    /\ main = "opening"
    /\ HandleClose
    /\ main' = "closed"
    /\ UNCHANGED <<mError, mUSBCheckSuccessful, transferVars, mSendStitching,
                   counterVars, usbThread, senderVars, receiverVars, cableVars,
                   pspVars>>

StartReceiverThread ==
    /\ main = "opening"
    /\ mDeviceHandle # "null"
    /\ usbThread' = "loop"
    /\ Sender!StartThread
    /\ Receiver!StartThread
    /\ main' = "running"
    /\ UNCHANGED <<mDeviceHandle, mStopRequest, mError, mUSBCheckSuccessful,
                   transferVars, mSendStitching, counterVars, cableVars,
                   pspVars>>

Close ==
    /\ MayClose
    /\ main = "running"
    /\ mStopRequest' = TRUE
    /\ main' = "join"
    /\ UNCHANGED <<mDeviceHandle, mError, mUSBCheckSuccessful, transferVars,
                   mSendStitching, counterVars, usbThread, senderVars,
                   receiverVars, cableVars, pspVars>>

JoinUsb ==
    /\ main = "join"
    /\ usbThread = "exited"
    /\ usbThread' = "none"
    /\ main' = "stopSender"
    /\ UNCHANGED <<mDeviceHandle, mStopRequest, mError, mUSBCheckSuccessful,
                   transferVars, mSendStitching, counterVars, senderVars,
                   receiverVars, cableVars, pspVars>>

StopSender ==
    /\ main = "stopSender"
    /\ Sender!RequestStop
    /\ main' = "joinSender"
    /\ UNCHANGED <<readerVars, receiverVars, cableVars, pspVars>>

JoinSender ==
    /\ main = "joinSender"
    /\ Sender!Join
    /\ main' = "stopReceiver"
    /\ UNCHANGED <<readerVars, receiverVars, cableVars, pspVars>>

StopReceiver ==
    /\ main = "stopReceiver"
    /\ Receiver!RequestStop
    /\ main' = "joinReceiver"
    /\ UNCHANGED <<readerVars, senderVars, cableVars, pspVars>>

JoinReceiver ==
    /\ main = "joinReceiver"
    /\ Receiver!Join
    /\ main' = "closed"
    /\ UNCHANGED <<readerVars, senderVars, cableVars, pspVars>>

\* What Close does once it has been called.
Closing == JoinUsb \/ StopSender \/ JoinSender \/ StopReceiver \/ JoinReceiver

\* The program has ended.
Finished == main = "closed" /\ UNCHANGED vars

-----------------------------------------------------------------------------
(* The cable.                                                              *)

Unplug ==
    /\ plugged
    /\ Fault
    /\ plugged' = FALSE
    /\ mDeviceHandle' = IF mDeviceHandle = "open" THEN "stale" ELSE mDeviceHandle
    /\ pspIndex' = pspFrame.length
    /\ UNCHANGED <<mStopRequest, mError, mUSBCheckSuccessful, transferVars,
                   mSendStitching, counterVars, usbThread, senderVars,
                   receiverVars, main, pspFrame, written>>

Plug ==
    /\ ~plugged
    /\ plugged' = TRUE
    /\ UNCHANGED <<readerVars, senderVars, receiverVars, main, faults, pspVars>>

Next ==
    \/ UsbStep \/ SenderStep \/ ReceiverStep \/ Send
    \/ MainOpen \/ MainGivesUp \/ StartReceiverThread \/ Close \/ Closing
    \/ Finished
    \/ Unplug \/ Plug

\* A PSP that has begun a frame keeps sending it.
PspContinues == ReadPacket /\ pspIndex < pspFrame.length

\* Every thread runs; the user, XLink Kai and the cable need do nothing.
Fairness ==
    /\ WF_vars(UsbStep)
    /\ WF_vars(SenderStep)
    /\ WF_vars(ReceiverStep)
    /\ WF_vars(Closing)
    /\ SF_vars(PspContinues)

Spec == Init /\ [][Next]_vars /\ Fairness
-----------------------------------------------------------------------------
(* Type invariant and safety.                                              *)

TypeOK ==
    /\ mDeviceHandle \in {"null", "open", "stale"}
    /\ mStopRequest \in BOOLEAN
    /\ mError \in BOOLEAN
    /\ mUSBCheckSuccessful \in BOOLEAN
    /\ mReceiveStitching \in BOOLEAN
    /\ mSendStitching \in BOOLEAN
    /\ mActualLength \in Int
    /\ mStitchingLength \in Int
    /\ mRetryCounter \in Nat
    /\ mReadWriteRetryCounter \in Nat
    /\ usbThread \in LoopStates \cup {"none", "exited"}
    /\ Sender!TypeOK
    /\ Receiver!TypeOK
    /\ main \in MainStates
    /\ plugged \in BOOLEAN
    /\ faults \in 0..MaxFaults
    /\ pspFrame \in Message
    /\ pspIndex \in 0..pspFrame.length
    /\ written \in Seq(Fragments)

\* The USB thread is never in the middle of a frame in both directions: each
\* of the two flags makes it leave out the transfers that would reset the
\* other, so with both set it would never transfer anything again.
StitchExclusive == ~(mReceiveStitching /\ mSendStitching)

\* Without faults the two ends agree: while the PSP has sent only a part of
\* a frame it has not been sent only a part of one itself.
HalfDuplex ==
    (0 < pspIndex /\ pspIndex < pspFrame.length) =>
        \/ written = <<>>
        \/ ~written[Len(written)].stitch

\* Without faults the reader knows when a frame of the PSP has ended: it does
\* not go on to take the next frame for the rest of this one, and it writes
\* to the PSP again.
FrameEndSeen == pspIndex = pspFrame.length => ~mReceiveStitching

\* Every message that goes to XLink Kai is made from one frame only.
SentUnmixed ==
    \A i \in DOMAIN sent :
        \A first, second \in sent[i].data : first.msg = second.msg

\* The packets on their way to the PSP, from the first one it got to the
\* last one in the outgoing queue, are in order and none is there twice,
\* whatever is reset, lost or cleared in between.
NothingRepeated ==
    LET packets == written \o outgoingQueue
    IN  \A i \in 1..(Len(packets) - 1) :
            \/ packets[i].msg.id < packets[i + 1].msg.id
            \/ /\ packets[i].msg = packets[i + 1].msg
               /\ EndOf(packets[i]) <= packets[i + 1].from

\* Bytes that belong to no frame come in no order.
Precedes(first, second) ==
    \/ first.msg.id = 0 \/ second.msg.id = 0
    \/ first.msg.id < second.msg.id
    \/ first.msg = second.msg /\ EndOf(first) <= second.from

\* What goes to XLink Kai is in the order in which the PSP sent it, and no byte
\* of a frame goes there twice, whatever is reset, dropped or mixed in between.
NothingSentTwice ==
    \A i, j \in DOMAIN sent : \A first \in sent[i].data, second \in sent[j].data :
        i < j \/ (i = j /\ first.at < second.at) => Precedes(first, second)

\* Putting a frame together never writes behind the end of the buffer in
\* mLastReceivedMessage.
CopyFits ==
    receiveThread = "copy" =>
        Receiver!WriteOffset + receiveFront.payload <= cMaxAsynchronousBuffer

-----------------------------------------------------------------------------
(* Refinement: each direction is a FrameChannel.                           *)

\* The frame of the last packet at position i reached the PSP completely.
CompleteAt(packets, i) ==
    /\ ~packets[i].stitch
    /\ \E j \in 1..i :
          /\ packets[j].from = 0
          /\ \A k \in j..(i - 1) :
                packets[k].stitch /\ Follows(packets[k], packets[k + 1])

ToPspDelivered ==
    [i \in {n \in DOMAIN written : CompleteAt(written, n)} |-> written[i].msg.id]

\* An empty frame never becomes a packet: it is dropped when it is offered.
ToPspChannel ==
    FinishedIn(outgoingQueue)
    \cup (IF Sender!Fragmenting THEN {sendFront.id} ELSE {})
    \cup {sendQueue[i].id : i \in {n \in DOMAIN sendQueue : sendQueue[n].length > 0}}

\* From the first fault on, and once main closes, queues may be emptied.
Disturbed == faults < MaxFaults \/ main \notin {"opening", "running"}

ToPsp == INSTANCE FrameChannel
    WITH latest <- kaiOffered, channel <- ToPspChannel,
         delivered <- ToPspDelivered, disturbed <- Disturbed

\* What went to XLink Kai; 0 stands for anything but a whole frame.
ToKaiDelivered ==
    [i \in DOMAIN sent |->
        IF Receiver!Whole(sent[i])
        THEN (CHOOSE piece \in sent[i].data : TRUE).msg.id
        ELSE 0]

ToKaiChannel ==
    (IF receiveThread \in {"copy", "account", "dispatch"}
     THEN FinishedIn(<<receiveFront>>) ELSE {})
    \cup FinishedIn(receiveQueue)
    \cup (IF pspIndex < pspFrame.length THEN {pspFrame.id} ELSE {})

ToKai == INSTANCE FrameChannel
    WITH latest <- pspFrame.id, channel <- ToKaiChannel,
         delivered <- ToKaiDelivered, disturbed <- Disturbed

\* Frames from XLink Kai reach the PSP whole, once and in order.  Without a
\* fault only a full queue drops one, and only when it is handed over; whatever
\* fails and is reset, a frame the PSP can put together is one that XLink Kai
\* sent.
ToPspRefinesChannel == ToPsp!Spec

\* Frames from the PSP reach XLink Kai whole, once and in order.
ToKaiRefinesChannel == ToKai!Spec

-----------------------------------------------------------------------------
(* Refinement: the lifecycle the rest of the program sees.                 *)

Lifecycle == INSTANCE ReaderLifecycle
    WITH held <- mDeviceHandle # "null", stop <- mStopRequest,
         retrying <- mRetryCounter > 0,
         thread <- IF usbThread \in LoopStates THEN "running" ELSE usbThread,
         phase <- CASE main \in {"stopSender", "joinSender"}     -> "sender"
                    [] main \in {"stopReceiver", "joinReceiver"} -> "receiver"
                    [] OTHER                                     -> main

\* The device is opened and let go, and the threads come and go, as the rest
\* of the program is told: in particular the USB thread never ends while it
\* holds the device, nor for a stop request that was taken back.
RefinesLifecycle == Lifecycle!Spec

-----------------------------------------------------------------------------
(* Liveness.                                                               *)

\* Every frame under way to the PSP gets there, unless the program is ended.
ToPspDrains == ToPspChannel # {} ~> (ToPspChannel = {} \/ main # "running")

\* Every frame under way to XLink Kai gets there, unless the program is ended.
ToKaiDrains == ToKaiChannel # {} ~> (ToKaiChannel = {} \/ main # "running")

\* Reading is never put off forever: a frame begun towards the PSP ends, or
\* is given up.
SendStitchEnds == mSendStitching ~> (~mSendStitching \/ usbThread \in {"none", "exited"})

\* Close returns: the stop request ends every thread it joins.
CloseReturns == main = "join" ~> main = "closed"

\* When the PSP is gone for good the USB thread runs out of retries and ends.
DeadDeviceEndsThread == <>[]~plugged => <>[](usbThread \in {"none", "exited"})
=============================================================================
