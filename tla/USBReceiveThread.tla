-------------------------- MODULE USBReceiveThread --------------------------
(***************************************************************************)
(* The class USBReceiveThread: a bounded queue of the pieces the USB       *)
(* thread has read, and a thread that puts them together in                *)
(* mLastReceivedMessage and sends the result to XLink Kai.                 *)
(*                                                                         *)
(* The thread holds the mutex only while it pops.  What it does next to    *)
(* mLastReceivedMessage is three more steps, and ClearQueues, called by    *)
(* the USB thread in HandleError, can fall between any two of them.        *)
(***************************************************************************)
EXTENDS UsbFraming

CONSTANT mMaxBufferSize   \* "MaxBufferedMessages" of the settings

VARIABLES mQueue,                 \* pieces not yet put together
          mLastReceivedMessage,   \* the frame being put together
          mStopRequest,
          thread,                 \* where the thread is, see ThreadStates
          lFrontOfQueue,          \* the piece it is working on
          sent                    \* history: what went to XLink Kai

vars == <<mQueue, mLastReceivedMessage, mStopRequest, thread, lFrontOfQueue,
          sent>>

ThreadStates == {"none", "running", "copy", "account", "dispatch", "exited"}

\* A value-initialised BinaryStitchWiFiPacket.  Its data is the set of pieces
\* copied in, each with the offset it was copied to.
EmptyMessage == [data |-> {}, length |-> 0, stitch |-> FALSE]

NoPiece == [msg |-> NoMessage, from |-> 0, payload |-> 0, stitch |-> FALSE]

Init ==
    /\ mQueue = <<>>
    /\ mLastReceivedMessage = EmptyMessage
    /\ mStopRequest = FALSE
    /\ thread = "none"
    /\ lFrontOfQueue = NoPiece
    /\ sent = <<>>

StartThread ==
    /\ thread = "none"
    /\ thread' = "running"
    /\ UNCHANGED <<mQueue, mLastReceivedMessage, mStopRequest, lFrontOfQueue,
                   sent>>

\* Mutant: one piece is always left in the queue.
Pop_KeepsOne ==
    /\ thread = "running"
    /\ ~mStopRequest
    /\ Len(mQueue) > 1
    /\ lFrontOfQueue' = Head(mQueue)
    /\ mQueue' = Tail(mQueue)
    /\ thread' = "copy"
    /\ UNCHANGED <<mLastReceivedMessage, mStopRequest, sent>>

Pop ==
    /\ thread = "running"
    /\ ~mStopRequest
    /\ mQueue # <<>>
    /\ lFrontOfQueue' = Head(mQueue)
    /\ mQueue' = Tail(mQueue)
    /\ thread' = "copy"
    /\ UNCHANGED <<mLastReceivedMessage, mStopRequest, sent>>

\* Mutant: every piece replaces what was there.
WriteOffset_Start == 0

\* Where the next piece goes: behind an unfinished frame, else at the start.
WriteOffset ==
    IF mLastReceivedMessage.stitch THEN mLastReceivedMessage.length ELSE 0

Copy ==
    /\ thread = "copy"
    /\ LET start == WriteOffset
           end   == start + lFrontOfQueue.payload
           kept  == {piece \in mLastReceivedMessage.data :
                        piece.at < start \/ piece.at >= end}
       IN  mLastReceivedMessage' =
               [mLastReceivedMessage EXCEPT
                   !.data = kept \cup {[at      |-> start,
                                        msg     |-> lFrontOfQueue.msg,
                                        from    |-> lFrontOfQueue.from,
                                        payload |-> lFrontOfQueue.payload]}]
    /\ thread' = "account"
    /\ UNCHANGED <<mQueue, mStopRequest, lFrontOfQueue, sent>>

\* Mutant: a packet's size is counted instead of the bytes copied.
Account_WholePacket ==
    /\ thread = "account"
    /\ mLastReceivedMessage' =
           [mLastReceivedMessage EXCEPT
               !.length = WriteOffset + cMaxUSBPacketSize,
               !.stitch = lFrontOfQueue.stitch]
    /\ thread' = "dispatch"
    /\ UNCHANGED <<mQueue, mStopRequest, lFrontOfQueue, sent>>

\* Only now do length and stitch follow what was copied.
Account ==
    /\ thread = "account"
    /\ mLastReceivedMessage' =
           [mLastReceivedMessage EXCEPT
               !.length = WriteOffset + lFrontOfQueue.payload,
               !.stitch = lFrontOfQueue.stitch]
    /\ thread' = "dispatch"
    /\ UNCHANGED <<mQueue, mStopRequest, lFrontOfQueue, sent>>

\* The bytes 0..length-1 of the frame that was put together.
Contents(message) ==
    [length |-> message.length,
     data   |-> {piece \in message.data : piece.at < message.length}]

\* Mutant: what is there is sent with every piece, the frame finished or not.
Dispatch_EveryPiece ==
    /\ thread = "dispatch"
    /\ LET tooLong == mLastReceivedMessage.length > cMaxAsynchronousBuffer
       IN  /\ mLastReceivedMessage' =
                  IF tooLong \/ ~lFrontOfQueue.stitch THEN EmptyMessage
                                                      ELSE mLastReceivedMessage
           /\ sent' = IF ~tooLong THEN Append(sent, Contents(mLastReceivedMessage))
                                  ELSE sent
    /\ thread' = "running"
    /\ UNCHANGED <<mQueue, mStopRequest, lFrontOfQueue>>

\* A frame that grew too long is dropped, a finished one is sent; either way
\* the next one starts afresh.
Dispatch ==
    /\ thread = "dispatch"
    /\ LET tooLong == mLastReceivedMessage.length > cMaxAsynchronousBuffer
       IN  /\ mLastReceivedMessage' =
                  IF tooLong \/ ~lFrontOfQueue.stitch THEN EmptyMessage
                                                      ELSE mLastReceivedMessage
           /\ sent' = IF ~tooLong /\ ~lFrontOfQueue.stitch
                      THEN Append(sent, Contents(mLastReceivedMessage))
                      ELSE sent
    /\ thread' = "running"
    /\ UNCHANGED <<mQueue, mStopRequest, lFrontOfQueue>>

Exit ==
    /\ thread = "running"
    /\ mStopRequest
    /\ thread' = "exited"
    /\ UNCHANGED <<mQueue, mLastReceivedMessage, mStopRequest, lFrontOfQueue,
                   sent>>

\* Mutant: the queue takes one piece more than it may hold.
Queued_OneMore(piece) ==
    IF Len(mQueue) <= mMaxBufferSize THEN Append(mQueue, piece) ELSE mQueue

\* A piece that finds the queue full is lost; HandleAsynchronous ignores the
\* answer.
Queued(piece) ==
    IF Len(mQueue) < mMaxBufferSize THEN Append(mQueue, piece) ELSE mQueue

AddToQueue(piece) ==
    /\ mQueue' = Queued(piece)
    /\ UNCHANGED <<mLastReceivedMessage, mStopRequest, thread, lFrontOfQueue,
                   sent>>

\* Account is two statements, and ClearQueues may fall between them: then the
\* length is cleared and the stitch of the piece is set after it.
ClearQueues ==
    /\ mQueue' = <<>>
    /\ \/ /\ mLastReceivedMessage' = EmptyMessage
          /\ UNCHANGED thread
       \/ /\ thread = "account"
          /\ mLastReceivedMessage' =
                 [EmptyMessage EXCEPT !.stitch = lFrontOfQueue.stitch]
          /\ thread' = "dispatch"
    /\ UNCHANGED <<mStopRequest, lFrontOfQueue, sent>>

RequestStop ==
    /\ mStopRequest' = TRUE
    /\ UNCHANGED <<mQueue, mLastReceivedMessage, thread, lFrontOfQueue, sent>>

\* The rest of StopThread, once mDone says that the thread has ended.
Join ==
    /\ thread = "exited"
    /\ thread' = "none"
    /\ mQueue' = <<>>
    /\ mLastReceivedMessage' = EmptyMessage
    /\ UNCHANGED <<mStopRequest, lFrontOfQueue, sent>>

\* What the class's own thread does.
ThreadStep == Pop \/ Copy \/ Account \/ Dispatch \/ Exit

Pieces == [msg : Message, from : Int, payload : Int, stitch : BOOLEAN]

Placed == [at : Int, msg : Message, from : Int, payload : Int]

TypeOK ==
    /\ mQueue \in Seq(Pieces)
    /\ Len(mQueue) <= mMaxBufferSize
    /\ mLastReceivedMessage \in
           [data : SUBSET Placed, length : Int, stitch : BOOLEAN]
    /\ mStopRequest \in BOOLEAN
    /\ thread \in ThreadStates
    /\ lFrontOfQueue \in Pieces
    /\ sent \in Seq([length : Int, data : SUBSET Placed])

\* A message sent to XLink Kai is one whole frame: its pieces all belong to
\* that frame, lie where they lay in it, and leave no gap.
Whole(message) ==
    \E first \in message.data :
        /\ first.at = 0
        /\ first.msg.length = message.length
        /\ \A piece \in message.data :
              /\ piece.msg = first.msg
              /\ piece.from = piece.at
              /\ \/ piece.at + piece.payload = message.length
                 \/ \E next \in message.data : next.at = piece.at + piece.payload
=============================================================================
