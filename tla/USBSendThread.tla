--------------------------- MODULE USBSendThread ---------------------------
(***************************************************************************)
(* The class USBSendThread: a bounded queue of frames from XLink Kai, a    *)
(* thread that cuts each frame into USB packets, and an outgoing queue the *)
(* USB thread takes the packets from.                                      *)
(*                                                                         *)
(* Three threads meet here: XLink Kai's receiver calls AddToQueue, the     *)
(* class's own thread runs PopFront, PushFragment and Exit, and the USB    *)
(* thread calls PopFromOutgoingQueue and ClearQueues.  The mutex makes     *)
(* each of them one step except the fragment loop, which pushes one packet *)
(* at a time without holding it: ClearQueues can fall between two packets  *)
(* of the same frame.                                                      *)
(***************************************************************************)
EXTENDS UsbFraming

CONSTANTS mMaxBufferSize,   \* "MaxBufferedMessages" of the settings
          KaiLengths,       \* the frame lengths XLink Kai delivers
          MaxKai            \* bound: the number of frames XLink Kai delivers

ASSUME SendAssumption ==
    /\ mMaxBufferSize \in Nat
    /\ KaiLengths \subseteq 0..cMaxAsynchronousBuffer
    /\ MaxKai \in Nat

VARIABLES mQueue,           \* frames not yet cut into packets
          mOutgoingQueue,   \* packets for the USB thread
          mStopRequest,
          thread,           \* "none", "running" or "exited"
          lFrontOfQueue,    \* the frame the thread is cutting up
          lPacketIndex,     \* how much of it is already in packets
          kaiOffered,       \* how many frames XLink Kai has handed over
          popped,           \* history: the packets the USB thread has taken
                            \* since the queues were last emptied
          emptiedAt         \* history: where the thread was in its frame then

threadVars  == <<thread, lFrontOfQueue, lPacketIndex>>
historyVars == <<popped, emptiedAt>>
vars == <<mQueue, mOutgoingQueue, mStopRequest, threadVars, kaiOffered,
          historyVars>>

Init ==
    /\ mQueue = <<>>
    /\ mOutgoingQueue = <<>>
    /\ mStopRequest = FALSE
    /\ thread = "none"
    /\ lFrontOfQueue = NoMessage
    /\ lPacketIndex = 0
    /\ kaiOffered = 0
    /\ popped = <<>>
    /\ emptiedAt = [msg |-> NoMessage, from |-> 0]

\* mDone is set by StartThread itself, so it never delays StopThread; it is
\* not part of the state.
StartThread ==
    /\ thread = "none"
    /\ thread' = "running"
    /\ UNCHANGED <<mQueue, mOutgoingQueue, mStopRequest, lFrontOfQueue,
                   lPacketIndex, kaiOffered, historyVars>>

\* The thread is inside the loop over lPacketIndex.
Fragmenting == lPacketIndex < lFrontOfQueue.length

\* Mutant: the thread turns to the next frame in the middle of one.
PopFront_Interrupts ==
    /\ thread = "running"
    /\ ~mStopRequest
    /\ mQueue # <<>>
    /\ lFrontOfQueue' = Head(mQueue)
    /\ lPacketIndex' = 0
    /\ mQueue' = Tail(mQueue)
    /\ UNCHANGED <<mOutgoingQueue, mStopRequest, thread, kaiOffered,
                   historyVars>>

\* Mutant: one frame is always left in the queue.
PopFront_KeepsOne ==
    /\ thread = "running"
    /\ ~Fragmenting
    /\ ~mStopRequest
    /\ Len(mQueue) > 1
    /\ lFrontOfQueue' = Head(mQueue)
    /\ lPacketIndex' = 0
    /\ mQueue' = Tail(mQueue)
    /\ UNCHANGED <<mOutgoingQueue, mStopRequest, thread, kaiOffered,
                   historyVars>>

\* Mutant: a frame is looked at and stays in the queue.
PopFront_FrontOnly ==
    /\ thread = "running"
    /\ ~Fragmenting
    /\ ~mStopRequest
    /\ mQueue # <<>>
    /\ lFrontOfQueue' = Head(mQueue)
    /\ lPacketIndex' = 0
    /\ UNCHANGED <<mQueue, mOutgoingQueue, mStopRequest, thread, kaiOffered,
                   historyVars>>

PopFront ==
    /\ thread = "running"
    /\ ~Fragmenting
    /\ ~mStopRequest
    /\ mQueue # <<>>
    /\ lFrontOfQueue' = Head(mQueue)
    /\ lPacketIndex' = 0
    /\ mQueue' = Tail(mQueue)
    /\ UNCHANGED <<mOutgoingQueue, mStopRequest, thread, kaiOffered,
                   historyVars>>

PushFragment ==
    /\ thread = "running"
    /\ Fragmenting
    /\ LET lPacket == Fragment(lFrontOfQueue, lPacketIndex)
       IN  /\ mOutgoingQueue' = Append(mOutgoingQueue, lPacket)
           /\ lPacketIndex' = lPacketIndex + lPacket.payload
    /\ UNCHANGED <<mQueue, mStopRequest, thread, lFrontOfQueue, kaiOffered,
                   historyVars>>

\* Mutant: the thread wants its queue to be empty first.
Exit_WhenEmpty ==
    /\ thread = "running"
    /\ ~Fragmenting
    /\ mStopRequest
    /\ mQueue = <<>>
    /\ thread' = "exited"
    /\ UNCHANGED <<mQueue, mOutgoingQueue, mStopRequest, lFrontOfQueue,
                   lPacketIndex, kaiOffered, historyVars>>

\* The stop request is honoured between frames only.
Exit ==
    /\ thread = "running"
    /\ ~Fragmenting
    /\ mStopRequest
    /\ thread' = "exited"
    /\ UNCHANGED <<mQueue, mOutgoingQueue, mStopRequest, lFrontOfQueue,
                   lPacketIndex, kaiOffered, historyVars>>

\* Mutant: the queue takes one frame more than it may hold.
AddToQueue_OneMore(m) ==
    /\ mQueue' = IF Len(mQueue) <= mMaxBufferSize THEN Append(mQueue, m)
                                                   ELSE mQueue
    /\ kaiOffered' = m.id
    /\ UNCHANGED <<mOutgoingQueue, mStopRequest, threadVars, historyVars>>

\* A frame that finds the queue full is lost, and its caller is not told.
AddToQueue(m) ==
    /\ mQueue' = IF Len(mQueue) < mMaxBufferSize THEN Append(mQueue, m)
                                                  ELSE mQueue
    /\ kaiOffered' = m.id
    /\ UNCHANGED <<mOutgoingQueue, mStopRequest, threadVars, historyVars>>

\* XLink Kai's next frame.
Offer ==
    /\ kaiOffered < MaxKai
    /\ \E length \in KaiLengths :
            AddToQueue([id |-> kaiOffered + 1, length |-> length])

\* Mutant: the packet stays in the queue.
PopFromOutgoingQueue_Peeks ==
    /\ mOutgoingQueue # <<>>
    /\ UNCHANGED vars

\* Mutant: a packet is popped once more than it is read.
PopFromOutgoingQueue_SkipsOne ==
    /\ mOutgoingQueue # <<>>
    /\ mOutgoingQueue' = IF Len(mOutgoingQueue) > 1
                         THEN Tail(Tail(mOutgoingQueue)) ELSE <<>>
    /\ popped' = Append(popped, Head(mOutgoingQueue))
    /\ UNCHANGED <<mQueue, mStopRequest, threadVars, kaiOffered, emptiedAt>>

PopFromOutgoingQueue ==
    /\ mOutgoingQueue # <<>>
    /\ mOutgoingQueue' = Tail(mOutgoingQueue)
    /\ popped' = Append(popped, Head(mOutgoingQueue))
    /\ UNCHANGED <<mQueue, mStopRequest, threadVars, kaiOffered, emptiedAt>>

\* Both queues are emptied.  The thread is not told: the rest of a frame it
\* is cutting up will be pushed all the same.
EmptyQueues ==
    /\ mQueue' = <<>>
    /\ mOutgoingQueue' = <<>>
    /\ popped' = <<>>
    /\ emptiedAt' = IF Fragmenting /\ lPacketIndex > 0
                    THEN [msg |-> lFrontOfQueue, from |-> lPacketIndex]
                    ELSE [msg |-> NoMessage, from |-> 0]

ClearQueues ==
    /\ EmptyQueues
    /\ UNCHANGED <<mStopRequest, threadVars, kaiOffered>>

\* StopThread up to its join: the request is made, the queues are emptied.
RequestStop ==
    /\ mStopRequest' = TRUE
    /\ EmptyQueues
    /\ UNCHANGED <<threadVars, kaiOffered>>

Join ==
    /\ thread = "exited"
    /\ thread' = "none"
    /\ UNCHANGED <<mQueue, mOutgoingQueue, mStopRequest, lFrontOfQueue,
                   lPacketIndex, kaiOffered, historyVars>>

\* What the class's own thread does.
ThreadStep == PopFront \/ PushFragment \/ Exit

Next ==
    \/ StartThread
    \/ ThreadStep
    \/ Offer
    \/ PopFromOutgoingQueue
    \/ ClearQueues
    \/ RequestStop
    \/ Join

SafetySpec == Init /\ [][Next]_vars

\* The thread polls its queue as long as it runs.
Spec == SafetySpec /\ WF_vars(ThreadStep)

-----------------------------------------------------------------------------

TypeOK ==
    /\ mQueue \in Seq(Message)
    /\ Len(mQueue) <= mMaxBufferSize
    /\ mOutgoingQueue \in Seq(Fragments)
    /\ mStopRequest \in BOOLEAN
    /\ thread \in {"none", "running", "exited"}
    /\ lFrontOfQueue \in Message
    /\ lPacketIndex \in 0..lFrontOfQueue.length
    /\ kaiOffered \in Nat
    /\ popped \in Seq(Fragments)
    /\ emptiedAt \in [msg : Message, from : Nat]

\* What the USB thread has taken and may still take since the queues were last
\* emptied.
Stream == popped \o mOutgoingQueue

\* Between one emptying of the queues and the next the USB thread gets whole
\* frames, in order and with no packet missing, wherever in the middle of a
\* frame ClearQueues or StopThread falls.  Only the frame the thread had in
\* hand at the last emptying comes without its beginning, and then it comes
\* first, from exactly that place on: that rest the code pushes all the same.
OutgoingFramed ==
    /\ WellFramed(Stream)
    /\ Stream # <<>> =>
           \/ Stream[1].from = 0
           \/ Stream[1].msg = emptiedAt.msg /\ Stream[1].from = emptiedAt.from

\* A frame whose last packet so far announces more is still being cut up by
\* the thread, exactly where that packet ends.  So the USB thread, which
\* reads nothing while mSendStitching is set, waits for a packet that is
\* sure to be pushed.
NothingCutOff ==
    Stream # <<>> =>
        LET last == Stream[Len(Stream)]
        IN  last.stitch =>
                /\ Fragmenting
                /\ last.msg = lFrontOfQueue
                /\ EndOf(last) = lPacketIndex

\* A frame is cut up in finitely many packets: a stop request made at any
\* moment lets the running thread end, so the join in StopThread returns.
StopEnds == mStopRequest ~> thread # "running"
=============================================================================
