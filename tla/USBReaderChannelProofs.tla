----------------------- MODULE USBReaderChannelProofs -----------------------
(***************************************************************************)
(* What comes from the PSP reaches XLink Kai in whole frames, once each    *)
(* and in order, and in order and not twice even when faults come in.      *)
(***************************************************************************)
EXTENDS USBReaderDuplexProofs

\* A step in which the PSP gets on in its frames finds room for the piece it
\* sends: the receive thread's queue drops nothing.
NoneDropped ==
    <<pspFrame, pspIndex>>' # <<pspFrame, pspIndex>> =>
        Len(receiveQueue) < mMaxBufferedMessages

\* A piece that the PSP has sent: some bytes of a frame that fits in the buffer,
\* marked as the last of them or not.
Genuine(piece) ==
    /\ piece \in Fragments
    /\ piece.from >= 0
    /\ piece.payload > 0
    /\ EndOf(piece) <= piece.msg.length
    /\ piece.stitch <=> EndOf(piece) < piece.msg.length
    /\ piece.msg.length <= cMaxAsynchronousBuffer

\* The pieces in data are the first length bytes of m, each at its place.
Built(data, m, length) ==
    /\ \E first \in data : first.at = 0
    /\ \A piece \in data :
          /\ piece.msg = m /\ piece.from = piece.at
          /\ piece.payload > 0 /\ piece.at + piece.payload <= length
          /\ \/ piece.at + piece.payload = length
             \/ \E next \in data : next.at = piece.at + piece.payload

\* mLastReceivedMessage holds the first length bytes of the frame of the piece
\* the receive thread has taken, and expects the next ones.
Building(length) ==
    /\ lastReceived.stitch
    /\ lastReceived.length = length
    /\ Built(lastReceived.data, receiveFront.msg, length)

\* The receive thread has a piece in hand.
Working == receiveThread \in {"copy", "account", "dispatch"}

\* The pieces waiting go on where the one in hand ends.
Linked ==
    /\ \A i \in 1..Len(receiveQueue) : Genuine(receiveQueue[i])
    /\ \A i \in 1..(Len(receiveQueue) - 1) :
          Follows(receiveQueue[i], receiveQueue[i + 1])
    /\ receiveQueue # <<>> => Follows(receiveFront, receiveQueue[1])

\* second holds bytes of a later frame than first, or more of the same one.
Later(first, second) ==
    IF first.stitch THEN first.msg.id <= second.msg.id
                    ELSE first.msg.id < second.msg.id

\* So it is between any two of them, neighbours or not.
InSequence ==
    /\ \A i \in 1..Len(receiveQueue) : Later(receiveFront, receiveQueue[i])
    /\ \A i, j \in 1..Len(receiveQueue) :
          i < j => Later(receiveQueue[i], receiveQueue[j])

LastRead ==
    IF receiveQueue = <<>> THEN receiveFront ELSE receiveQueue[Len(receiveQueue)]

\* The last piece of them ends where the PSP is.
LastFits ==
    IF pspIndex < pspFrame.length
    THEN LastRead.stitch /\ LastRead.msg = pspFrame /\ EndOf(LastRead) = pspIndex
    ELSE ~LastRead.stitch /\ LastRead.msg.id <= pspFrame.id

\* How far the receive thread is with the piece in hand.
Progress ==
    /\ Working => Genuine(receiveFront)
    /\ receiveThread = "copy" =>
          IF receiveFront.from = 0 THEN lastReceived = Receiver!EmptyMessage
                                   ELSE Building(receiveFront.from)
    /\ receiveThread = "account" =>
          /\ Receiver!WriteOffset = receiveFront.from
          /\ Built(lastReceived.data, receiveFront.msg, EndOf(receiveFront))
    /\ receiveThread = "dispatch" =>
          /\ lastReceived.stitch = receiveFront.stitch
          /\ lastReceived.length = EndOf(receiveFront)
          /\ Built(lastReceived.data, receiveFront.msg, EndOf(receiveFront))
    /\ ~Working =>
          IF receiveFront.stitch THEN Building(EndOf(receiveFront))
                                 ELSE lastReceived = Receiver!EmptyMessage

\* Every message sent is a whole frame, and their frames count up.
SentWhole == \A i \in DOMAIN sent : Receiver!Whole(sent[i])

SentInOrder ==
    \A i, j \in DOMAIN sent : i < j =>
        \A first \in sent[i].data, second \in sent[j].data :
            first.msg.id < second.msg.id

\* They come before the frame of the piece in hand, if that one is not sent yet.
SentBefore ==
    \A i \in DOMAIN sent : \A piece \in sent[i].data :
        /\ piece.msg.id <= receiveFront.msg.id
        /\ Working \/ receiveFront.stitch => piece.msg.id < receiveFront.msg.id

\* What the receive thread has in hand and in its queue.
Pipe == Linked /\ InSequence /\ LastFits /\ Progress /\ SentBefore

\* Why frames arrive whole: between the PSP and mLastReceivedMessage there is
\* at every moment one unbroken run of pieces.  StopThread empties both, after
\* which nothing is put together any more.
PipeInv ==
    /\ main \in {"opening", "closed"} => receiveThread = "none"
    /\ main # "closed" => Pipe
    /\ SentWhole
    /\ SentInOrder

-----------------------------------------------------------------------------

\* What the type invariant says of the receive thread.
LEMMA ReceiverFacts ==
    ASSUME Receiver!TypeOK
    PROVE  /\ receiveQueue \in Seq(Fragments)
           /\ Len(receiveQueue) \in Nat
           /\ \A i \in 1..Len(receiveQueue) : receiveQueue[i] \in Fragments
           /\ receiveFront \in Fragments
           /\ receiveFront.msg \in Message
           /\ receiveFront.from \in Int /\ receiveFront.payload \in Int
           /\ EndOf(receiveFront) \in Int
           /\ receiveFront.stitch \in BOOLEAN
           /\ lastReceived = [data   |-> lastReceived.data,
                              length |-> lastReceived.length,
                              stitch |-> lastReceived.stitch]
           /\ lastReceived.length \in Int
           /\ lastReceived.stitch \in BOOLEAN
           /\ \A piece \in lastReceived.data :
                 piece.at \in Int /\ piece.payload \in Int
           /\ receiveThread \in {"none", "running", "copy", "account",
                                 "dispatch", "exited"}
<1>1. /\ receiveQueue \in Seq(Fragments)
      /\ receiveFront \in Fragments
  BY PiecesAreFragments DEF Receiver!TypeOK
<1>2. /\ lastReceived \in
             [data : SUBSET Receiver!Placed, length : Int, stitch : BOOLEAN]
      /\ receiveThread \in Receiver!ThreadStates
  BY DEF Receiver!TypeOK
<1>3. \A piece \in lastReceived.data : piece.at \in Int /\ piece.payload \in Int
  BY <1>2 DEF Receiver!Placed
<1>4. /\ receiveFront.msg \in Message
      /\ receiveFront.from \in Int /\ receiveFront.payload \in Int
      /\ EndOf(receiveFront) \in Int
      /\ receiveFront.stitch \in BOOLEAN
  BY <1>1 DEF Fragments, EndOf
<1> QED
  BY <1>1, <1>2, <1>3, <1>4 DEF Receiver!ThreadStates

\* What it says of the messages sent.
LEMMA SentFacts ==
    ASSUME Receiver!TypeOK
    PROVE  /\ sent \in Seq([length : Int, data : SUBSET Receiver!Placed])
           /\ Len(sent) \in Nat /\ DOMAIN sent = 1..Len(sent)
           /\ \A i \in DOMAIN sent : \A piece \in sent[i].data :
                 piece.msg.id \in Nat
<1> DEFINE Messages == [length : Int, data : SUBSET Receiver!Placed]
<1>1. sent \in Seq(Messages)
  BY DEF Receiver!TypeOK
<1>2. /\ Len(sent) \in Nat /\ DOMAIN sent = 1..Len(sent)
      /\ \A i \in DOMAIN sent : sent[i] \in Messages
  <2> HIDE DEF Messages
  <2> QED
    BY <1>1
<1>3. \A piece \in Receiver!Placed : piece.msg.id \in Nat
  BY DEF Receiver!Placed, Receiver!Message
<1>4. \A i \in DOMAIN sent : sent[i].data \in SUBSET Receiver!Placed
  BY <1>2
<1> QED
  BY <1>1, <1>2, <1>3, <1>4

\* The frames of the PSP fit in the buffer.
LEMMA LengthsOK ==
    \A length \in PspLengths :
        length \in Nat /\ 0 < length /\ length <= cMaxAsynchronousBuffer
<1> SUFFICES ASSUME NEW length \in PspLengths
             PROVE  length \in Nat /\ 0 < length /\ length <= cMaxAsynchronousBuffer
  OBVIOUS
<1>1. length \in 1..cMaxAsynchronousBuffer
  BY ReaderAssumption
<1> QED
  BY <1>1, FramingAssumption

\* A fragment of a frame of the PSP is such a piece.
LEMMA FragmentGenuine ==
    ASSUME NEW m \in Message, m.length <= cMaxAsynchronousBuffer,
           NEW index \in Nat, index < m.length
    PROVE  /\ Genuine(Fragment(m, index))
           /\ Fragment(m, index).msg = m
           /\ Fragment(m, index).from = index
BY FragmentProgress DEF Genuine, EndOf

\* How a piece arrives: the next one of the frame the PSP is in, or the first
\* one of its next frame.
Arrives(piece) ==
    /\ Genuine(piece)
    /\ piece.msg = pspFrame'
    /\ EndOf(piece) = pspIndex'
    /\ IF pspIndex < pspFrame.length
       THEN pspFrame' = pspFrame /\ piece.from = pspIndex
       ELSE pspFrame'.id = pspFrame.id + 1 /\ piece.from = 0
    /\ Receiver!AddToQueue(piece)

\* Reading brings one piece, or nothing to the receive thread.
LEMMA ReadBringsPiece ==
    ASSUME FaultFree, TypeInv, InStep, ReadPacket
    PROVE  /\ UNCHANGED main
           /\ \/ UNCHANGED <<receiverVars, pspFrame, pspIndex>>
              \/ \E piece : Arrives(piece)
<1>1. PICK packet \in PspPackets : PspSends(packet) /\ ReceiveCallback(packet)
  BY DEF ReadPacket
<1>2. UNCHANGED main
  BY DEF ReadPacket
<1>3. /\ pspFrame \in Message /\ pspFrame.length \in Nat /\ pspIndex \in Nat
  BY DEF TypeInv, PspOK, Message
<1>4. CASE pspIndex < pspFrame.length
  <2>1. /\ packet.piece = Fragment(pspFrame, pspIndex)
        /\ Receiver!AddToQueue(packet.piece)
        /\ pspFrame' = pspFrame
        /\ pspIndex' = EndOf(packet.piece)
    BY <1>1, <1>4, ReadRest
  <2>2. pspFrame.length <= cMaxAsynchronousBuffer
    <3>1. pspFrame.length \in PspLengths
      BY <1>4 DEF InStep
    <3> QED
      BY <3>1, LengthsOK
  <2>3. /\ Genuine(packet.piece)
        /\ packet.piece.msg = pspFrame /\ packet.piece.from = pspIndex
    BY <1>3, <1>4, <2>1, <2>2, FragmentGenuine
  <2> QED
    BY <1>2, <1>4, <2>1, <2>3 DEF Arrives
<1>5. CASE ~(pspIndex < pspFrame.length)
  <2>1. ASSUME /\ Receiver!AddToQueue(packet.piece)
               /\ packet.piece = Fragment(pspFrame', 0)
               /\ pspFrame' \in Message
               /\ pspFrame'.id = pspFrame.id + 1
               /\ pspFrame'.length \in PspLengths
               /\ pspIndex' = EndOf(packet.piece)
        PROVE  Arrives(packet.piece)
    <3>1. 0 < pspFrame'.length /\ pspFrame'.length <= cMaxAsynchronousBuffer
      BY <2>1, LengthsOK
    <3>2. /\ Genuine(packet.piece)
          /\ packet.piece.msg = pspFrame' /\ packet.piece.from = 0
      <4> DEFINE m == pspFrame'
      <4>1. /\ m \in Message /\ m.length <= cMaxAsynchronousBuffer
            /\ 0 < m.length /\ packet.piece = Fragment(m, 0)
        BY <2>1, <3>1
      <4> HIDE DEF m
      <4>2. /\ Genuine(packet.piece)
            /\ packet.piece.msg = m /\ packet.piece.from = 0
        BY <4>1, FragmentGenuine
      <4> QED
        BY <4>2 DEF m
    <3> QED
      BY <1>5, <2>1, <3>2 DEF Arrives
  <2> QED
    BY <1>1, <1>2, <1>5, <2>1, ReadNext
<1> QED
  BY <1>4, <1>5

-----------------------------------------------------------------------------

\* A piece that arrives and finds room goes on where the last one ended.
LEMMA ArriveStep ==
    ASSUME TypeInv, Pipe, NEW piece, Arrives(piece),
           Len(receiveQueue) < mMaxBufferedMessages
    PROVE  Pipe'
<1>1. /\ receiveQueue' = Append(receiveQueue, piece)
      /\ UNCHANGED <<lastReceived, receiveThread, receiveFront, sent>>
  BY DEF Arrives, Receiver!AddToQueue, Receiver!Queued
<1>2. /\ receiveQueue \in Seq(Fragments) /\ Len(receiveQueue) \in Nat
      /\ Genuine(piece) /\ piece \in Fragments
  BY ReceiverFacts DEF TypeInv, Arrives, Genuine
<1>3. /\ Len(receiveQueue') = Len(receiveQueue) + 1
      /\ receiveQueue'[Len(receiveQueue')] = piece
      /\ \A i \in 1..Len(receiveQueue) : receiveQueue'[i] = receiveQueue[i]
      /\ receiveQueue' # <<>>
  BY <1>1, <1>2
<1>4. Follows(LastRead, piece)
  <2>1. CASE pspIndex < pspFrame.length
    BY <2>1 DEF Pipe, LastFits, Arrives, Follows
  <2>2. CASE ~(pspIndex < pspFrame.length)
    <3>1. ~LastRead.stitch /\ LastRead.msg.id <= pspFrame.id
      BY <2>2 DEF Pipe, LastFits
    <3>2. piece.from = 0 /\ piece.msg.id = pspFrame.id + 1 /\ pspFrame.id \in Nat
      BY <2>2 DEF Arrives, TypeInv, PspOK, Message
    <3>3. LastRead \in Fragments
      <4>1. receiveQueue # <<>> => Len(receiveQueue) \in 1..Len(receiveQueue)
        BY <1>2
      <4> QED
        BY <4>1, ReceiverFacts DEF LastRead, TypeInv
    <3>4. LastRead.msg.id \in Nat
      BY <3>3 DEF Fragments, Message
    <3> QED
      BY <3>1, <3>2, <3>4 DEF Follows
  <2> QED
    BY <2>1, <2>2
<1>5. Linked'
  <2>1. \A i \in 1..Len(receiveQueue') : Genuine(receiveQueue'[i])
    BY <1>2, <1>3 DEF Pipe, Linked
  <2>2. \A i \in 1..(Len(receiveQueue') - 1) :
            Follows(receiveQueue'[i], receiveQueue'[i + 1])
    <3> SUFFICES ASSUME NEW i \in 1..(Len(receiveQueue') - 1)
                 PROVE  Follows(receiveQueue'[i], receiveQueue'[i + 1])
      OBVIOUS
    <3>1. CASE i = Len(receiveQueue)
      BY <1>2, <1>3, <1>4, <3>1 DEF LastRead
    <3>2. CASE i # Len(receiveQueue)
      <4>1. i \in 1..(Len(receiveQueue) - 1) /\ i + 1 \in 1..Len(receiveQueue)
        BY <1>2, <1>3, <3>2
      <4> QED
        BY <1>2, <1>3, <4>1 DEF Pipe, Linked
    <3> QED
      BY <3>1, <3>2
  <2>3. Follows(receiveFront, receiveQueue'[1])
    <3>1. CASE receiveQueue = <<>>
      BY <1>3, <1>4, <3>1 DEF LastRead
    <3>2. CASE receiveQueue # <<>>
      BY <1>2, <1>3, <3>2 DEF Pipe, Linked
    <3> QED
      BY <3>1, <3>2
  <2> QED
    BY <1>1, <2>1, <2>2, <2>3 DEF Linked
<1>6. LastFits'
  <2>1. LastRead' = piece
    BY <1>3 DEF LastRead
  <2>2. /\ piece.msg = pspFrame' /\ EndOf(piece) = pspIndex'
        /\ piece.stitch <=> EndOf(piece) < piece.msg.length
        /\ piece.msg.id \in Nat
    BY <1>2 DEF Arrives, Genuine, Fragments, Message
  <2>3. /\ piece.stitch <=> pspIndex' < pspFrame'.length
        /\ piece.msg.id <= pspFrame'.id
    BY <2>2
  <2> QED
    BY <2>1, <2>2, <2>3 DEF LastFits
<1>7. Progress' /\ SentBefore'
  BY <1>1 DEF Pipe, Progress, Working, Building, Receiver!WriteOffset, SentBefore
<1>8. InSequence'
  <2>1. ASSUME NEW earlier \in Fragments,
               earlier = LastRead \/ Later(earlier, LastRead)
        PROVE  Later(earlier, piece)
    <3>1. LastRead \in Fragments
      <4>1. receiveQueue # <<>> => Len(receiveQueue) \in 1..Len(receiveQueue)
        BY <1>2
      <4> QED
        BY <4>1, ReceiverFacts DEF LastRead, TypeInv
    <3>2. /\ earlier.msg.id \in Nat /\ LastRead.msg.id \in Nat
          /\ piece.msg.id \in Nat
      BY <1>2, <3>1 DEF Fragments, Message
    <3> QED
      BY <1>4, <2>1, <3>2 DEF Later, Follows
  <2>2. Later(receiveFront, piece)
    <3>1. receiveFront = LastRead \/ Later(receiveFront, LastRead)
      BY <1>2 DEF Pipe, InSequence, LastRead
    <3> QED
      BY <2>1, <3>1, ReceiverFacts DEF TypeInv
  <2>3. \A i \in 1..Len(receiveQueue) : Later(receiveQueue[i], piece)
    <3> SUFFICES ASSUME NEW i \in 1..Len(receiveQueue)
                 PROVE  Later(receiveQueue[i], piece)
      OBVIOUS
    <3>1. LastRead = receiveQueue[Len(receiveQueue)]
      BY <1>2 DEF LastRead
    <3>2. receiveQueue[i] = LastRead \/ Later(receiveQueue[i], LastRead)
      BY <1>2, <3>1 DEF Pipe, InSequence
    <3> QED
      BY <1>2, <2>1, <3>2
  <2>4. \A i \in 1..Len(receiveQueue') :
            \/ i \in 1..Len(receiveQueue) /\ receiveQueue'[i] = receiveQueue[i]
            \/ i = Len(receiveQueue) + 1 /\ receiveQueue'[i] = piece
    BY <1>2, <1>3
  <2>5. \A i \in 1..Len(receiveQueue') : Later(receiveFront, receiveQueue'[i])
    BY <2>2, <2>4 DEF Pipe, InSequence
  <2>6. \A i, j \in 1..Len(receiveQueue') :
            i < j => Later(receiveQueue'[i], receiveQueue'[j])
    BY <1>2, <2>3, <2>4 DEF Pipe, InSequence
  <2> QED
    BY <1>1, <2>5, <2>6 DEF InSequence
<1> QED
  BY <1>5, <1>6, <1>7, <1>8 DEF Pipe

\* The piece that is taken out of the queue goes on where the last one taken
\* ended.
LEMMA PopStep ==
    ASSUME TypeInv, Pipe, Receiver!Pop, UNCHANGED <<pspFrame, pspIndex>>
    PROVE  Pipe'
<1>1. /\ receiveThread = "running" /\ receiveThread' = "copy"
      /\ receiveQueue # <<>>
      /\ receiveFront' = Head(receiveQueue)
      /\ receiveQueue' = Tail(receiveQueue)
      /\ UNCHANGED <<lastReceived, sent>>
  BY DEF Receiver!Pop
<1>2. receiveQueue \in Seq(Fragments) /\ Len(receiveQueue) \in Nat
  BY ReceiverFacts DEF TypeInv
<1>3. /\ Len(receiveQueue') = Len(receiveQueue) - 1
      /\ 1 \in 1..Len(receiveQueue)
      /\ receiveFront' = receiveQueue[1]
      /\ \A i \in 1..Len(receiveQueue') :
            i + 1 \in 1..Len(receiveQueue) /\ receiveQueue'[i] = receiveQueue[i + 1]
      /\ receiveQueue' = <<>> => Len(receiveQueue) = 1
      /\ receiveQueue' # <<>> => Len(receiveQueue') \in 1..Len(receiveQueue')
  <2>1. /\ receiveQueue' \in Seq(Fragments) /\ Len(receiveQueue') \in Nat
        /\ Len(receiveQueue') = Len(receiveQueue) - 1
    BY <1>1, <1>2
  <2>2. receiveQueue' = <<>> => Len(receiveQueue') = 0
    OBVIOUS
  <2>3. receiveQueue' # <<>> => Len(receiveQueue') > 0
    BY <2>1
  <2>4. \A i \in 1..Len(receiveQueue') :
            i + 1 \in 1..Len(receiveQueue) /\ receiveQueue'[i] = receiveQueue[i + 1]
    BY <1>1, <1>2, <2>1
  <2> QED
    BY <1>1, <1>2, <2>1, <2>2, <2>3, <2>4
<1>4. Linked'
  <2>1. \A i \in 1..Len(receiveQueue') : Genuine(receiveQueue'[i])
    BY <1>3 DEF Pipe, Linked
  <2>2. \A i \in 1..(Len(receiveQueue') - 1) :
            Follows(receiveQueue'[i], receiveQueue'[i + 1])
    <3> SUFFICES ASSUME NEW i \in 1..(Len(receiveQueue') - 1)
                 PROVE  Follows(receiveQueue'[i], receiveQueue'[i + 1])
      OBVIOUS
    <3>1. /\ i \in 1..Len(receiveQueue') /\ i + 1 \in 1..Len(receiveQueue')
          /\ i + 1 \in 1..(Len(receiveQueue) - 1)
      BY <1>2, <1>3
    <3> QED
      BY <1>3, <3>1 DEF Pipe, Linked
  <2>3. receiveQueue' # <<>> => Follows(receiveFront', receiveQueue'[1])
    <3> SUFFICES ASSUME receiveQueue' # <<>>
                 PROVE  Follows(receiveFront', receiveQueue'[1])
      OBVIOUS
    <3>1. 1 \in 1..Len(receiveQueue') /\ 1 \in 1..(Len(receiveQueue) - 1)
      BY <1>2, <1>3
    <3> QED
      BY <1>3, <3>1 DEF Pipe, Linked
  <2> QED
    BY <2>1, <2>2, <2>3 DEF Linked
<1>5. LastFits'
  <2>1. LastRead' = LastRead
    <3>1. CASE receiveQueue' = <<>>
      BY <1>1, <1>3, <3>1 DEF LastRead
    <3>2. CASE receiveQueue' # <<>>
      BY <1>1, <1>2, <1>3, <3>2 DEF LastRead
    <3> QED
      BY <3>1, <3>2
  <2> QED
    BY <2>1 DEF Pipe, LastFits
<1>6. /\ Genuine(receiveFront') /\ Follows(receiveFront, receiveFront')
      /\ receiveFront'.from \in Int /\ receiveFront'.msg.id \in Nat
  BY <1>1, <1>3 DEF Pipe, Linked, Genuine, Fragments, Message
<1>7. Progress'
  <2>1. IF receiveFront'.from = 0
        THEN lastReceived' = Receiver!EmptyMessage
        ELSE Building(receiveFront.from)'
    <3>1. CASE receiveFront.stitch
      <4>1. Building(EndOf(receiveFront))
        BY <1>1, <3>1 DEF Pipe, Progress, Working
      <4>2. receiveFront'.msg = receiveFront.msg /\ receiveFront'.from = EndOf(receiveFront)
        BY <1>6, <3>1 DEF Follows
      <4>3. EndOf(receiveFront) # 0
        <5>1. PICK first \in lastReceived.data : first.at = 0
          BY <4>1 DEF Building, Built
        <5>2. first.payload > 0 /\ first.at + first.payload <= EndOf(receiveFront)
          BY <4>1, <5>1 DEF Building, Built
        <5>3. first.payload \in Int /\ EndOf(receiveFront) \in Int
          BY <5>1, ReceiverFacts DEF TypeInv
        <5> QED
          BY <5>1, <5>2, <5>3
      <4> QED
        BY <1>1, <4>1, <4>2, <4>3 DEF Building
    <3>2. CASE ~receiveFront.stitch
      BY <1>1, <1>6, <3>2 DEF Pipe, Progress, Working, Follows
    <3> QED
      BY <3>1, <3>2
  <2> QED
    BY <1>1, <1>6, <2>1 DEF Progress, Working
<1>8. SentBefore'
  <2> SUFFICES ASSUME NEW i \in DOMAIN sent, NEW piece \in sent[i].data
               PROVE  piece.msg.id <= receiveFront'.msg.id /\ piece.msg.id < receiveFront'.msg.id
    BY <1>1 DEF SentBefore
  <2>1. /\ piece.msg.id <= receiveFront.msg.id
        /\ receiveFront.stitch => piece.msg.id < receiveFront.msg.id
    BY DEF Pipe, SentBefore
  <2>2. piece.msg.id \in Nat /\ receiveFront.msg.id \in Nat
    BY ReceiverFacts, SentFacts DEF TypeInv, Message
  <2>3. IF receiveFront.stitch THEN receiveFront'.msg = receiveFront.msg
                               ELSE receiveFront'.msg.id > receiveFront.msg.id
    BY <1>6 DEF Follows
  <2> QED
    BY <1>6, <2>1, <2>2, <2>3
<1>9. InSequence'
  <2>1. \A i \in 1..Len(receiveQueue') : Later(receiveFront', receiveQueue'[i])
    <3> SUFFICES ASSUME NEW i \in 1..Len(receiveQueue')
                 PROVE  Later(receiveQueue[1], receiveQueue[i + 1])
      BY <1>3
    <3>1. 1 < i + 1 /\ i + 1 \in 1..Len(receiveQueue)
      BY <1>3
    <3> QED
      BY <1>3, <3>1 DEF Pipe, InSequence
  <2>2. \A i, j \in 1..Len(receiveQueue') :
            i < j => Later(receiveQueue'[i], receiveQueue'[j])
    BY <1>3 DEF Pipe, InSequence
  <2> QED
    BY <2>1, <2>2 DEF InSequence
<1> QED
  BY <1>4, <1>5, <1>7, <1>8, <1>9 DEF Pipe

\* The next piece of a frame is put right behind the bytes that are there.
LEMMA BuiltGrows ==
    ASSUME NEW data, NEW kept, NEW piece, Genuine(piece), NEW placed,
           \A old \in data : old.at \in Int /\ old.payload \in Int,
           piece.from # 0 => Built(data, piece.msg, piece.from),
           piece.from = 0 => data = {},
           kept = {old \in data : old.at < piece.from
                                  \/ old.at >= piece.from + piece.payload},
           placed = [at |-> piece.from, msg |-> piece.msg, from |-> piece.from,
                     payload |-> piece.payload]
    PROVE  Built(kept \cup {placed}, piece.msg, EndOf(piece))
<1>1. /\ piece.from \in Nat /\ piece.payload \in Nat /\ piece.payload > 0
      /\ EndOf(piece) = piece.from + piece.payload
  BY DEF Genuine, Fragments, EndOf
<1>2. /\ placed.at = piece.from /\ placed.from = piece.from
      /\ placed.msg = piece.msg /\ placed.payload = piece.payload
  OBVIOUS
<1>3. ASSUME NEW old \in data
      PROVE  /\ old.msg = piece.msg /\ old.from = old.at
             /\ old.payload > 0 /\ old.at + old.payload <= piece.from
             /\ old.at < piece.from
             /\ \/ old.at + old.payload = piece.from
                \/ \E next \in data : next.at = old.at + old.payload
  <2>1. Built(data, piece.msg, piece.from)
    BY <1>3
  <2>2. old.at \in Int /\ old.payload \in Int
    BY <1>3
  <2> QED
    BY <1>1, <2>1, <2>2 DEF Built
<1>4. kept = data
  BY <1>3
<1>5. \E first \in data \cup {placed} : first.at = 0
  <2>1. CASE piece.from = 0
    BY <1>2, <2>1
  <2>2. CASE piece.from # 0
    BY <2>2 DEF Built
  <2> QED
    BY <2>1, <2>2
<1>6. ASSUME NEW old \in data
      PROVE  /\ old.msg = piece.msg /\ old.from = old.at
             /\ old.payload > 0 /\ old.at + old.payload <= EndOf(piece)
             /\ \E next \in data \cup {placed} : next.at = old.at + old.payload
  BY <1>1, <1>2, <1>3, <1>6
<1>7. /\ placed.msg = piece.msg /\ placed.from = placed.at
      /\ placed.payload > 0 /\ placed.at + placed.payload = EndOf(piece)
      /\ placed.at + placed.payload <= EndOf(piece)
  BY <1>1, <1>2
<1> QED
  BY <1>4, <1>5, <1>6, <1>7 DEF Built

\* Copy puts the piece where it was in its frame.
LEMMA CopyStep ==
    ASSUME TypeInv, Pipe, Receiver!Copy, UNCHANGED <<pspFrame, pspIndex>>
    PROVE  Pipe'
<1> DEFINE placed == [at      |-> receiveFront.from,
                      msg     |-> receiveFront.msg,
                      from    |-> receiveFront.from,
                      payload |-> receiveFront.payload]
           kept == {piece \in lastReceived.data :
                       \/ piece.at < receiveFront.from
                       \/ piece.at >= receiveFront.from + receiveFront.payload}
<1>1. /\ receiveThread = "copy" /\ receiveThread' = "account"
      /\ UNCHANGED <<receiveQueue, receiveFront, sent>>
  BY DEF Receiver!Copy
<1>2. /\ Genuine(receiveFront)
      /\ receiveFront.from = 0 => lastReceived = Receiver!EmptyMessage
      /\ receiveFront.from # 0 => Building(receiveFront.from)
  BY <1>1 DEF Pipe, Progress, Working
<1>3. Receiver!WriteOffset = receiveFront.from
  BY <1>2 DEF Receiver!WriteOffset, Building, Receiver!EmptyMessage
<1>4. lastReceived' = [lastReceived EXCEPT !.data = kept \cup {placed}]
  BY <1>3 DEF Receiver!Copy
<1>5. Built(kept \cup {placed}, receiveFront.msg, EndOf(receiveFront))
  <2>1. /\ receiveFront.from # 0 =>
               Built(lastReceived.data, receiveFront.msg, receiveFront.from)
        /\ receiveFront.from = 0 => lastReceived.data = {}
        /\ \A piece \in lastReceived.data : piece.at \in Int /\ piece.payload \in Int
    BY <1>2, ReceiverFacts DEF Building, Receiver!EmptyMessage, TypeInv
  <2> QED
    BY <1>2, <2>1, BuiltGrows
<1> HIDE DEF kept, placed
<1>6. /\ lastReceived'.data = kept \cup {placed}
      /\ lastReceived'.length = lastReceived.length
      /\ lastReceived'.stitch = lastReceived.stitch
  BY <1>4, ReceiverFacts DEF TypeInv
<1>7. Progress'
  BY <1>1, <1>2, <1>3, <1>5, <1>6 DEF Progress, Working, Receiver!WriteOffset
<1>8. Linked' /\ InSequence' /\ LastFits' /\ SentBefore'
  BY <1>1 DEF Pipe, Linked, InSequence, LastFits, LastRead, SentBefore, Working
<1> QED
  BY <1>7, <1>8 DEF Pipe

\* Account makes the length catch up.
LEMMA AccountStep ==
    ASSUME TypeInv, Pipe, Receiver!Account, UNCHANGED <<pspFrame, pspIndex>>
    PROVE  Pipe'
<1>1. /\ receiveThread = "account" /\ receiveThread' = "dispatch"
      /\ UNCHANGED <<receiveQueue, receiveFront, sent>>
      /\ lastReceived' =
             [lastReceived EXCEPT !.length = Receiver!WriteOffset + receiveFront.payload,
                                  !.stitch = receiveFront.stitch]
  BY DEF Receiver!Account
<1>2. /\ Genuine(receiveFront)
      /\ Receiver!WriteOffset = receiveFront.from
      /\ Built(lastReceived.data, receiveFront.msg, EndOf(receiveFront))
  BY <1>1 DEF Pipe, Progress, Working
<1>3. /\ lastReceived'.data = lastReceived.data
      /\ lastReceived'.length = EndOf(receiveFront)
      /\ lastReceived'.stitch = receiveFront.stitch
  BY <1>1, <1>2, ReceiverFacts DEF TypeInv, EndOf
<1>4. Progress'
  BY <1>1, <1>2, <1>3 DEF Progress, Working
<1>5. Linked' /\ InSequence' /\ LastFits' /\ SentBefore'
  BY <1>1 DEF Pipe, Linked, InSequence, LastFits, LastRead, SentBefore, Working
<1> QED
  BY <1>4, <1>5 DEF Pipe

\* What Dispatch sends is what was put together, which never is too long.
LEMMA DispatchOutcome ==
    ASSUME TypeInv, Pipe, Receiver!Dispatch
    PROVE  /\ Genuine(receiveFront)
           /\ Built(lastReceived.data, receiveFront.msg, EndOf(receiveFront))
           /\ lastReceived.stitch = receiveFront.stitch
           /\ lastReceived.length = EndOf(receiveFront)
           /\ IF receiveFront.stitch
              THEN UNCHANGED <<lastReceived, sent>>
              ELSE /\ lastReceived' = Receiver!EmptyMessage
                   /\ sent' = Append(sent, [length |-> receiveFront.msg.length,
                                            data   |-> lastReceived.data])
<1>1. /\ Genuine(receiveFront)
      /\ lastReceived.stitch = receiveFront.stitch
      /\ lastReceived.length = EndOf(receiveFront)
      /\ Built(lastReceived.data, receiveFront.msg, EndOf(receiveFront))
  BY DEF Pipe, Progress, Working, Receiver!Dispatch
<1>2. /\ EndOf(receiveFront) \in Int
      /\ EndOf(receiveFront) <= receiveFront.msg.length
      /\ ~receiveFront.stitch => EndOf(receiveFront) = receiveFront.msg.length
      /\ receiveFront.msg.length \in Nat
      /\ receiveFront.msg.length <= cMaxAsynchronousBuffer
      /\ cMaxAsynchronousBuffer \in Nat
      /\ \A piece \in lastReceived.data : piece.at \in Int /\ piece.payload \in Int
  BY <1>1, ReceiverFacts, FramingAssumption DEF Genuine, TypeInv, Message
<1>3. ~(lastReceived.length > cMaxAsynchronousBuffer)
  BY <1>1, <1>2
<1>4. {piece \in lastReceived.data : piece.at < lastReceived.length} = lastReceived.data
  BY <1>1, <1>2 DEF Built
<1>5. Receiver!Contents(lastReceived)
          = [length |-> lastReceived.length, data |-> lastReceived.data]
  BY <1>4 DEF Receiver!Contents
<1> QED
  BY <1>1, <1>2, <1>3, <1>5 DEF Receiver!Dispatch

\* That is the whole frame of the piece in hand.
LEMMA DispatchStep ==
    ASSUME TypeInv, Pipe, SentWhole, SentInOrder, Receiver!Dispatch,
           UNCHANGED <<pspFrame, pspIndex>>
    PROVE  Pipe' /\ SentWhole' /\ SentInOrder'
<1> DEFINE message == [length |-> receiveFront.msg.length,
                       data   |-> lastReceived.data]
<1>1. /\ receiveThread = "dispatch" /\ receiveThread' = "running"
      /\ UNCHANGED <<receiveQueue, receiveFront>>
  BY DEF Receiver!Dispatch
<1>2. Linked' /\ InSequence' /\ LastFits'
  BY <1>1 DEF Pipe, Linked, InSequence, LastFits, LastRead
<1>3. Progress'
  BY <1>1, DispatchOutcome DEF Progress, Working, Building
<1>4. \A i \in DOMAIN sent : \A piece \in sent[i].data :
          piece.msg.id < receiveFront.msg.id /\ piece.msg.id \in Nat
  BY <1>1, SentFacts DEF Pipe, SentBefore, Working, TypeInv
<1>5. CASE receiveFront.stitch
  <2>1. sent' = sent
    BY <1>5, DispatchOutcome
  <2>2. SentBefore'
    BY <1>1, <1>5, <2>1 DEF Pipe, SentBefore, Working
  <2> QED
    BY <1>2, <1>3, <2>1, <2>2 DEF Pipe, SentWhole, SentInOrder
<1>6. CASE ~receiveFront.stitch
  <2>1. Built(message.data, receiveFront.msg, message.length)
    BY <1>6, ReceiverFacts, DispatchOutcome DEF Genuine, TypeInv, Message
  <2>2. Receiver!Whole(message)
    BY <2>1 DEF Built, Receiver!Whole
  <2>3. \A piece \in message.data : piece.msg = receiveFront.msg
    BY <2>1 DEF Built
  <2>4. sent' = Append(sent, message)
    BY <1>6, DispatchOutcome
  <2> HIDE DEF message
  <2>5. /\ Len(sent) \in Nat
        /\ DOMAIN sent = 1..Len(sent) /\ DOMAIN sent' = 1..(Len(sent) + 1)
        /\ \A i \in DOMAIN sent' : \/ i \in DOMAIN sent /\ sent'[i] = sent[i]
                                   \/ i = Len(sent) + 1 /\ sent'[i] = message
    BY <2>4, SentFacts DEF TypeInv
  <2>6. SentWhole'
    BY <2>2, <2>5 DEF SentWhole, Receiver!Whole
  <2>7. SentInOrder'
    <3> SUFFICES ASSUME NEW i \in DOMAIN sent', NEW j \in DOMAIN sent', i < j,
                        NEW first \in sent'[i].data, NEW second \in sent'[j].data
                 PROVE  first.msg.id < second.msg.id
      BY DEF SentInOrder
    <3>1. i \in DOMAIN sent /\ sent'[i] = sent[i]
      BY <2>5
    <3>2. CASE j \in DOMAIN sent /\ sent'[j] = sent[j]
      BY <3>1, <3>2 DEF SentInOrder
    <3>3. CASE sent'[j] = message
      BY <1>4, <2>3, <3>1, <3>3
    <3> QED
      BY <2>5, <3>2, <3>3
  <2>8. SentBefore'
    <3> SUFFICES ASSUME NEW i \in DOMAIN sent', NEW piece \in sent'[i].data
                 PROVE  piece.msg.id <= receiveFront.msg.id
      BY <1>1, <1>6 DEF SentBefore, Working
    <3>1. receiveFront.msg.id \in Nat
      BY ReceiverFacts DEF TypeInv, Message
    <3>2. CASE i \in DOMAIN sent /\ sent'[i] = sent[i]
      BY <1>4, <3>1, <3>2
    <3>3. CASE sent'[i] = message
      BY <2>3, <3>1, <3>3
    <3> QED
      BY <2>5, <3>2, <3>3
  <2> QED
    BY <1>2, <1>3, <2>6, <2>7, <2>8 DEF Pipe
<1> QED
  BY <1>5, <1>6

\* What is left of the receive thread's steps does not touch what it has read.
LEMMA PipeUnmoved ==
    ASSUME TypeInv, Pipe,
           UNCHANGED <<receiveQueue, lastReceived, receiveFront, sent,
                       pspFrame, pspIndex>>,
           receiveThread' = receiveThread \/ (~Working /\ ~Working')
    PROVE  Pipe'
<1>1. UNCHANGED Working
  BY DEF Working
<1>2. Linked' /\ InSequence' /\ LastFits' /\ SentBefore'
  BY <1>1 DEF Pipe, Linked, InSequence, LastFits, LastRead, SentBefore
<1>3. Progress'
  BY <1>1 DEF Pipe, Progress, Working, Building, Receiver!WriteOffset
<1> QED
  BY <1>2, <1>3 DEF Pipe

\* Without faults the receive thread, the PSP and the main thread move together
\* in these ways only.
LEMMA PipeMoves ==
    ASSUME FaultFree, TypeInv, Calm, InStep, [Next]_vars
    PROVE  \/ /\ UNCHANGED <<receiverVars, pspFrame, pspIndex>>
              /\ main' = "opening" => main = "opening"
              /\ main' = "closed" => main \in {"opening", "closed"}
              /\ main = "closed" => main' = "closed"
           \/ (\E piece : Arrives(piece)) /\ UNCHANGED main
           \/ Receiver!ThreadStep /\ UNCHANGED <<main, pspFrame, pspIndex>>
           \/ /\ Receiver!StartThread /\ main = "opening" /\ main' = "running"
              /\ UNCHANGED <<pspFrame, pspIndex>>
           \/ /\ Receiver!RequestStop
              /\ main = "stopReceiver" /\ main' = "joinReceiver"
              /\ UNCHANGED <<pspFrame, pspIndex>>
           \/ /\ Receiver!Join /\ main' = "closed"
              /\ UNCHANGED <<pspFrame, pspIndex>>
<1>1. ~HandleError /\ ~ReadFault /\ ~Unplug
  BY NoRestart, NoFault DEF ReadFault, Unplug, Calm
<1>2. CASE ReadPacket
  <2>1. UNCHANGED main /\ (\/ UNCHANGED <<receiverVars, pspFrame, pspIndex>>
                           \/ \E piece : Arrives(piece))
    BY <1>2, ReadBringsPiece
  <2> QED
    BY <2>1
<1>3. CASE ReceiverStep
  BY <1>3 DEF ReceiverStep, pspVars
<1>4. CASE StartReceiverThread
  BY <1>4 DEF StartReceiverThread, pspVars
<1>5. CASE StopReceiver
  BY <1>5 DEF StopReceiver, pspVars
<1>6. CASE JoinReceiver
  BY <1>6 DEF JoinReceiver, pspVars
<1>7. CASE \/ LoopCondition \/ StopBranch \/ CheckDevice \/ BailOut \/ NoError
           \/ ReadTimeout \/ ReadNull \/ WritePacket \/ WriteDone \/ SenderStep
           \/ Send \/ Plug \/ Finished \/ MainOpen \/ UNCHANGED vars
  <2>1. UNCHANGED <<receiverVars, main, pspFrame, pspIndex>>
    BY <1>7 DEF LoopCondition, StopBranch, CheckDevice, BailOut, NoError,
       ReadTimeout, ReadNull, WritePacket, WriteDone, SenderStep, Send, Plug,
       Finished, MainOpen, vars, pspVars
  <2> QED
    BY <2>1
<1>8. CASE MainGivesUp \/ Close \/ JoinUsb \/ StopSender \/ JoinSender
  BY <1>8 DEF MainGivesUp, Close, JoinUsb, StopSender, JoinSender, pspVars
<1> QED
  BY <1>1, <1>2, <1>3, <1>4, <1>5, <1>6, <1>7, <1>8 DEF Next, UsbStep, Closing

\* There is room for a piece that arrives.
LEMMA FindsRoom ==
    ASSUME TypeInv, NoneDropped, NEW piece, Arrives(piece)
    PROVE  Len(receiveQueue) < mMaxBufferedMessages
<1>1. pspFrame' # pspFrame \/ pspIndex' # pspIndex
  <2>1. /\ piece.payload > 0 /\ piece.payload \in Int /\ piece.from \in Int
        /\ EndOf(piece) = piece.from + piece.payload
    BY DEF Arrives, Genuine, Fragments, EndOf
  <2>2. CASE pspIndex < pspFrame.length
    BY <2>1, <2>2 DEF Arrives
  <2>3. CASE ~(pspIndex < pspFrame.length)
    BY <2>3 DEF Arrives, TypeInv, PspOK, Message
  <2> QED
    BY <2>2, <2>3
<1> QED
  BY <1>1 DEF NoneDropped

\* Every one of them leaves an unbroken run of pieces.
LEMMA PipeStep ==
    ASSUME FaultFree, TypeInv, Calm, InStep, PipeInv, NoneDropped, [Next]_vars
    PROVE  PipeInv'
<1> USE DEF PipeInv, receiverVars
<1>1. CASE /\ UNCHANGED <<receiverVars, pspFrame, pspIndex>>
           /\ main' = "opening" => main = "opening"
           /\ main' = "closed" => main \in {"opening", "closed"}
           /\ main = "closed" => main' = "closed"
  <2>1. ASSUME main' # "closed"
        PROVE  Pipe'
    <3>1. Pipe
      BY <1>1, <2>1
    <3>2. UNCHANGED <<receiveQueue, lastReceived, receiveFront, sent, pspFrame,
                      pspIndex, receiveThread>>
      BY <1>1
    <3> HIDE DEF PipeInv
    <3> QED
      BY <3>1, <3>2, PipeUnmoved
  <2>2. SentWhole' /\ SentInOrder'
    BY <1>1 DEF SentWhole, SentInOrder, Receiver!Whole
  <2> QED
    BY <1>1, <2>1, <2>2
<1>2. CASE (\E piece : Arrives(piece)) /\ UNCHANGED main
  <2>1. PICK piece : Arrives(piece)
    BY <1>2
  <2>2. Len(receiveQueue) < mMaxBufferedMessages
    BY <2>1, FindsRoom
  <2>3. main # "closed" => Pipe'
    BY <2>1, <2>2, ArriveStep
  <2>4. UNCHANGED <<sent, receiveThread>>
    BY <2>1 DEF Arrives, Receiver!AddToQueue
  <2>5. SentWhole' /\ SentInOrder'
    BY <2>4 DEF SentWhole, SentInOrder, Receiver!Whole
  <2> QED
    BY <1>2, <2>3, <2>4, <2>5
<1>3. CASE Receiver!ThreadStep /\ UNCHANGED <<main, pspFrame, pspIndex>>
  <2>1. receiveThread # "none" /\ main \notin {"opening", "closed"}
    BY <1>3 DEF Receiver!ThreadStep, Receiver!Pop, Receiver!Copy,
       Receiver!Account, Receiver!Dispatch, Receiver!Exit
  <2>2. Pipe
    BY <2>1
  <2>3. CASE Receiver!Dispatch
    BY <1>3, <2>1, <2>2, <2>3, DispatchStep
  <2>4. CASE Receiver!Pop \/ Receiver!Copy \/ Receiver!Account \/ Receiver!Exit
    <3>1. UNCHANGED sent
      BY <2>4 DEF Receiver!Pop, Receiver!Copy, Receiver!Account, Receiver!Exit
    <3>2. SentWhole' /\ SentInOrder'
      BY <3>1 DEF SentWhole, SentInOrder, Receiver!Whole
    <3>3. Receiver!Exit => Pipe'
      <4> SUFFICES ASSUME Receiver!Exit PROVE Pipe'
        OBVIOUS
      <4>1. ~Working /\ ~Working'
        BY DEF Receiver!Exit, Working
      <4> QED
        BY <1>3, <2>2, <4>1, PipeUnmoved DEF Receiver!Exit
    <3>4. Pipe'
      BY <1>3, <2>2, <2>4, <3>3, PopStep, CopyStep, AccountStep
    <3> QED
      BY <1>3, <2>1, <3>2, <3>4
  <2> QED
    BY <1>3, <2>3, <2>4 DEF Receiver!ThreadStep
<1>4. CASE /\ Receiver!StartThread /\ main = "opening" /\ main' = "running"
           /\ UNCHANGED <<pspFrame, pspIndex>>
  <2>1. ~Working /\ ~Working'
    BY <1>4 DEF Receiver!StartThread, Working
  <2>2. Pipe'
    BY <1>4, <2>1, PipeUnmoved DEF Receiver!StartThread
  <2>3. SentWhole' /\ SentInOrder'
    BY <1>4 DEF Receiver!StartThread, SentWhole, SentInOrder, Receiver!Whole
  <2> QED
    BY <1>4, <2>2, <2>3
<1>5. CASE /\ Receiver!RequestStop
           /\ main = "stopReceiver" /\ main' = "joinReceiver"
           /\ UNCHANGED <<pspFrame, pspIndex>>
  <2>1. Pipe'
    <3>1. Pipe
      BY <1>5
    <3>2. UNCHANGED <<lastReceived, receiveFront, sent, pspFrame, pspIndex,
                      receiveQueue, receiveThread>>
      BY <1>5 DEF Receiver!RequestStop
    <3> HIDE DEF PipeInv
    <3> QED
      BY <3>1, <3>2, PipeUnmoved
  <2>2. SentWhole' /\ SentInOrder'
    BY <1>5 DEF Receiver!RequestStop, SentWhole, SentInOrder, Receiver!Whole
  <2> QED
    BY <1>5, <2>1, <2>2
<1>6. CASE /\ Receiver!Join /\ main' = "closed"
           /\ UNCHANGED <<pspFrame, pspIndex>>
  <2>1. receiveThread' = "none" /\ UNCHANGED sent
    BY <1>6 DEF Receiver!Join
  <2>2. SentWhole' /\ SentInOrder'
    BY <2>1 DEF SentWhole, SentInOrder, Receiver!Whole
  <2> QED
    BY <1>6, <2>1, <2>2
<1> HIDE DEF PipeInv
<1> QED
  BY <1>1, <1>2, <1>3, <1>4, <1>5, <1>6, PipeMoves

\* At the start there is nothing to put together.
LEMMA InitPipeInv ==
    ASSUME Init
    PROVE  PipeInv
<1>1. /\ receiveThread = "none" /\ receiveQueue = <<>> /\ sent = <<>>
      /\ lastReceived = Receiver!EmptyMessage
      /\ ~receiveFront.stitch /\ receiveFront.msg.id = 0
      /\ pspIndex = 0 /\ pspFrame.id = 0 /\ pspFrame.length = 0
  BY DEF Init, Receiver!Init, Receiver!NoPiece, Receiver!NoMessage, NoMessage
<1>2. Linked /\ InSequence /\ LastFits /\ SentBefore
  BY <1>1 DEF Linked, InSequence, LastFits, LastRead, SentBefore
<1>3. Progress
  BY <1>1 DEF Progress, Working
<1>4. SentWhole /\ SentInOrder
  BY <1>1 DEF SentWhole, SentInOrder
<1> QED
  BY <1>1, <1>2, <1>3, <1>4 DEF PipeInv, Pipe

\* So it is in every reachable state.
THEOREM PipeInvariance ==
    ASSUME FaultFree
    PROVE  Spec /\ [][NoneDropped]_vars => []PipeInv
<1>1. TypeInv /\ DuplexInv /\ PipeInv /\ [Next]_vars /\ [NoneDropped]_vars
      => PipeInv'
  <2> SUFFICES ASSUME TypeInv, DuplexInv, PipeInv, [Next]_vars, [NoneDropped]_vars
               PROVE  PipeInv'
    OBVIOUS
  <2>1. NoneDropped
    BY DEF NoneDropped, vars, pspVars
  <2> QED
    BY <2>1, PipeStep DEF DuplexInv
<1>2. Init => PipeInv
  BY InitPipeInv
<1> QED
  BY <1>1, <1>2, TypeInvariance, DuplexInvariance, PTL DEF Spec

\* CopyFits: without faults and with room in its queue the receive thread never
\* writes behind the end of the buffer in mLastReceivedMessage.
THEOREM CopyAlwaysFits ==
    ASSUME FaultFree
    PROVE  Spec /\ [][NoneDropped]_vars => []CopyFits
<1>1. TypeInv /\ PipeInv => CopyFits
  <2> SUFFICES ASSUME TypeInv, PipeInv, receiveThread = "copy"
               PROVE  Receiver!WriteOffset + receiveFront.payload
                          <= cMaxAsynchronousBuffer
    BY DEF CopyFits
  <2>1. main # "closed"
    BY DEF PipeInv
  <2>2. /\ Genuine(receiveFront)
        /\ IF receiveFront.from = 0 THEN lastReceived = Receiver!EmptyMessage
                                    ELSE Building(receiveFront.from)
    BY <2>1 DEF PipeInv, Pipe, Progress, Working
  <2>3. Receiver!WriteOffset = receiveFront.from
    BY <2>2 DEF Receiver!WriteOffset, Building, Receiver!EmptyMessage
  <2>4. /\ EndOf(receiveFront) = receiveFront.from + receiveFront.payload
        /\ EndOf(receiveFront) \in Int
        /\ receiveFront.msg.length \in Nat /\ cMaxAsynchronousBuffer \in Nat
    BY ReceiverFacts, FramingAssumption DEF TypeInv, EndOf, Message
  <2> QED
    BY <2>2, <2>3, <2>4 DEF Genuine
<1> QED
  BY <1>1, TypeInvariance, PipeInvariance, PTL

\* SentWhole and SentInOrder: under the same conditions what goes to XLink Kai is
\* whole frames of the PSP only, each at most once and in the order they were made.
THEOREM FramesArriveWhole ==
    ASSUME FaultFree
    PROVE  Spec /\ [][NoneDropped]_vars => [](SentWhole /\ SentInOrder)
<1>1. PipeInv => SentWhole /\ SentInOrder
  BY DEF PipeInv
<1> QED
  BY <1>1, PipeInvariance, PTL

\* SentUnmixed: in particular no message is made from two frames, as it may be
\* when ClearQueues falls between two steps of the receive thread.
THEOREM FramesNeverMixed ==
    ASSUME FaultFree
    PROVE  Spec /\ [][NoneDropped]_vars => []SentUnmixed
<1>1. SentWhole => SentUnmixed
  BY DEF SentWhole, SentUnmixed, Receiver!Whole
<1> QED
  BY <1>1, FramesArriveWhole, PTL

-----------------------------------------------------------------------------
(* The refinement: between the PSP and XLink Kai there is a FrameChannel.   *)

\* What the receive thread still has to hand over of the piece in hand.
InHand ==
    IF receiveThread \in {"copy", "account", "dispatch"}
    THEN FinishedIn(<<receiveFront>>) ELSE {}

\* The frame the PSP has begun.
Begun == IF pspIndex < pspFrame.length THEN {pspFrame.id} ELSE {}

\* It is disturbed from the moment main closes on.
LEMMA DisturbedWhen ==
    ASSUME FaultFree, Calm
    PROVE  /\ Disturbed <=> main \notin {"opening", "running"}
           /\ Disturbed \in BOOLEAN
BY DEF FaultFree, Calm, Disturbed

\* A step that shows no frame come or go is one of FrameChannel, or none.
LEMMA ToKaiQuiet ==
    ASSUME Disturbed => Disturbed', Disturbed \in BOOLEAN,
           pspFrame'.id = pspFrame.id,
           ToKaiChannel' = ToKaiChannel,
           ToKaiDelivered' = ToKaiDelivered
    PROVE  [ToKai!Next]_(ToKai!vars)
<1>1. Disturbed' \in BOOLEAN
  BY DEF Disturbed
<1>2. CASE Disturbed' = Disturbed
  BY <1>2 DEF ToKai!vars
<1>3. CASE Disturbed' # Disturbed
  <2>1. Disturbed' = TRUE
    BY <1>1, <1>3
  <2>2. ToKai!Lose
    BY <2>1 DEF ToKai!Lose
  <2> QED
    BY <2>2 DEF ToKai!Next
<1> QED
  BY <1>2, <1>3

\* What was delivered depends on what was sent only.
LEMMA DeliveredOfSent ==
    ASSUME UNCHANGED sent
    PROVE  ToKaiDelivered' = ToKaiDelivered
BY DEF ToKaiDelivered, Receiver!Whole

\* The first piece of a frame offers it, the others move it along.
LEMMA ToKaiArrives ==
    ASSUME FaultFree, TypeInv, Calm, Calm', NoneDropped,
           Disturbed => Disturbed', NEW piece, Arrives(piece), UNCHANGED main
    PROVE  [ToKai!Next]_(ToKai!vars)
<1>1. /\ receiveQueue \in Seq(Fragments)
      /\ piece \in Fragments /\ piece.msg = pspFrame'
      /\ piece.stitch <=> pspIndex' < pspFrame'.length
  BY ReceiverFacts DEF TypeInv, Arrives, Genuine
<1>2. /\ receiveQueue' = Append(receiveQueue, piece)
      /\ UNCHANGED <<receiveThread, receiveFront, sent>>
  BY FindsRoom DEF Arrives, Receiver!AddToQueue, Receiver!Queued
<1>3. FinishedIn(receiveQueue')
          = FinishedIn(receiveQueue) \cup (IF piece.stitch THEN {} ELSE {pspFrame'.id})
  BY <1>1, <1>2, FinishedAppend
<1>4. FinishedIn(receiveQueue') \cup Begun'
          = FinishedIn(receiveQueue) \cup {pspFrame'.id}
  BY <1>1, <1>3 DEF Begun
<1>5. ToKaiChannel' = InHand \cup FinishedIn(receiveQueue) \cup {pspFrame'.id}
  BY <1>2, <1>4 DEF ToKaiChannel, InHand, Begun
<1>6. ToKaiDelivered' = ToKaiDelivered
  BY <1>2, DeliveredOfSent
<1>7. CASE pspIndex < pspFrame.length
  <2>1. pspFrame' = pspFrame
    BY <1>7 DEF Arrives
  <2>2. ToKaiChannel' = ToKaiChannel
    BY <1>5, <1>7, <2>1 DEF ToKaiChannel, InHand
  <2> QED
    BY <1>6, <2>1, <2>2, ToKaiQuiet, DisturbedWhen
<1>8. CASE ~(pspIndex < pspFrame.length)
  <2>1. pspFrame'.id = pspFrame.id + 1
    BY <1>8 DEF Arrives
  <2>2. ToKaiChannel' = ToKaiChannel \cup {pspFrame'.id}
    BY <1>5, <1>8 DEF ToKaiChannel, InHand
  <2>3. Disturbed' = Disturbed
    BY DEF Disturbed, Calm
  <2>4. ToKai!Offer
    BY <1>6, <2>1, <2>2, <2>3 DEF ToKai!Offer
  <2> QED
    BY <2>4 DEF ToKai!Next
<1> QED
  BY <1>7, <1>8

\* A piece that goes on to be the one in hand takes its frame along.
LEMMA ToKaiPop ==
    ASSUME TypeInv, Receiver!Pop, UNCHANGED <<pspFrame, pspIndex>>
    PROVE  ToKaiChannel' = ToKaiChannel
<1>1. /\ receiveThread = "running" /\ receiveThread' = "copy"
      /\ receiveQueue # <<>> /\ receiveQueue \in Seq(Fragments)
      /\ receiveFront' = Head(receiveQueue)
      /\ receiveQueue' = Tail(receiveQueue)
  BY ReceiverFacts DEF Receiver!Pop, TypeInv
<1>2. FinishedIn(receiveQueue)
          = FinishedIn(receiveQueue') \cup FinishedIn(<<receiveFront'>>)
  BY <1>1, FinishedTail, FinishedOne
<1>3. InHand' = FinishedIn(<<receiveFront'>>) /\ InHand = {}
  BY <1>1 DEF InHand
<1> QED
  BY <1>2, <1>3 DEF ToKaiChannel, InHand

\* While the last piece of a frame is in hand, all others are of later frames.
LEMMA InHandIsFirst ==
    ASSUME TypeInv, Pipe, Genuine(receiveFront), ~receiveFront.stitch
    PROVE  \A id \in FinishedIn(receiveQueue) \cup Begun :
               id \in Nat /\ receiveFront.msg.id < id
<1>1. /\ receiveQueue \in Seq(Fragments) /\ Len(receiveQueue) \in Nat
      /\ \A i \in 1..Len(receiveQueue) : receiveQueue[i].msg.id \in Nat
      /\ pspFrame.id \in Nat
  BY ReceiverFacts DEF TypeInv, PspOK, Fragments, Message
<1>2. \A i \in 1..Len(receiveQueue) : receiveFront.msg.id < receiveQueue[i].msg.id
  BY DEF Pipe, InSequence, Later
<1>3. ASSUME NEW id \in FinishedIn(receiveQueue)
      PROVE  id \in Nat /\ receiveFront.msg.id < id
  BY <1>1, <1>2, FinishedMember
<1>4. ASSUME pspIndex < pspFrame.length
      PROVE  receiveFront.msg.id < pspFrame.id
  <2>1. LastRead.stitch /\ LastRead.msg = pspFrame
    BY <1>4 DEF Pipe, LastFits
  <2>2. receiveQueue # <<>> /\ LastRead = receiveQueue[Len(receiveQueue)]
    BY <2>1 DEF LastRead
  <2>3. Len(receiveQueue) \in 1..Len(receiveQueue)
    BY <1>1, <2>2
  <2> QED
    BY <1>2, <2>1, <2>2, <2>3
<1> QED
  BY <1>1, <1>3, <1>4 DEF Begun

\* Dispatch delivers the frame whose last piece is in hand.
LEMMA ToKaiDispatch ==
    ASSUME FaultFree, TypeInv, Calm, Pipe, SentWhole', Receiver!Dispatch,
           Disturbed => Disturbed', Disturbed' \in {Disturbed, TRUE},
           UNCHANGED <<pspFrame, pspIndex>>
    PROVE  [ToKai!Next]_(ToKai!vars)
<1> DEFINE id == receiveFront.msg.id
           message == [length |-> receiveFront.msg.length,
                       data   |-> lastReceived.data]
<1>1. /\ receiveThread = "dispatch" /\ receiveThread' = "running"
      /\ UNCHANGED <<receiveQueue, receiveFront>>
  BY DEF Receiver!Dispatch
<1>2. /\ InHand = FinishedIn(<<receiveFront>>) /\ InHand' = {}
      /\ UNCHANGED Begun
  BY <1>1 DEF InHand, Begun
<1>3. /\ ToKaiChannel = InHand \cup FinishedIn(receiveQueue) \cup Begun
      /\ ToKaiChannel' = FinishedIn(receiveQueue) \cup Begun
  BY <1>1, <1>2 DEF ToKaiChannel, InHand, Begun
<1>4. CASE receiveFront.stitch
  <2>1. ToKaiChannel' = ToKaiChannel
    BY <1>2, <1>3, <1>4, FinishedOne
  <2>2. UNCHANGED sent
    BY <1>4, DispatchOutcome
  <2> QED
    BY <2>1, <2>2, ToKaiQuiet, DeliveredOfSent, DisturbedWhen
<1>5. CASE ~receiveFront.stitch
  <2>1. InHand = {id}
    BY <1>2, <1>5, FinishedOne
  <2>2. \A other \in ToKaiChannel' : other \in Nat /\ id < other
    BY <1>3, <1>5, InHandIsFirst, DispatchOutcome
  <2>3. /\ id \in ToKaiChannel /\ ToKaiChannel' = ToKaiChannel \ {id}
        /\ \A other \in ToKaiChannel : id <= other
    <3>1. id \in Nat
      BY ReceiverFacts DEF TypeInv, Message
    <3>2. ToKaiChannel = {id} \cup ToKaiChannel'
      BY <1>3, <2>1
    <3>3. id \notin ToKaiChannel'
      BY <2>2, <3>1
    <3>4. \A other \in ToKaiChannel : id <= other
      BY <2>2, <3>1, <3>2
    <3> QED
      BY <3>1, <3>2, <3>3, <3>4
  <2>4. /\ sent' = Append(sent, message)
        /\ Built(lastReceived.data, receiveFront.msg, EndOf(receiveFront))
    BY <1>5, DispatchOutcome
  <2>5. \A piece \in message.data : piece.msg.id = id
    BY <2>4 DEF Built
  <2>6. message.data # {}
    BY <2>4 DEF Built
  <2> HIDE DEF message, id
  <2>7. /\ Len(sent) \in Nat
        /\ DOMAIN sent = 1..Len(sent) /\ DOMAIN sent' = 1..(Len(sent) + 1)
        /\ \A i \in DOMAIN sent : sent'[i] = sent[i]
        /\ sent'[Len(sent) + 1] = message
    BY <2>4, SentFacts DEF TypeInv
  <2>8. Receiver!Whole(message)
    BY <2>7 DEF SentWhole, Receiver!Whole
  <2>9. (CHOOSE piece \in message.data : TRUE).msg.id = id
    BY <2>5, <2>6
  <2> DEFINE number(m) == IF Receiver!Whole(m)
                          THEN (CHOOSE piece \in m.data : TRUE).msg.id ELSE 0
  <2>10. /\ ToKaiDelivered = [i \in DOMAIN sent |-> number(sent[i])]
         /\ ToKaiDelivered' = [i \in DOMAIN sent' |-> number(sent'[i])]
         /\ number(message) = id
    BY <2>8, <2>9 DEF ToKaiDelivered, Receiver!Whole
  <2> HIDE DEF number
  <2>11. /\ DOMAIN ToKaiDelivered = 1..Len(sent)
         /\ DOMAIN ToKaiDelivered' = 1..(Len(sent) + 1)
         /\ ToKaiDelivered'[Len(sent) + 1] = id
         /\ \A i \in 1..Len(sent) : ToKaiDelivered'[i] = ToKaiDelivered[i]
    BY <2>7, <2>10
  <2>12. ToKai!ComesOut(id)
    <3> DEFINE moment == Len(sent) + 1
               before == ToKaiDelivered
               after  == [at \in DOMAIN before \cup {moment} |->
                             IF at = moment THEN id ELSE before[at]]
    <3>1. /\ moment \in DOMAIN ToKaiDelivered'
          /\ \A earlier \in DOMAIN before : earlier < moment
          /\ DOMAIN ToKaiDelivered' = DOMAIN before \cup {moment}
      BY <2>7, <2>11
    <3>2. ToKaiDelivered' = after
      <4>1. /\ DOMAIN ToKaiDelivered' = DOMAIN after
            /\ ToKaiDelivered' = [i \in DOMAIN ToKaiDelivered' |-> ToKaiDelivered'[i]]
        BY <2>10, <3>1
      <4>2. \A at \in DOMAIN after : ToKaiDelivered'[at] = after[at]
        BY <2>7, <2>11
      <4> QED
        BY <4>1, <4>2
    <3> QED
      BY <3>1, <3>2 DEF ToKai!ComesOut
  <2>13. ToKai!Deliver
    BY <2>3, <2>12 DEF ToKai!Deliver
  <2> QED
    BY <2>13 DEF ToKai!Next
<1> QED
  BY <1>4, <1>5

\* Every step of the program is one of FrameChannel, or none.
LEMMA ToKaiStep ==
    ASSUME FaultFree, TypeInv, Calm, Calm', InStep, PipeInv, PipeInv',
           NoneDropped, [Next]_vars
    PROVE  [ToKai!Next]_(ToKai!vars)
<1>1. /\ Disturbed => Disturbed'
      /\ Disturbed \in BOOLEAN /\ Disturbed' \in BOOLEAN
      /\ Disturbed' \in {Disturbed, TRUE}
  <2>1. Disturbed => Disturbed'
    BY StaysDisturbed DEF Calm
  <2> QED
    BY <2>1 DEF Disturbed
<1>2. CASE UNCHANGED <<receiverVars, pspFrame, pspIndex>>
  <2>1. UNCHANGED <<receiveThread, receiveFront, receiveQueue, sent>>
    BY <1>2 DEF receiverVars
  <2>2. ToKaiChannel' = ToKaiChannel
    BY <1>2, <2>1 DEF ToKaiChannel
  <2> QED
    BY <1>1, <1>2, <2>1, <2>2, DeliveredOfSent, ToKaiQuiet
<1>3. CASE (\E piece : Arrives(piece)) /\ UNCHANGED main
  BY <1>1, <1>3, ToKaiArrives
<1>4. CASE Receiver!ThreadStep /\ UNCHANGED <<main, pspFrame, pspIndex>>
  <2>1. CASE Receiver!Pop
    <3>1. UNCHANGED sent
      BY <2>1 DEF Receiver!Pop
    <3> QED
      BY <1>1, <1>4, <2>1, <3>1, ToKaiPop, DeliveredOfSent, ToKaiQuiet
  <2>2. CASE Receiver!Copy \/ Receiver!Account \/ Receiver!Exit
    <3>1. /\ UNCHANGED <<receiveQueue, receiveFront, sent>>
          /\ \/ {receiveThread, receiveThread'} \subseteq {"copy", "account", "dispatch"}
             \/ receiveThread = "running" /\ receiveThread' = "exited"
      BY <2>2 DEF Receiver!Copy, Receiver!Account, Receiver!Exit
    <3>2. ToKaiChannel' = ToKaiChannel
      BY <1>4, <3>1 DEF ToKaiChannel
    <3> QED
      BY <1>1, <1>4, <3>1, <3>2, DeliveredOfSent, ToKaiQuiet
  <2>3. CASE Receiver!Dispatch
    <3>1. Pipe /\ SentWhole'
      BY <2>3 DEF PipeInv, Receiver!Dispatch
    <3> QED
      BY <1>1, <1>4, <2>3, <3>1, ToKaiDispatch
  <2> QED
    BY <1>4, <2>1, <2>2, <2>3 DEF Receiver!ThreadStep
<1>5. CASE /\ Receiver!StartThread \/ Receiver!RequestStop
           /\ UNCHANGED <<pspFrame, pspIndex>>
  <2>1. CASE Receiver!StartThread
    <3>1. /\ UNCHANGED <<receiveQueue, receiveFront, sent>>
          /\ receiveThread = "none" /\ receiveThread' = "running"
      BY <2>1 DEF Receiver!StartThread
    <3>2. ToKaiChannel' = ToKaiChannel
      BY <1>5, <3>1 DEF ToKaiChannel
    <3> QED
      BY <1>1, <1>5, <3>1, <3>2, DeliveredOfSent, ToKaiQuiet
  <2>2. CASE Receiver!RequestStop
    <3>1. UNCHANGED <<receiveQueue, receiveFront, sent, receiveThread>>
      BY <2>2 DEF Receiver!RequestStop
    <3>2. ToKaiChannel' = ToKaiChannel
      BY <1>5, <3>1 DEF ToKaiChannel
    <3> QED
      BY <1>1, <1>5, <3>1, <3>2, DeliveredOfSent, ToKaiQuiet
  <2> QED
    BY <1>5, <2>1, <2>2
<1>6. CASE /\ Receiver!Join /\ main' = "closed"
           /\ UNCHANGED <<pspFrame, pspIndex>>
  <2>1. /\ receiveQueue' = <<>> /\ receiveThread' = "none" /\ UNCHANGED sent
    BY <1>6 DEF Receiver!Join
  <2>2. ToKaiChannel' \subseteq ToKaiChannel
    BY <1>6, <2>1, FinishedOne DEF ToKaiChannel
  <2>3. Disturbed' = TRUE
    BY <1>6 DEF Disturbed
  <2>4. ToKai!Lose
    BY <1>6, <2>1, <2>2, <2>3, DeliveredOfSent DEF ToKai!Lose
  <2> QED
    BY <2>4 DEF ToKai!Next
<1> QED
  BY <1>2, <1>3, <1>4, <1>5, <1>6, PipeMoves

\* At the start the channel is empty.
LEMMA ToKaiInit ==
    ASSUME Init
    PROVE  ToKai!Init
<1>1. /\ receiveThread = "none" /\ receiveQueue = <<>> /\ sent = <<>>
      /\ pspIndex = 0 /\ pspFrame.id = 0 /\ pspFrame.length = 0
      /\ main = "opening" /\ faults = MaxFaults
  BY DEF Init, Receiver!Init, NoMessage
<1>2. ToKaiChannel = {}
  BY <1>1, FinishedOne DEF ToKaiChannel
<1>3. ToKaiDelivered = [moment \in {} |-> 0]
  BY <1>1 DEF ToKaiDelivered
<1>4. Disturbed = FALSE
  BY <1>1, ReaderAssumption DEF Disturbed
<1> QED
  BY <1>1, <1>2, <1>3, <1>4 DEF ToKai!Init

\* ToKaiRefinesChannel: without faults and with room in the receive queue the
\* USB thread, the receive thread and the PSP together are a channel from the
\* PSP to XLink Kai that delivers every frame whole, once and in order, and
\* loses none before main closes.
THEOREM ReaderImplementsToKai ==
    ASSUME FaultFree
    PROVE  Spec /\ [][NoneDropped]_vars => ToKaiRefinesChannel
<1>1. /\ TypeInv /\ DuplexInv /\ PipeInv /\ [Next]_vars /\ [NoneDropped]_vars
      /\ DuplexInv' /\ PipeInv'
      => [ToKai!Next]_(ToKai!vars)
  <2> SUFFICES ASSUME TypeInv, DuplexInv, PipeInv, [Next]_vars, [NoneDropped]_vars,
                      DuplexInv', PipeInv'
               PROVE  [ToKai!Next]_(ToKai!vars)
    OBVIOUS
  <2>1. NoneDropped
    BY DEF NoneDropped, vars, pspVars
  <2> QED
    BY <2>1, ToKaiStep DEF DuplexInv
<1>2. Init => ToKai!Init
  BY ToKaiInit
<1> QED
  BY <1>1, <1>2, TypeInvariance, DuplexInvariance, PipeInvariance, PTL
     DEF Spec, ToKaiRefinesChannel, ToKai!Spec

-----------------------------------------------------------------------------
(* Whatever fails and is reset: what goes to XLink Kai is in order.        *)

\* The bytes of piece lie in front of the place the PSP has reached.
Gone(piece) ==
    \/ piece.msg.id = 0
    \/ piece.msg.id < pspFrame.id
    \/ piece.msg = pspFrame /\ EndOf(piece) <= pspIndex

\* The PSP is in no frame, or somewhere behind the start of one.
PspInside == pspFrame = NoMessage \/ pspIndex > 0

\* What was sent, or is in the frame being put together.
Taken == lastReceived.data \cup UNION {sent[i].data : i \in DOMAIN sent}

\* What was sent, and what is being put together, is in order.
MessagesInOrder ==
    /\ \A first, second \in lastReceived.data :
          first.at < second.at => Precedes(first, second)
    /\ \A i \in DOMAIN sent :
          \A first \in sent[i].data, second \in lastReceived.data :
             Precedes(first, second)

\* Then comes the piece the receive thread is about to copy, then its queue.
WaitingInOrder ==
    /\ receiveThread = "copy" =>
          /\ \A piece \in Taken : Precedes(piece, receiveFront)
          /\ \A i \in 1..Len(receiveQueue) : Precedes(receiveFront, receiveQueue[i])
    /\ \A piece \in Taken, i \in 1..Len(receiveQueue) :
          Precedes(piece, receiveQueue[i])
    /\ \A i, j \in 1..Len(receiveQueue) :
          i < j => Precedes(receiveQueue[i], receiveQueue[j])

\* The PSP is past all of it.
AllGone ==
    /\ \A piece \in Taken : Gone(piece)
    /\ receiveThread = "copy" => Gone(receiveFront)
    /\ \A i \in 1..Len(receiveQueue) : Gone(receiveQueue[i])

\* A piece waiting to be put into the frame has at least one byte.
NoneEmpty ==
    /\ receiveThread \in {"copy", "account"} => receiveFront.payload > 0
    /\ \A i \in 1..Len(receiveQueue) : receiveQueue[i].payload > 0

\* The next piece goes behind those that are there: a message is cleared as a
\* whole, or its length and stitch follow what was copied.
Places ==
    CASE receiveThread = "account"  ->
            \A piece \in lastReceived.data : piece.at <= Receiver!WriteOffset
      [] receiveThread = "dispatch" ->
            \/ lastReceived.data = {}
            \/ /\ lastReceived.stitch = receiveFront.stitch
               /\ \A piece \in lastReceived.data : piece.at < lastReceived.length
      [] OTHER ->
            IF lastReceived.stitch
            THEN \A piece \in lastReceived.data : piece.at < lastReceived.length
            ELSE lastReceived.data = {}

\* Why NothingSentTwice holds.
TakenInv ==
    /\ PspInside
    /\ NothingSentTwice
    /\ MessagesInOrder
    /\ WaitingInOrder
    /\ AllGone
    /\ NoneEmpty
    /\ Places

-----------------------------------------------------------------------------

\* Where a packet of the PSP belongs: nowhere, at the PSP's place in its frame,
\* or at the start of the next frame.
LEMMA PacketPlace ==
    ASSUME PspOK, PspInside, NEW packet \in PspPackets
    PROVE  /\ packet.piece.payload > 0
           /\ \/ packet.kind # "async" /\ packet.piece.msg.id = 0
              \/ /\ packet.kind = "async" /\ packet.piece.msg = pspFrame
                 /\ packet.piece.from = pspIndex /\ pspIndex > 0
              \/ /\ packet.kind = "async" /\ packet.piece.from = 0
                 /\ packet.piece.msg.id = pspFrame.id + 1
<1>1. pspFrame.id \in Nat /\ pspFrame.length \in Nat /\ pspIndex \in Nat
  BY DEF PspOK, Message
<1>2. CASE pspIndex < pspFrame.length
  <2>1. packet = [kind |-> "async", piece |-> Fragment(pspFrame, pspIndex)]
    BY <1>2 DEF PspPackets
  <2>2. /\ Fragment(pspFrame, pspIndex).payload > 0
        /\ Fragment(pspFrame, pspIndex).msg = pspFrame
        /\ Fragment(pspFrame, pspIndex).from = pspIndex
    BY <1>1, <1>2, FragmentProgress DEF PspOK
  <2>3. pspIndex > 0
    BY <1>1, <1>2 DEF PspInside, NoMessage
  <2> QED
    BY <2>1, <2>2, <2>3
<1>3. CASE \E length \in PspLengths :
              packet = [kind  |-> "async",
                        piece |-> Fragment([id |-> pspFrame.id + 1,
                                            length |-> length], 0)]
  <2>1. PICK length \in PspLengths :
            packet = [kind  |-> "async",
                      piece |-> Fragment([id |-> pspFrame.id + 1,
                                          length |-> length], 0)]
    BY <1>3
  <2> DEFINE m == [id |-> pspFrame.id + 1, length |-> length]
  <2>2. m \in Message /\ 0 < m.length /\ m.id = pspFrame.id + 1
    BY <1>1, LengthsOK DEF Message
  <2>3. packet = [kind |-> "async", piece |-> Fragment(m, 0)]
    BY <2>1
  <2> HIDE DEF m
  <2>4. /\ Fragment(m, 0).payload > 0
        /\ Fragment(m, 0).msg = m /\ Fragment(m, 0).from = 0
    BY <2>2, FragmentProgress
  <2> QED
    BY <2>2, <2>3, <2>4
<1>4. CASE \E signal \in PspSignals :
              packet = [kind  |-> signal,
                        piece |-> [Fragment(NoMessage, 0) EXCEPT !.payload = 1]]
  <2>1. PICK signal \in PspSignals :
            packet = [kind  |-> signal,
                      piece |-> [Fragment(NoMessage, 0) EXCEPT !.payload = 1]]
    BY <1>4
  <2>2. signal # "async"
    BY ReaderAssumption
  <2>3. packet.piece.payload = 1 /\ packet.piece.msg.id = 0
    BY <2>1 DEF Fragment, NoMessage
  <2> QED
    BY <2>1, <2>2, <2>3
<1> QED
  BY <1>2, <1>3, <1>4 DEF PspPackets

\* The PSP goes on in its frame, or to a later one.
Onward ==
    \/ pspFrame' = pspFrame /\ pspIndex <= pspIndex'
    \/ pspFrame.id < pspFrame'.id

\* Sending a packet brings it on, and never back to the start of a frame.
LEMMA SendsOnward ==
    ASSUME PspOK, PspInside, NEW packet \in PspPackets, PspSends(packet)
    PROVE  Onward /\ PspInside'
<1>1. CASE packet.kind # "async"
  BY <1>1 DEF PspSends, Onward, PspInside, PspOK
<1>2. CASE packet.kind = "async"
  <2>1. pspFrame' = packet.piece.msg /\ pspIndex' = packet.piece.from + packet.piece.payload
    BY <1>2 DEF PspSends, EndOf
  <2>2. /\ packet.piece.payload \in Int /\ packet.piece.payload > 0
        /\ pspFrame.id \in Nat /\ pspIndex \in Nat
    BY PspPacketOK, PacketPlace DEF Fragments, PspOK, Message
  <2> QED
    BY <1>2, <2>1, <2>2, PacketPlace DEF Onward, PspInside
<1> QED
  BY <1>1, <1>2

\* So does every step of the program.
LEMMA StepOnward ==
    ASSUME PspOK, PspInside, [Next]_vars
    PROVE  Onward /\ PspInside'
<1>1. pspIndex \in Nat /\ pspFrame.length \in Nat /\ pspIndex <= pspFrame.length
  BY DEF PspOK, Message
<1>2. CASE UNCHANGED <<pspFrame, pspIndex>>
  BY <1>1, <1>2 DEF Onward, PspInside
<1>3. CASE pspFrame' = pspFrame /\ pspIndex' = pspFrame.length
  BY <1>1, <1>3 DEF Onward, PspInside
<1> QED
  BY <1>2, <1>3, SendsOnward, PspMoves

\* A piece that was not there before: it belongs to no frame, or it lies between
\* the place where the PSP was and the place where it is.
Fresh(piece) ==
    /\ piece \in Fragments /\ piece.payload > 0
    /\ \/ piece.msg.id = 0
       \/ /\ piece.msg = pspFrame' /\ EndOf(piece) <= pspIndex'
          /\ \/ pspFrame' = pspFrame /\ pspIndex <= piece.from
             \/ pspFrame.id < pspFrame'.id

\* What HandleAsynchronous hands over is such a piece, even when it takes a
\* packet for the continuation of another frame.
LEMMA HandsOverFresh ==
    ASSUME PspOK, PspInside, NEW packet \in PspPackets, PspSends(packet),
           HandleAsynchronous(packet)
    PROVE  UNCHANGED receiverVars \/ \E piece : Fresh(piece) /\ Receiver!AddToQueue(piece)
<1> DEFINE piece == packet.piece
           added == PacketSize(piece) - cAsyncHeaderSize
<1>1. /\ piece \in Fragments /\ piece.msg \in Message /\ piece.msg.id \in Nat
      /\ piece.from \in Int /\ piece.payload \in Int /\ piece.payload > 0
      /\ EndOf(piece) \in Int /\ EndOf(piece) = piece.from + piece.payload
  BY PspPacketOK, PacketPlace DEF Fragments, Message, EndOf
<1>2. /\ added \in Int /\ added > 0
      /\ piece.from # 0 => added = piece.payload
  BY <1>1, FramingAssumption
     DEF PacketSize, HeaderLength, cAsyncHeaderAndSubHeaderSize
<1>3. /\ pspFrame.id \in Nat /\ pspIndex \in Nat
      /\ \/ piece.msg.id = 0
         \/ /\ pspFrame' = piece.msg /\ pspIndex' = EndOf(piece)
            /\ \/ piece.msg = pspFrame /\ piece.from = pspIndex /\ pspIndex > 0
               \/ piece.msg.id = pspFrame.id + 1
  BY PacketPlace DEF PspSends, PspOK, Message
<1> HIDE DEF added
<1>4. ASSUME NEW stitch \in BOOLEAN
      PROVE  /\ Fresh([piece EXCEPT !.stitch = stitch])
             /\ Fresh([msg |-> piece.msg, from |-> EndOf(piece) - added,
                       payload |-> added, stitch |-> stitch])
  <2> DEFINE started  == [piece EXCEPT !.stitch = stitch]
             stitched == [msg |-> piece.msg, from |-> EndOf(piece) - added,
                          payload |-> added, stitch |-> stitch]
  <2>1. /\ started \in Fragments /\ stitched \in Fragments
    BY <1>1, <1>2, <1>4 DEF Fragments
  <2>2. /\ started.msg = piece.msg /\ started.payload = piece.payload
        /\ started.from = piece.from /\ EndOf(started) = EndOf(piece)
    BY <1>1 DEF Fragments, EndOf
  <2>3. /\ stitched.msg = piece.msg /\ stitched.payload = added
        /\ stitched.from = EndOf(piece) - added /\ EndOf(stitched) = EndOf(piece)
    BY <1>1, <1>2 DEF EndOf
  <2> HIDE DEF started, stitched
  <2>4. Fresh(started)
    BY <1>1, <1>3, <2>1, <2>2 DEF Fresh
  <2>5. Fresh(stitched)
    BY <1>1, <1>2, <1>3, <2>1, <2>3 DEF Fresh
  <2> QED
    BY <2>4, <2>5 DEF started, stitched
<1>5. \/ UNCHANGED receiverVars
      \/ \E stitch \in BOOLEAN :
            \/ Receiver!AddToQueue([piece EXCEPT !.stitch = stitch])
            \/ Receiver!AddToQueue([msg |-> piece.msg, from |-> EndOf(piece) - added,
                                    payload |-> added, stitch |-> stitch])
  <2> DEFINE more  == /\ PacketSize(piece) > cMaxUSBPacketSize - cAsyncHeaderSize
                      /\ mStitchingLength + added < mActualLength
             first == piece.msg.length > cMaxUSBPacketSize - cAsyncHeaderAndSubHeaderSize
  <2>1. first \in BOOLEAN /\ more \in BOOLEAN
    OBVIOUS
  <2> HIDE DEF first, more
  <2>2. \/ UNCHANGED receiverVars
        \/ Receiver!AddToQueue([piece EXCEPT !.stitch = first])
        \/ Receiver!AddToQueue([msg |-> piece.msg, from |-> EndOf(piece) - added,
                                payload |-> added, stitch |-> more])
    BY DEF HandleAsynchronous, added, first, more
  <2> QED
    BY <2>1, <2>2
<1> HIDE DEF piece
<1> QED
  BY <1>4, <1>5

\* A fresh piece comes after everything the PSP was past.
LEMMA FreshIsLast ==
    ASSUME PspOK, NEW old, old.msg.id \in Nat, EndOf(old) \in Int, Gone(old),
           NEW piece, Fresh(piece)
    PROVE  Precedes(old, piece)
<1>1. /\ piece.msg.id \in Nat /\ piece.from \in Int
      /\ pspFrame.id \in Nat /\ pspIndex \in Nat
  BY DEF Fresh, Fragments, Message, PspOK
<1>2. CASE piece.msg.id = 0
  BY <1>2 DEF Precedes
<1>3. CASE old.msg.id = 0
  BY <1>3 DEF Precedes
<1> QED
  BY <1>1, <1>2, <1>3 DEF Fresh, Gone, Precedes

\* What the PSP is past stays behind it.
LEMMA StaysGone ==
    ASSUME PspOK, PspOK', Onward, NEW piece, piece.msg.id \in Nat,
           EndOf(piece) \in Int, Gone(piece)
    PROVE  \/ piece.msg.id = 0
           \/ piece.msg.id < pspFrame'.id
           \/ piece.msg = pspFrame' /\ EndOf(piece) <= pspIndex'
<1>1. /\ pspFrame.id \in Nat /\ pspIndex \in Nat
      /\ pspFrame'.id \in Nat /\ pspIndex' \in Nat
  BY DEF PspOK, Message
<1> QED
  BY <1>1 DEF Onward, Gone

\* Types of the pieces that were taken.
LEMMA TakenFacts ==
    ASSUME Receiver!TypeOK
    PROVE  \A piece \in Taken : /\ piece.msg.id \in Nat /\ EndOf(piece) \in Int
                                /\ piece.at \in Int
<1> DEFINE Messages == [length : Int, data : SUBSET Receiver!Placed]
<1>1. /\ sent \in Seq(Messages)
      /\ lastReceived \in
             [data : SUBSET Receiver!Placed, length : Int, stitch : BOOLEAN]
  BY DEF Receiver!TypeOK
<1>2. \A piece \in Receiver!Placed : /\ piece.msg.id \in Nat /\ EndOf(piece) \in Int
                                     /\ piece.at \in Int
  BY DEF Receiver!Placed, Receiver!Message, EndOf
<1>3. \A i \in DOMAIN sent : sent[i].data \in SUBSET Receiver!Placed
  <2>1. \A i \in DOMAIN sent : sent[i] \in Messages
    <3> HIDE DEF Messages
    <3> QED
      BY <1>1
  <2> QED
    BY <2>1
<1>4. lastReceived.data \in SUBSET Receiver!Placed
  BY <1>1
<1> QED
  BY <1>2, <1>3, <1>4 DEF Taken

\* Types of those still to be taken.
LEMMA WaitingFacts ==
    ASSUME Receiver!TypeOK
    PROVE  /\ Len(receiveQueue) \in Nat /\ receiveQueue \in Seq(Fragments)
           /\ receiveFront.msg.id \in Nat /\ EndOf(receiveFront) \in Int
           /\ \A i \in 1..Len(receiveQueue) :
                 receiveQueue[i].msg.id \in Nat /\ EndOf(receiveQueue[i]) \in Int
<1>1. \A piece \in Fragments : piece.msg.id \in Nat /\ EndOf(piece) \in Int
  BY DEF Fragments, Message, EndOf
<1> QED
  BY <1>1, ReceiverFacts

-----------------------------------------------------------------------------

\* Nothing comes out of order when nothing new arrives or is taken, and the
\* queue is left alone or emptied.
LEMMA NothingNew ==
    ASSUME TypeInv, TypeInv', TakenInv, Onward,
           Taken' \subseteq Taken,
           receiveQueue' = receiveQueue \/ receiveQueue' = <<>>,
           receiveThread' \in {"copy", "account"} =>
               UNCHANGED <<receiveThread, receiveFront>>
    PROVE  WaitingInOrder' /\ AllGone' /\ NoneEmpty'
<1>1. /\ \A i \in 1..Len(receiveQueue') :
            i \in 1..Len(receiveQueue) /\ receiveQueue'[i] = receiveQueue[i]
  <2>1. CASE receiveQueue' = receiveQueue
    BY <2>1
  <2>2. CASE receiveQueue' = <<>>
    BY <2>2
  <2> QED
    BY <2>1, <2>2
<1>2. WaitingInOrder'
  BY <1>1 DEF TakenInv, WaitingInOrder, Precedes, EndOf
<1>3. AllGone'
  <2>1. \A piece \in Taken' : Gone(piece)'
    BY StaysGone, TakenFacts DEF TypeInv, TakenInv, AllGone, Gone, EndOf
  <2>2. receiveThread' = "copy" => Gone(receiveFront)'
    BY StaysGone, WaitingFacts DEF TypeInv, TakenInv, AllGone, Gone, EndOf
  <2>3. \A i \in 1..Len(receiveQueue') : Gone(receiveQueue[i])'
    BY <1>1, StaysGone, WaitingFacts DEF TypeInv, TakenInv, AllGone, Gone, EndOf
  <2> QED
    BY <2>1, <2>2, <2>3 DEF AllGone
<1>4. NoneEmpty'
  BY <1>1 DEF TakenInv, NoneEmpty
<1> QED
  BY <1>2, <1>3, <1>4

\* A fresh piece, if there is room for it, comes last.
LEMMA FreshArrives ==
    ASSUME TypeInv, TypeInv', TakenInv, Onward, NEW piece, Fresh(piece),
           Receiver!AddToQueue(piece)
    PROVE  WaitingInOrder' /\ AllGone' /\ NoneEmpty'
<1>1. /\ UNCHANGED <<lastReceived, receiveThread, receiveFront, sent>>
      /\ Taken' = Taken
      /\ receiveQueue' = receiveQueue \/ receiveQueue' = Append(receiveQueue, piece)
  BY DEF Receiver!AddToQueue, Receiver!Queued, Taken
<1>2. CASE receiveQueue' = receiveQueue
  BY <1>1, <1>2, NothingNew
<1>3. CASE receiveQueue' = Append(receiveQueue, piece)
  <2>1. /\ piece.msg.id \in Nat /\ EndOf(piece) \in Int /\ piece \in Fragments
        /\ piece.payload > 0
    BY DEF Fresh, Fragments, Message, EndOf
  <2>2. /\ Len(receiveQueue) \in Nat /\ Len(receiveQueue') = Len(receiveQueue) + 1
        /\ \A i \in 1..Len(receiveQueue') :
              \/ i \in 1..Len(receiveQueue) /\ receiveQueue'[i] = receiveQueue[i]
              \/ i = Len(receiveQueue) + 1 /\ receiveQueue'[i] = piece
    BY <1>3, <2>1, WaitingFacts DEF TypeInv
  <2>3. /\ \A old \in Taken : Precedes(old, piece)
        /\ receiveThread = "copy" => Precedes(receiveFront, piece)
        /\ \A i \in 1..Len(receiveQueue) : Precedes(receiveQueue[i], piece)
    BY FreshIsLast, TakenFacts, WaitingFacts DEF TypeInv, TakenInv, AllGone
  <2>4. WaitingInOrder'
    <3>1. /\ receiveThread = "copy" =>
                \A i \in 1..Len(receiveQueue') : Precedes(receiveFront, receiveQueue'[i])
          /\ \A old \in Taken, i \in 1..Len(receiveQueue') :
                Precedes(old, receiveQueue'[i])
      BY <2>2, <2>3 DEF TakenInv, WaitingInOrder
    <3>2. \A i, j \in 1..Len(receiveQueue') :
              i < j => Precedes(receiveQueue'[i], receiveQueue'[j])
      BY <2>2, <2>3 DEF TakenInv, WaitingInOrder
    <3> QED
      BY <1>1, <3>1, <3>2 DEF TakenInv, WaitingInOrder, Precedes, EndOf
  <2>5. AllGone'
    <3>1. /\ \A old \in Taken : Gone(old)'
          /\ receiveThread = "copy" => Gone(receiveFront)'
      BY <1>1, StaysGone, TakenFacts, WaitingFacts
         DEF TypeInv, TakenInv, AllGone, Gone, EndOf
    <3>2. \A i \in 1..Len(receiveQueue) :
              \/ receiveQueue[i].msg.id = 0
              \/ receiveQueue[i].msg.id < pspFrame'.id
              \/ receiveQueue[i].msg = pspFrame' /\ EndOf(receiveQueue[i]) <= pspIndex'
      BY StaysGone, WaitingFacts DEF TypeInv, TakenInv, AllGone
    <3>3. \/ piece.msg.id = 0
          \/ piece.msg = pspFrame' /\ EndOf(piece) <= pspIndex'
      BY DEF Fresh
    <3>4. \A i \in 1..Len(receiveQueue') : Gone(receiveQueue[i])'
      BY <2>2, <3>2, <3>3 DEF Gone, EndOf
    <3> QED
      BY <1>1, <3>1, <3>4 DEF AllGone
  <2>6. NoneEmpty'
    BY <1>1, <2>1, <2>2 DEF TakenInv, NoneEmpty
  <2> QED
    BY <2>4, <2>5, <2>6
<1> QED
  BY <1>1, <1>2, <1>3

\* The first piece of the queue is taken in hand.
LEMMA FirstPopped ==
    ASSUME TypeInv, TakenInv, Receiver!Pop, UNCHANGED <<pspFrame, pspIndex>>
    PROVE  WaitingInOrder' /\ AllGone' /\ NoneEmpty'
<1>1. /\ receiveThread' = "copy" /\ receiveQueue # <<>>
      /\ receiveFront' = Head(receiveQueue) /\ receiveQueue' = Tail(receiveQueue)
      /\ Taken' = Taken
  BY DEF Receiver!Pop, Taken
<1>2. /\ Len(receiveQueue) \in Nat /\ Len(receiveQueue') = Len(receiveQueue) - 1
      /\ 1 \in 1..Len(receiveQueue) /\ receiveFront' = receiveQueue[1]
      /\ \A i \in 1..Len(receiveQueue') :
            i + 1 \in 1..Len(receiveQueue) /\ receiveQueue'[i] = receiveQueue[i + 1]
  BY <1>1, WaitingFacts DEF TypeInv
<1>3. WaitingInOrder'
  <2>1. /\ \A piece \in Taken : Precedes(piece, receiveFront')
        /\ \A piece \in Taken, i \in 1..Len(receiveQueue') :
              Precedes(piece, receiveQueue'[i])
    BY <1>2 DEF TakenInv, WaitingInOrder
  <2>2. \A i \in 1..Len(receiveQueue') : Precedes(receiveFront', receiveQueue'[i])
    BY <1>2 DEF TakenInv, WaitingInOrder
  <2>3. \A i, j \in 1..Len(receiveQueue') :
            i < j => Precedes(receiveQueue'[i], receiveQueue'[j])
    BY <1>2 DEF TakenInv, WaitingInOrder
  <2> QED
    BY <1>1, <2>1, <2>2, <2>3 DEF WaitingInOrder, Precedes, EndOf
<1>4. AllGone'
  BY <1>1, <1>2 DEF TakenInv, AllGone, Gone, EndOf
<1>5. NoneEmpty'
  BY <1>1, <1>2 DEF TakenInv, NoneEmpty
<1> QED
  BY <1>3, <1>4, <1>5

\* It is copied behind everything the message holds.
LEMMA FrontCopied ==
    ASSUME TypeInv, TakenInv, Receiver!Copy, UNCHANGED <<pspFrame, pspIndex>>
    PROVE  MessagesInOrder' /\ WaitingInOrder' /\ AllGone' /\ NoneEmpty' /\ Places'
<1> DEFINE start  == Receiver!WriteOffset
           placed == [at      |-> start,
                      msg     |-> receiveFront.msg,
                      from    |-> receiveFront.from,
                      payload |-> receiveFront.payload]
<1>1. /\ receiveThread = "copy" /\ receiveThread' = "account"
      /\ UNCHANGED <<receiveQueue, receiveFront, sent>>
      /\ lastReceived'.length = lastReceived.length
      /\ lastReceived'.stitch = lastReceived.stitch
      /\ placed \in lastReceived'.data
      /\ lastReceived'.data \subseteq lastReceived.data \cup {placed}
  BY ReceiverFacts DEF Receiver!Copy, TypeInv
<1>2. /\ start \in Int
      /\ \A piece \in lastReceived.data : piece.at \in Int /\ piece.at < start
  <2>1. /\ lastReceived.length \in Int
        /\ \A piece \in lastReceived.data : piece.at \in Int
    BY ReceiverFacts DEF TypeInv
  <2>2. IF lastReceived.stitch
        THEN \A piece \in lastReceived.data : piece.at < lastReceived.length
        ELSE lastReceived.data = {}
    BY <1>1 DEF TakenInv, Places
  <2> QED
    BY <2>1, <2>2 DEF Receiver!WriteOffset
<1>3. /\ placed.at = start /\ placed.msg = receiveFront.msg
      /\ placed.from = receiveFront.from /\ placed.payload = receiveFront.payload
  OBVIOUS
<1>4. Receiver!WriteOffset' = start
  BY <1>1 DEF Receiver!WriteOffset
<1> HIDE DEF start, placed
<1>5. /\ \A piece \in Taken : Precedes(piece, placed)
      /\ \A i \in 1..Len(receiveQueue) : Precedes(placed, receiveQueue[i])
      /\ Gone(placed)
  BY <1>1, <1>3 DEF TakenInv, WaitingInOrder, AllGone, Precedes, Gone, EndOf
<1>6. /\ lastReceived.data \subseteq Taken
      /\ \A i \in DOMAIN sent : sent[i].data \subseteq Taken
      /\ Taken' \subseteq Taken \cup {placed}
  BY <1>1 DEF Taken
<1>7. MessagesInOrder'
  <2>1. ASSUME NEW first \in lastReceived'.data, NEW second \in lastReceived'.data,
               first.at < second.at
        PROVE  Precedes(first, second)
    <3>1. CASE second = placed
      <4>1. first \in lastReceived.data
        BY <1>1, <1>2, <1>3, <2>1, <3>1
      <4> QED
        BY <1>5, <1>6, <3>1, <4>1
    <3>2. CASE second # placed
      <4>1. second \in lastReceived.data
        BY <1>1, <3>2
      <4>2. first # placed
        BY <1>2, <1>3, <2>1, <4>1
      <4> QED
        BY <1>1, <2>1, <4>1, <4>2 DEF TakenInv, MessagesInOrder
    <3> QED
      BY <3>1, <3>2
  <2>2. ASSUME NEW i \in DOMAIN sent, NEW first \in sent[i].data,
               NEW second \in lastReceived'.data
        PROVE  Precedes(first, second)
    BY <1>1, <1>5, <1>6 DEF TakenInv, MessagesInOrder
  <2> QED
    BY <1>1, <2>1, <2>2 DEF MessagesInOrder, Precedes, EndOf
<1>8. WaitingInOrder'
  BY <1>1, <1>5, <1>6 DEF TakenInv, WaitingInOrder, Precedes, EndOf
<1>9. AllGone'
  BY <1>1, <1>5, <1>6 DEF TakenInv, AllGone, Gone, EndOf
<1>10. NoneEmpty'
  BY <1>1 DEF TakenInv, NoneEmpty
<1>11. Places'
  <2>1. \A piece \in lastReceived'.data : piece.at <= start
    BY <1>1, <1>2, <1>3
  <2> QED
    BY <1>1, <1>4, <2>1 DEF Places
<1> QED
  BY <1>7, <1>8, <1>9, <1>10, <1>11

\* The length catches up with what was copied.
LEMMA LengthFollows ==
    ASSUME TypeInv, TakenInv, Receiver!Account
    PROVE  Places'
<1>1. /\ receiveThread = "account" /\ receiveThread' = "dispatch"
      /\ receiveFront' = receiveFront
      /\ lastReceived'.data = lastReceived.data
      /\ lastReceived'.length = Receiver!WriteOffset + receiveFront.payload
      /\ lastReceived'.stitch = receiveFront.stitch
  BY ReceiverFacts DEF Receiver!Account, TypeInv
<1>2. /\ receiveFront.payload \in Int /\ receiveFront.payload > 0
      /\ Receiver!WriteOffset \in Int
      /\ \A piece \in lastReceived.data :
            piece.at \in Int /\ piece.at <= Receiver!WriteOffset
  BY <1>1, ReceiverFacts DEF TypeInv, TakenInv, NoneEmpty, Places, Receiver!WriteOffset
<1>3. \A piece \in lastReceived'.data : piece.at < lastReceived'.length
  BY <1>1, <1>2
<1> QED
  BY <1>1, <1>3 DEF Places

\* What was put together is sent after everything else that was, or dropped.
LEMMA MessageSent ==
    ASSUME TypeInv, TakenInv, Receiver!Dispatch
    PROVE  /\ NothingSentTwice' /\ MessagesInOrder' /\ Places'
           /\ Taken' \subseteq Taken
<1> DEFINE message == Receiver!Contents(lastReceived)
<1>1. /\ receiveThread = "dispatch" /\ receiveThread' = "running"
      /\ UNCHANGED <<receiveQueue, receiveFront>>
      /\ \/ /\ receiveFront.stitch /\ UNCHANGED <<lastReceived, sent>>
         \/ /\ lastReceived' = Receiver!EmptyMessage
            /\ sent' = sent \/ sent' = Append(sent, message)
  BY DEF Receiver!Dispatch
<1>2. message.data \subseteq lastReceived.data
  BY DEF Receiver!Contents
<1> HIDE DEF message
<1>3. Places'
  <2>1. CASE receiveFront.stitch /\ UNCHANGED <<lastReceived, sent>>
    BY <1>1, <2>1 DEF TakenInv, Places
  <2>2. CASE lastReceived' = Receiver!EmptyMessage
    BY <1>1, <2>2 DEF Places, Receiver!EmptyMessage
  <2> QED
    BY <1>1, <2>1, <2>2
<1>4. CASE sent' = sent
  <2>1. lastReceived'.data \subseteq lastReceived.data
    BY <1>1 DEF Receiver!EmptyMessage
  <2> QED
    BY <1>3, <1>4, <2>1
       DEF TakenInv, NothingSentTwice, MessagesInOrder, Taken, Precedes, EndOf
<1>5. CASE /\ lastReceived' = Receiver!EmptyMessage
           /\ sent' = Append(sent, message)
  <2>1. /\ Len(sent) \in Nat /\ DOMAIN sent = 1..Len(sent)
        /\ DOMAIN sent' = 1..(Len(sent) + 1)
        /\ \A i \in DOMAIN sent' : \/ i \in DOMAIN sent /\ sent'[i] = sent[i]
                                   \/ i = Len(sent) + 1 /\ sent'[i] = message
    BY <1>5, SentFacts DEF TypeInv
  <2>2. lastReceived'.data = {}
    BY <1>5 DEF Receiver!EmptyMessage
  <2>3. NothingSentTwice'
    <3> SUFFICES ASSUME NEW i \in DOMAIN sent', NEW j \in DOMAIN sent',
                        NEW first \in sent'[i].data, NEW second \in sent'[j].data,
                        i < j \/ (i = j /\ first.at < second.at)
                 PROVE  Precedes(first, second)
      BY DEF NothingSentTwice, Precedes, EndOf
    <3>1. CASE i \in DOMAIN sent /\ j \in DOMAIN sent
      BY <2>1, <3>1 DEF TakenInv, NothingSentTwice
    <3>2. CASE i \in DOMAIN sent /\ sent'[j] = message
      BY <1>2, <2>1, <3>2 DEF TakenInv, MessagesInOrder
    <3>3. CASE i = Len(sent) + 1 /\ sent'[i] = message
      BY <1>2, <2>1, <3>3 DEF TakenInv, MessagesInOrder
    <3> QED
      BY <2>1, <3>1, <3>2, <3>3
  <2>4. MessagesInOrder'
    BY <2>2 DEF MessagesInOrder
  <2>5. Taken' \subseteq Taken
    BY <1>2, <2>1, <2>2 DEF Taken
  <2> QED
    BY <1>3, <2>3, <2>4, <2>5
<1> QED
  BY <1>1, <1>4, <1>5

\* All that a step of the program does between the PSP and XLink Kai.
LEMMA TakenMoves ==
    ASSUME PspOK, PspInside, [Next]_vars
    PROVE  \/ UNCHANGED receiverVars
           \/ \E piece : Fresh(piece) /\ Receiver!AddToQueue(piece)
           \/ Receiver!ThreadStep /\ UNCHANGED <<pspFrame, pspIndex>>
           \/ Receiver!StartThread \/ Receiver!ClearQueues
           \/ Receiver!RequestStop \/ Receiver!Join
<1> USE DEF receiverVars
<1>1. CASE ReadPacket
  BY <1>1, HandsOverFresh DEF ReadPacket, ReceiveCallback
<1>2. CASE ReceiverStep
  BY <1>2 DEF ReceiverStep, pspVars
<1>3. CASE HandleError \/ StartReceiverThread \/ StopReceiver \/ JoinReceiver
  BY <1>3 DEF HandleError, StartReceiverThread, StopReceiver, JoinReceiver
<1>4. CASE ~(ReadPacket \/ HandleError \/ ReceiverStep \/ StartReceiverThread
             \/ StopReceiver \/ JoinReceiver)
  <2>1. UNCHANGED receiverVars
    BY <1>4 DEF Next, UsbStep, Closing, LoopCondition, StopBranch, CheckDevice,
       BailOut, NoError, ReadTimeout, ReadFault, ReadNull, WritePacket, WriteDone,
       SenderStep, Send, MainOpen, MainGivesUp, Close, JoinUsb, StopSender,
       JoinSender, Finished, Unplug, Plug, vars
  <2> QED
    BY <2>1
<1> QED
  BY <1>1, <1>2, <1>3, <1>4

\* Each of these keeps the order.
LEMMA TakenStep ==
    ASSUME TypeInv, TypeInv', TakenInv, [Next]_vars
    PROVE  TakenInv'
<1>1. Onward /\ PspInside'
  BY StepOnward DEF TypeInv, TakenInv
<1>2. ASSUME UNCHANGED sent, lastReceived'.data \subseteq lastReceived.data
      PROVE  NothingSentTwice' /\ MessagesInOrder' /\ Taken' \subseteq Taken
  BY <1>2 DEF TakenInv, NothingSentTwice, MessagesInOrder, Taken, Precedes, EndOf
<1>3. ASSUME UNCHANGED sent, Places',
             lastReceived'.data \subseteq lastReceived.data,
             receiveQueue' = receiveQueue \/ receiveQueue' = <<>>,
             receiveThread' \in {"copy", "account"} =>
                 UNCHANGED <<receiveThread, receiveFront>>
      PROVE  TakenInv'
  BY <1>1, <1>2, <1>3, NothingNew DEF TakenInv
<1>4. CASE UNCHANGED receiverVars
  <2>1. Places'
    BY <1>4 DEF receiverVars, TakenInv, Places, Receiver!WriteOffset
  <2> QED
    BY <1>3, <1>4, <2>1 DEF receiverVars
<1>5. CASE \E piece : Fresh(piece) /\ Receiver!AddToQueue(piece)
  <2>1. UNCHANGED <<lastReceived, receiveThread, receiveFront, sent>>
    BY <1>5 DEF Receiver!AddToQueue
  <2>2. Places'
    BY <2>1 DEF TakenInv, Places, Receiver!WriteOffset
  <2> QED
    BY <1>1, <1>2, <1>5, <2>1, <2>2, FreshArrives DEF TakenInv
<1>6. CASE Receiver!ThreadStep /\ UNCHANGED <<pspFrame, pspIndex>>
  <2>1. CASE Receiver!Pop
    <3>1. /\ UNCHANGED <<lastReceived, sent>>
          /\ receiveThread = "running" /\ receiveThread' = "copy"
      BY <2>1 DEF Receiver!Pop
    <3>2. Places'
      BY <3>1 DEF TakenInv, Places
    <3> QED
      BY <1>1, <1>2, <1>6, <2>1, <3>1, <3>2, FirstPopped DEF TakenInv
  <2>2. CASE Receiver!Copy
    <3>1. UNCHANGED sent
      BY <2>2 DEF Receiver!Copy
    <3>2. NothingSentTwice'
      BY <3>1 DEF TakenInv, NothingSentTwice, Precedes, EndOf
    <3> QED
      BY <1>1, <1>6, <2>2, <3>2, FrontCopied DEF TakenInv
  <2>3. CASE Receiver!Account
    <3>1. /\ UNCHANGED <<receiveQueue, sent>> /\ receiveThread' = "dispatch"
          /\ lastReceived'.data = lastReceived.data
      BY <2>3, ReceiverFacts DEF Receiver!Account, TypeInv
    <3>2. NothingSentTwice' /\ MessagesInOrder' /\ Taken' = Taken
      BY <3>1 DEF TakenInv, NothingSentTwice, MessagesInOrder, Taken, Precedes, EndOf
    <3> QED
      BY <1>1, <2>3, <3>1, <3>2, LengthFollows, NothingNew DEF TakenInv
  <2>4. CASE Receiver!Dispatch
    <3>1. UNCHANGED receiveQueue /\ receiveThread' = "running"
      BY <2>4 DEF Receiver!Dispatch
    <3> QED
      BY <1>1, <2>4, <3>1, MessageSent, NothingNew DEF TakenInv
  <2>5. CASE Receiver!Exit
    <3>1. /\ UNCHANGED <<receiveQueue, lastReceived, receiveFront, sent>>
          /\ receiveThread = "running" /\ receiveThread' = "exited"
      BY <2>5 DEF Receiver!Exit
    <3>2. Places'
      BY <3>1 DEF TakenInv, Places
    <3> QED
      BY <1>3, <3>1, <3>2
  <2> QED
    BY <1>6, <2>1, <2>2, <2>3, <2>4, <2>5 DEF Receiver!ThreadStep
<1>7. CASE Receiver!StartThread
  <2>1. /\ UNCHANGED <<receiveQueue, lastReceived, receiveFront, sent>>
        /\ receiveThread = "none" /\ receiveThread' = "running"
    BY <1>7 DEF Receiver!StartThread
  <2>2. Places'
    BY <2>1 DEF TakenInv, Places
  <2> QED
    BY <1>3, <2>1, <2>2
<1>8. CASE Receiver!ClearQueues \/ Receiver!Join
  <2>1. /\ UNCHANGED <<sent, receiveFront>>
        /\ lastReceived'.data = {} /\ receiveQueue' = <<>>
        /\ receiveThread' = receiveThread \/ receiveThread' \in {"none", "dispatch"}
    BY <1>8 DEF Receiver!ClearQueues, Receiver!Join, Receiver!EmptyMessage
  <2>2. Places'
    BY <2>1 DEF Places
  <2> QED
    BY <1>3, <2>1, <2>2
<1>9. CASE Receiver!RequestStop
  <2>1. UNCHANGED <<receiveQueue, lastReceived, receiveThread, receiveFront, sent>>
    BY <1>9 DEF Receiver!RequestStop
  <2>2. Places'
    BY <2>1 DEF TakenInv, Places, Receiver!WriteOffset
  <2> QED
    BY <1>3, <2>1, <2>2
<1> QED
  BY <1>4, <1>5, <1>6, <1>7, <1>8, <1>9, TakenMoves DEF TypeInv, TakenInv

\* Nothing was taken yet.
LEMMA InitTakenInv == Init => TakenInv
<1> SUFFICES ASSUME Init PROVE TakenInv
  OBVIOUS
<1>1. /\ pspFrame = NoMessage
      /\ receiveQueue = <<>> /\ sent = <<>> /\ receiveThread = "none"
      /\ lastReceived.data = {} /\ lastReceived.stitch = FALSE
  BY DEF Init, Receiver!Init, Receiver!EmptyMessage
<1>2. Taken = {} /\ DOMAIN sent = {} /\ Len(receiveQueue) = 0
  BY <1>1 DEF Taken
<1> QED
  BY <1>1, <1>2 DEF TakenInv, PspInside, NothingSentTwice, MessagesInOrder,
     WaitingInOrder, AllGone, NoneEmpty, Places

\* NothingSentTwice: with any faults, resets, lost and mixed pieces, what XLink
\* Kai gets is in the order in which the PSP sent it, and no byte twice.
THEOREM NothingEverSentTwice == Spec => []NothingSentTwice
<1>1. TakenInv => NothingSentTwice
  BY DEF TakenInv
<1> QED
  BY <1>1, InitTakenInv, TakenStep, TypeInvariance, PTL DEF Spec
=============================================================================
