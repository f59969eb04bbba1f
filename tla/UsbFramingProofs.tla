-------------------------- MODULE UsbFramingProofs --------------------------
(***************************************************************************)
(* What cutting a frame into packets comes to, for every packet size: the  *)
(* facts about UsbFraming that the proofs about both directions rest on.   *)
(***************************************************************************)
EXTENDS UsbFraming, TLAPS

\* A packet of an unfinished frame carries at least one byte of it, no more
\* than is left, and announces another packet exactly when something is left.
LEMMA FragmentProgress ==
    ASSUME NEW m \in Message, NEW index \in Nat, index < m.length
    PROVE  /\ Fragment(m, index) \in Fragments
           /\ Fragment(m, index).msg = m
           /\ Fragment(m, index).from = index
           /\ Fragment(m, index).payload \in Nat
           /\ Fragment(m, index).payload > 0
           /\ index + Fragment(m, index).payload <= m.length
           /\ Fragment(m, index).stitch
                 <=> index + Fragment(m, index).payload < m.length
<1>1. HeaderLength(index) \in Nat /\ HeaderLength(index) < cMaxUSBPacketSize
  BY FramingAssumption DEF HeaderLength, cAsyncHeaderAndSubHeaderSize
<1>2. Room(index) \in Nat /\ Room(index) > 0
  BY <1>1, FramingAssumption DEF Room
<1>3. m.length \in Nat
  BY DEF Message
<1>4. /\ Payload(m.length, index) \in Nat
      /\ Payload(m.length, index) > 0
      /\ index + Payload(m.length, index) <= m.length
      /\ Stitch(m.length, index) <=> index + Payload(m.length, index) < m.length
      /\ Stitch(m.length, index) \in BOOLEAN
  BY <1>2, <1>3 DEF Payload, Stitch
<1> QED
  BY <1>4 DEF Fragment, Fragments

\* Appending a packet keeps a run of packets well framed when the packet may
\* follow the last one.
LEMMA AppendFramed ==
    ASSUME NEW packets \in Seq(Fragments), NEW packet \in Fragments,
           WellFramed(packets),
           packets # <<>> => Follows(packets[Len(packets)], packet)
    PROVE  WellFramed(Append(packets, packet))
<1> SUFFICES ASSUME NEW i \in 1..(Len(Append(packets, packet)) - 1)
             PROVE  Follows(Append(packets, packet)[i],
                            Append(packets, packet)[i + 1])
  BY DEF WellFramed
<1>1. i \in 1..Len(packets) /\ Append(packets, packet)[i] = packets[i]
  OBVIOUS
<1>2. CASE i = Len(packets)
  BY <1>1, <1>2
<1>3. CASE i < Len(packets)
  <2>1. Append(packets, packet)[i + 1] = packets[i + 1]
    BY <1>1, <1>3
  <2> QED
    BY <1>1, <1>3, <2>1 DEF WellFramed
<1> QED
  BY <1>1, <1>2, <1>3

\* A frame is finished in a run of packets when its last packet is in it.
LEMMA FinishedMember ==
    ASSUME NEW packets \in Seq(Fragments), NEW id
    PROVE  id \in FinishedIn(packets)
              <=> \E i \in 1..Len(packets) : ~packets[i].stitch /\ packets[i].msg.id = id
BY DEF FinishedIn

\* A packet appended finishes its frame when it is the last one of it.
LEMMA FinishedAppend ==
    ASSUME NEW packets \in Seq(Fragments), NEW packet \in Fragments
    PROVE  FinishedIn(Append(packets, packet))
              = FinishedIn(packets) \cup (IF packet.stitch THEN {} ELSE {packet.msg.id})
<1> DEFINE longer == Append(packets, packet)
<1>1. /\ longer \in Seq(Fragments)
      /\ Len(packets) \in Nat /\ Len(longer) = Len(packets) + 1
      /\ \A i \in 1..Len(packets) : longer[i] = packets[i]
      /\ longer[Len(longer)] = packet
  OBVIOUS
<1> HIDE DEF longer
<1>2. ASSUME NEW id
      PROVE  id \in FinishedIn(longer)
                <=> id \in FinishedIn(packets) \/ (~packet.stitch /\ id = packet.msg.id)
  <2>1. id \in FinishedIn(longer)
           <=> \E i \in 1..Len(longer) : ~longer[i].stitch /\ longer[i].msg.id = id
    BY <1>1, FinishedMember
  <2>2. id \in FinishedIn(packets)
           <=> \E i \in 1..Len(packets) : ~packets[i].stitch /\ packets[i].msg.id = id
    BY FinishedMember
  <2> QED
    BY <1>1, <2>1, <2>2
<1>3. ASSUME NEW id
      PROVE  id \in (IF packet.stitch THEN {} ELSE {packet.msg.id})
                <=> ~packet.stitch /\ id = packet.msg.id
  OBVIOUS
<1> QED
  BY <1>2, <1>3 DEF longer

\* Without its first packet a run of packets finishes the other frames only.
LEMMA FinishedTail ==
    ASSUME NEW packets \in Seq(Fragments), packets # <<>>
    PROVE  FinishedIn(packets)
              = FinishedIn(Tail(packets))
                \cup (IF Head(packets).stitch THEN {} ELSE {Head(packets).msg.id})
<1> DEFINE rest == Tail(packets)
           first == Head(packets)
<1>1. /\ rest \in Seq(Fragments)
      /\ Len(packets) \in Nat /\ Len(rest) = Len(packets) - 1
      /\ \A i \in 1..Len(rest) : rest[i] = packets[i + 1]
      /\ 1 \in 1..Len(packets) /\ packets[1] = first
  OBVIOUS
<1> HIDE DEF rest, first
<1>2. ASSUME NEW id
      PROVE  id \in FinishedIn(packets)
                <=> id \in FinishedIn(rest) \/ (~first.stitch /\ id = first.msg.id)
  <2>1. id \in FinishedIn(packets)
           <=> \E i \in 1..Len(packets) : ~packets[i].stitch /\ packets[i].msg.id = id
    BY FinishedMember
  <2>2. id \in FinishedIn(rest)
           <=> \E i \in 1..Len(rest) : ~rest[i].stitch /\ rest[i].msg.id = id
    BY <1>1, FinishedMember
  <2>3. ASSUME NEW i \in 1..Len(packets)
        PROVE  i = 1 \/ (i - 1 \in 1..Len(rest) /\ packets[i] = rest[i - 1])
    BY <1>1
  <2>4. \A i \in 1..Len(rest) : i + 1 \in 1..Len(packets) /\ rest[i] = packets[i + 1]
    BY <1>1
  <2> QED
    BY <1>1, <2>1, <2>2, <2>3, <2>4
<1>3. ASSUME NEW id
      PROVE  id \in (IF first.stitch THEN {} ELSE {first.msg.id})
                <=> ~first.stitch /\ id = first.msg.id
  OBVIOUS
<1> QED
  BY <1>2, <1>3 DEF rest, first

\* One packet, or none.
LEMMA FinishedOne ==
    /\ FinishedIn(<<>>) = {}
    /\ \A packet : FinishedIn(<<packet>>)
                      = IF packet.stitch THEN {} ELSE {packet.msg.id}
<1>1. FinishedIn(<<>>) = {}
  BY DEF FinishedIn
<1>2. ASSUME NEW packet
      PROVE  FinishedIn(<<packet>>) = IF packet.stitch THEN {} ELSE {packet.msg.id}
  <2>1. DOMAIN <<packet>> = {1} /\ <<packet>>[1] = packet
    OBVIOUS
  <2> QED
    BY <2>1 DEF FinishedIn
<1> QED
  BY <1>1, <1>2
=============================================================================
