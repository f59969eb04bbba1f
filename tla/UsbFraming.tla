----------------------------- MODULE UsbFraming -----------------------------
(***************************************************************************)
(* How an 802.11 frame travels over the PSP's USB pipe in packets of at    *)
(* most cMaxUSBPacketSize bytes.  Every packet starts with an AsyncCommand *)
(* header, the first packet of a frame also carries an AsyncSubHeader that *)
(* holds the length of the whole frame.  A packet is a "stitch" packet     *)
(* when more of the same frame follows it.                                 *)
(*                                                                         *)
(* Bytes are not modelled: a frame is an identity and a length, a piece of *)
(* a frame is the range of bytes it holds.                                 *)
(***************************************************************************)
EXTENDS Integers, Sequences

CONSTANTS cMaxUSBPacketSize,       \* 512: the size of one bulk transfer
          cAsyncHeaderSize,        \* 8: sizeof(AsyncCommand)
          cAsyncSubHeaderSize,     \* 16: sizeof(AsyncSubHeader)
          cHostFSHeaderSize,       \* 12: sizeof(HostFsCommand)
          cMaxAsynchronousBuffer   \* 2304: the largest 802.11 frame

cAsyncHeaderAndSubHeaderSize == cAsyncHeaderSize + cAsyncSubHeaderSize

ASSUME FramingAssumption ==
    /\ cMaxUSBPacketSize \in Nat
    /\ cAsyncHeaderSize \in Nat \ {0}
    /\ cAsyncSubHeaderSize \in Nat
    /\ cHostFSHeaderSize \in Nat
    /\ cMaxAsynchronousBuffer \in Nat
    /\ cHostFSHeaderSize <= cAsyncHeaderAndSubHeaderSize
    /\ cAsyncHeaderAndSubHeaderSize < cMaxUSBPacketSize

\* A frame: identities count up from 1 in the order the frames are made.
Message == [id : Nat, length : Nat]

\* Stands for a value-initialised packet: no frame at all.
NoMessage == [id |-> 0, length |-> 0]

\* The headers in front of the bytes that start at offset index of a frame.
HeaderLength(index) ==
    IF index = 0 THEN cAsyncHeaderAndSubHeaderSize ELSE cAsyncHeaderSize

\* The bytes of the frame that fit behind those headers.
Room(index) == cMaxUSBPacketSize - HeaderLength(index)

\* Mutant: a rest that just fits is cut once more.
Stitch_JustFits(length, index) == length - index >= Room(index)

Stitch(length, index) == length - index > Room(index)

Payload(length, index) ==
    IF Stitch(length, index) THEN Room(index) ELSE length - index

\* The packet that carries the bytes of m from offset index on.
Fragment(m, index) ==
    [msg     |-> m,
     from    |-> index,
     payload |-> Payload(m.length, index),
     stitch  |-> Stitch(m.length, index)]

Fragments == [msg : Message, from : Int, payload : Int, stitch : BOOLEAN]

\* The length of a packet on the wire.
PacketSize(fragment) == HeaderLength(fragment.from) + fragment.payload

\* The end of fragment, as an offset into its frame.
EndOf(fragment) == fragment.from + fragment.payload

\* second may directly follow first on the wire.
Follows(first, second) ==
    IF first.stitch
    THEN second.msg = first.msg /\ second.from = EndOf(first)
    ELSE second.from = 0 /\ second.msg.id > first.msg.id

\* Between the first and the last of these packets no frame is interrupted or
\* misses a packet, and the frames come in the order they were made.  What
\* came before the first packet is not spoken of.
WellFramed(packets) ==
    \A i \in 1..(Len(packets) - 1) : Follows(packets[i], packets[i + 1])

\* The identities of the frames whose last packet is in packets.
FinishedIn(packets) ==
    {packets[i].msg.id : i \in {n \in DOMAIN packets : ~packets[n].stitch}}
=============================================================================
