-------------------------- MODULE ReaderLifecycle --------------------------
(***************************************************************************)
(* What the rest of the program can tell of a USBReader: whether it holds  *)
(* a device, whether its threads are there, and how far Close has come.    *)
(* Frames, queues, transfers and their counters are left out.  USBReader   *)
(* implements this specification, and the whole program is composed of it. *)
(***************************************************************************)

VARIABLES held,      \* mDeviceHandle # nullptr
          stop,      \* mStopRequest
          retrying,  \* mRetryCounter > 0
          thread,    \* the USB thread: "none", "running" or "exited"
          phase      \* main's progress, see Phases

vars == <<held, stop, retrying, thread, phase>>

\* "sender" and "receiver": Close waits for that queue thread to end.
Phases == {"opening", "running", "join", "sender", "receiver", "closed"}

\* mUSBSendThread and mUSBReceiveThread point to a thread.
SenderLives   == phase \in {"running", "join", "sender"}
ReceiverLives == SenderLives \/ phase = "receiver"

Init ==
    /\ held = FALSE
    /\ stop = FALSE
    /\ retrying = FALSE
    /\ thread = "none"
    /\ phase = "opening"

-----------------------------------------------------------------------------
(* The USB thread.                                                         *)

HandleClose == held' = FALSE /\ stop' = FALSE

StopBranch ==
    /\ thread = "running"
    /\ stop
    /\ HandleClose
    /\ UNCHANGED <<retrying, thread, phase>>

\* A restart takes back a stop request, whether it finds the device or not.
HandleError ==
    /\ thread = "running"
    /\ held' \in BOOLEAN
    /\ stop' = FALSE
    /\ retrying' = TRUE
    /\ UNCHANGED <<thread, phase>>

BailOut ==
    /\ thread = "running"
    /\ HandleClose
    /\ retrying' = FALSE
    /\ UNCHANGED <<thread, phase>>

\* Reading a packet ends the retries.
ReadPacket ==
    /\ thread = "running"
    /\ held
    /\ retrying' = FALSE
    /\ UNCHANGED <<held, stop, thread, phase>>

LoopEnds ==
    /\ thread = "running"
    /\ ~(held \/ (retrying /\ ~stop))
    /\ thread' = "exited"
    /\ UNCHANGED <<held, stop, retrying, phase>>

UsbStep == StopBranch \/ HandleError \/ BailOut \/ ReadPacket \/ LoopEnds

-----------------------------------------------------------------------------
(* The main thread.                                                        *)

Open ==
    /\ phase = "opening"
    /\ ~held
    /\ held' \in BOOLEAN
    /\ UNCHANGED <<stop, retrying, thread, phase>>

StartReceiverThread ==
    /\ phase = "opening"
    /\ held
    /\ thread' = "running"
    /\ phase' = "running"
    /\ UNCHANGED <<held, stop, retrying>>

\* Without a USB thread Close lets go of the device itself.
Close ==
    \/ /\ phase = "opening"
       /\ HandleClose
       /\ phase' = "closed"
       /\ UNCHANGED <<retrying, thread>>
    \/ /\ phase = "running"
       /\ stop' = TRUE
       /\ phase' = "join"
       /\ UNCHANGED <<held, retrying, thread>>

Join ==
    /\ phase = "join"
    /\ thread = "exited"
    /\ thread' = "none"
    /\ phase' = "sender"
    /\ UNCHANGED <<held, stop, retrying>>

SenderStops ==
    /\ phase = "sender"
    /\ phase' = "receiver"
    /\ UNCHANGED <<held, stop, retrying, thread>>

ReceiverStops ==
    /\ phase = "receiver"
    /\ phase' = "closed"
    /\ UNCHANGED <<held, stop, retrying, thread>>

Next ==
    \/ UsbStep
    \/ Open \/ StartReceiverThread \/ Close
    \/ Join \/ SenderStops \/ ReceiverStops

Spec == Init /\ [][Next]_vars
=============================================================================
