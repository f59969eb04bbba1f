------------------------------- MODULE Cwusb -------------------------------
(***************************************************************************)
(* The whole program: the main thread opens, starts and closes the         *)
(* USBReader and the XLinkKaiConnection, a signal ends it, and each of the *)
(* two hands frames to the other from a thread of its own.  The connection *)
(* is XLinkKaiConnection in full; the reader is ReaderLifecycle, which     *)
(* USBReader implements.                                                   *)
(***************************************************************************)
EXTENDS Naturals, Sequences

CONSTANTS InFlight, MaxFaults, MayKick, KaiSends,
          MayOvertake,    \* see XLinkKaiConnection
          MaxRestarts     \* bound: restarts of the device

ASSUME CwusbAssumption ==
    /\ {InFlight, MaxFaults, MaxRestarts} \subseteq Nat
    /\ {MayKick, KaiSends, MayOvertake} \subseteq BOOLEAN

VARIABLES gRunning,
          main,        \* where the main thread is, see MainStates
          connection,  \* how far main's work on the connection has come
          mConnected, mConnectInitiated, mSettingsSent, connectionTimer,
          keepAliveTimer, socket, receive, stopped, receiver, usb, toKai,
          toBridge, kai, ddsOnly, faults,        \* of XLinkKaiConnection
          held, stop, retrying, thread, phase,   \* of ReaderLifecycle
          restarts     \* how often the device may still be restarted

Kai == INSTANCE XLinkKaiConnection
           WITH main <- connection, MayClose <- TRUE

Reader == INSTANCE ReaderLifecycle

kaiVars    == <<connection, mConnected, mConnectInitiated, mSettingsSent,
                connectionTimer, keepAliveTimer, socket, receive, stopped,
                receiver, usb, toKai, toBridge, kai, ddsOnly, faults>>
readerVars == <<held, stop, retrying, thread, phase>>
vars       == <<gRunning, main, restarts, kaiVars, readerVars>>

\* "crashed": mUSBSendThread was used while it was null.
MainStates == {"opening", "openingReader", "startConnection", "startReader",
               "running", "closeReader", "closeConnection", "ended", "crashed"}

Init ==
    /\ gRunning = TRUE
    /\ main = "opening"
    /\ Kai!Init
    /\ Reader!Init
    /\ restarts = MaxRestarts

\* The handler waits for one signal.
SignalHandler ==
    /\ gRunning
    /\ gRunning' = FALSE
    /\ UNCHANGED <<main, restarts, kaiVars, readerVars>>

-----------------------------------------------------------------------------
(* The main thread.                                                        *)

BothOpen == socket = "open" /\ held

\* A turn of the loop tries what is not open yet.
OpenConnection ==
    /\ main = "opening"
    /\ gRunning
    /\ ~BothOpen
    /\ IF socket = "open" THEN UNCHANGED kaiVars ELSE Kai!Open
    /\ main' = "openingReader"
    /\ UNCHANGED <<gRunning, restarts, readerVars>>

OpenReader ==
    /\ main = "openingReader"
    /\ IF held THEN UNCHANGED readerVars ELSE Reader!Open
    /\ main' = "opening"
    /\ UNCHANGED <<gRunning, restarts, kaiVars>>

\* Mutant: nothing but success ends the loop.
LeaveLoop_Both ==
    /\ main = "opening"
    /\ BothOpen
    /\ main' = "startConnection"
    /\ UNCHANGED <<gRunning, restarts, kaiVars, readerVars>>

LeaveLoop ==
    /\ main = "opening"
    /\ ~gRunning \/ BothOpen
    /\ main' = "startConnection"
    /\ UNCHANGED <<gRunning, restarts, kaiVars, readerVars>>

StartConnection ==
    /\ main = "startConnection"
    /\ Kai!StartReceiverThread
    /\ main' = IF socket = "open" THEN "startReader" ELSE "closeReader"
    /\ UNCHANGED <<gRunning, restarts, readerVars>>

StartReader ==
    /\ main = "startReader"
    /\ IF held THEN Reader!StartReceiverThread /\ main' = "running"
               ELSE UNCHANGED readerVars /\ main' = "closeReader"
    /\ UNCHANGED <<gRunning, restarts, kaiVars>>

StopRunning ==
    /\ main = "running"
    /\ ~gRunning
    /\ main' = "closeReader"
    /\ UNCHANGED <<gRunning, restarts, kaiVars, readerVars>>

\* Mutant: the threads of the reader are not waited for.
CloseReader_Early ==
    /\ main = "closeReader"
    /\ Reader!Close
    /\ main' = "closeConnection"
    /\ UNCHANGED <<gRunning, restarts, kaiVars>>

\* USBReader's Close; it joins the receive thread only when that is not in
\* Send.
CloseReader ==
    /\ main = "closeReader"
    /\ \/ Reader!Close
       \/ Reader!Join
       \/ Reader!SenderStops
       \/ Reader!ReceiverStops /\ usb = "idle"
    /\ main' = IF phase' = "closed" THEN "closeConnection" ELSE main
    /\ UNCHANGED <<gRunning, restarts, kaiVars>>

CloseConnection ==
    /\ main = "closeConnection"
    /\ Kai!Close \/ Kai!Closing
    /\ main' = IF connection' = "closed" THEN "ended" ELSE main
    /\ UNCHANGED <<gRunning, restarts, readerVars>>

MainStep ==
    \/ OpenConnection \/ OpenReader \/ LeaveLoop
    \/ StartConnection \/ StartReader \/ StopRunning
    \/ CloseReader \/ CloseConnection

-----------------------------------------------------------------------------
(* The other threads.                                                      *)

\* A frame of XLink Kai is put into the queue of the send thread.
ConnectionThread ==
    /\ Kai!ReceiverStep
    /\ main' = IF Kai!HandsOver /\ ~Reader!SenderLives THEN "crashed" ELSE main
    /\ UNCHANGED <<gRunning, restarts, readerVars>>

\* The USB receive thread has a frame for XLink Kai.
ReceiveThreadSends ==
    /\ Reader!ReceiverLives
    /\ Kai!SendCheck
    /\ UNCHANGED <<gRunning, restarts, main, readerVars>>

ReceiveThreadStep ==
    /\ Kai!UsbStep
    /\ UNCHANGED <<gRunning, restarts, main, readerVars>>

Restart ==
    /\ restarts > 0
    /\ Reader!HandleError
    /\ restarts' = restarts - 1

GiveUp == Reader!BailOut /\ UNCHANGED restarts

UsbThreadEnds == (Reader!StopBranch \/ Reader!LoopEnds) /\ UNCHANGED restarts

\* The device answers after a restart.
DeviceAnswers == retrying /\ Reader!ReadPacket /\ UNCHANGED restarts

UsbThread ==
    /\ Restart \/ GiveUp \/ UsbThreadEnds \/ DeviceAnswers
    /\ UNCHANGED <<gRunning, main, kaiVars>>

Outside ==
    /\ Kai!Outside
    /\ UNCHANGED <<gRunning, restarts, main, readerVars>>

Ended == main \in {"ended", "crashed"} /\ UNCHANGED vars

Next ==
    \/ /\ main \notin {"ended", "crashed"}
       /\ \/ SignalHandler \/ MainStep
          \/ ConnectionThread \/ ReceiveThreadSends \/ ReceiveThreadStep
          \/ UsbThread
          \/ Outside
    \/ Ended

Running(Action) == main # "crashed" /\ Action

\* poll() returns: datagrams do not arrive faster than they are handled.
PollReturns == ConnectionThread /\ receiver = "poll" /\ receiver' = "loop"

\* The threads run; that a device which was opened again answers or is given up
\* is not assumed.
\* SF: the receive thread looks at its stop request between two frames.
Fairness ==
    /\ WF_vars(Running(MainStep))
    /\ SF_vars(Running(CloseReader))
    /\ WF_vars(Running(ConnectionThread))
    /\ WF_vars(Running(PollReturns))
    /\ WF_vars(Running(ReceiveThreadStep))
    /\ WF_vars(UsbThread /\ UsbThreadEnds)

Spec == Init /\ [][Next]_vars /\ Fairness

-----------------------------------------------------------------------------

\* The USB thread runs on although Close has asked it to stop and waits for it:
\* a restart of the device, or the loop letting go of a device that it has not
\* read from since a restart, has taken the request back.
StopForgotten ==
    /\ phase = "join"
    /\ thread = "running"
    /\ ~stop
    /\ held \/ retrying

\* A signal ends the program, wherever main is in opening, starting or running
\* the two components and whatever their threads do, unless the reader forgets
\* Close's stop request.  (That the program may crash on the way is
\* GracefulExit's matter.)
SignalEnds == ~gRunning ~> (main \in {"ended", "crashed"} \/ StopForgotten)

\* Nothing outlives an orderly end: main has let go of the device and the
\* socket, and no thread of either component is left.
NothingLeft ==
    main = "ended" =>
        /\ ~held
        /\ thread = "none"
        /\ phase = "closed"
        /\ socket = "closed"
        /\ receiver = "none"
        /\ usb = "idle"

\* The main thread and the USB receive thread treat the connection as its own
\* specification expects them to: main closes it only when nobody sends any
\* more, and nobody sends before it is started.
ConnectionUsedAsAssumed == Kai!SafetySpec

\* Ending the program is graceful: as long as the reader has a thread, a frame
\* that XLink Kai sends meets its send thread.
GracefulExit == main = "crashed" => ~Reader!ReceiverLives
=============================================================================
