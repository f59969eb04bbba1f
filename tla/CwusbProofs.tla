---------------------------- MODULE CwusbProofs ----------------------------
(***************************************************************************)
(* The program uses its connection as XLinkKaiConnection expects it to, so *)
(* what is proved of the connection holds in the program, and an orderly   *)
(* end leaves nothing behind: for any number of faults, restarts and       *)
(* datagrams under way, forgotten stop requests and late frames included.  *)
(***************************************************************************)
EXTENDS Cwusb, TLAPS

KaiProofs == INSTANCE XLinkKaiConnectionProofs
    WITH main <- connection, MayClose <- TRUE

\* How far the two components are where the main thread is.
MainInStep ==
    /\ main \in MainStates
    /\ main \in {"opening", "openingReader", "startConnection"} =>
           connection = "opening" /\ phase = "opening"
    /\ main = "startReader" => connection = "running" /\ phase = "opening"
    /\ main = "running" => connection = "running" /\ phase = "running"
    /\ main = "closeReader" =>
           /\ connection \in {"running", "failed"}
           /\ connection = "failed" => phase = "opening"
           /\ phase # "closed"
    /\ main \in {"closeConnection", "ended"} => phase = "closed"
    /\ main = "ended" => connection = "closed"

\* The receive thread is the only one in Send.
OnlyReceiveThreadSends == usb = "idle" \/ Reader!ReceiverLives

\* Once the USB thread is gone the reader holds no device.
DeviceLetGo ==
    /\ thread = "exited" => ~held
    /\ phase = "opening" => thread = "none"
    /\ phase \in {"sender", "receiver", "closed"} => thread = "none" /\ ~held

\* main touches the socket only while the connection has no thread.
ThreadJoined ==
    /\ connection \in {"opening", "failed", "close", "closed"} => receiver = "none"
    /\ connection = "closed" => socket = "closed"

IInv == MainInStep /\ OnlyReceiveThreadSends /\ DeviceLetGo /\ ThreadJoined

-----------------------------------------------------------------------------

\* At the beginning nothing is open and no thread has been started.
LEMMA InitIInv == Init => IInv
BY DEF Init, Kai!Init, Reader!Init, IInv, MainInStep, MainStates,
       OnlyReceiveThreadSends, DeviceLetGo, ThreadJoined

\* The connection's own thread, the clock and the network leave main's and the
\* USB receive thread's work on it alone.
LEMMA OthersLeaveAlone ==
    Kai!ReceiverStep \/ Kai!Outside => UNCHANGED <<connection, usb>>
<1>1. CASE Kai!ReceiverStep
  BY <1>1
     DEF Kai!ReceiverStep, Kai!Restart, Kai!ThreadEnds, Kai!CloseSocket,
         Kai!Reopen, Kai!Connect, Kai!Timeout, Kai!Choose, Kai!SendSettings,
         Kai!PollAborted, Kai!PollDatagram, Kai!PollNothing, Kai!threads
<1>2. CASE Kai!Outside
  BY <1>2
     DEF Kai!Outside, Kai!ConnectionTimerExpires, Kai!KeepAliveTimerExpires,
         Kai!KaiReceives, Kai!KaiKeepsAlive, Kai!KaiPassesOn, Kai!KaiKicks,
         Kai!KaiCrashes, Kai!KaiStarts, Kai!LoseDatagram, Kai!threads
<1>3. QED
  BY <1>1, <1>2

\* What the main thread and the USB receive thread do keeps to the conditions
\* MainStarts, MainCloses and UsbSends of the connection's specification.
LEMMA ConnectionStep == IInv /\ [Next]_vars => [Kai!Next]_(Kai!vars)
<1> SUFFICES ASSUME IInv, [Next]_vars
             PROVE  Kai!Next \/ UNCHANGED Kai!vars
  OBVIOUS
<1> USE DEF kaiVars, Kai!vars, Kai!flags, Kai!timers, Kai!threads, Kai!io,
            Kai!network
<1>1. CASE SignalHandler \/ Ended \/ UNCHANGED vars
  BY <1>1 DEF SignalHandler, Ended, vars
<1>2. CASE OpenConnection \/ OpenReader \/ LeaveLoop
  BY <1>2 DEF OpenConnection, OpenReader, LeaveLoop, Kai!Next
<1>3. CASE StartConnection
  BY <1>3 DEF StartConnection, Kai!Next, Kai!MainStarts
<1>4. CASE StartReader \/ StopRunning \/ CloseReader
  BY <1>4 DEF StartReader, StopRunning, CloseReader
<1>5. CASE CloseConnection
  <2>1. usb = "idle"
    BY <1>5 DEF CloseConnection, IInv, MainInStep, OnlyReceiveThreadSends,
       Reader!ReceiverLives, Reader!SenderLives
  <2>2. QED
    BY <1>5, <2>1 DEF CloseConnection, Kai!Next, Kai!MainCloses
<1>6. CASE ConnectionThread \/ ReceiveThreadStep \/ UsbThread \/ Outside
  BY <1>6 DEF ConnectionThread, ReceiveThreadStep, UsbThread, Outside, Kai!Next
<1>7. CASE main \notin {"ended", "crashed"} /\ ReceiveThreadSends
  <2>1. connection = "running"
    BY <1>7 DEF ReceiveThreadSends, IInv, MainInStep, MainStates,
       Reader!ReceiverLives, Reader!SenderLives
  <2>2. QED
    BY <1>7, <2>1 DEF ReceiveThreadSends, Kai!Next, Kai!UsbSends
<1>8. QED
  BY <1>1, <1>2, <1>3, <1>4, <1>5, <1>6, <1>7 DEF Next, MainStep

\* The main thread's own steps, one after the other.
LEMMA MainStepIInv == IInv /\ MainStep => (MainInStep /\ OnlyReceiveThreadSends)'
<1> SUFFICES ASSUME IInv, MainStep
             PROVE  MainInStep' /\ OnlyReceiveThreadSends'
  OBVIOUS
<1> USE DEF IInv, MainInStep, MainStates, OnlyReceiveThreadSends, kaiVars,
            readerVars, Reader!ReceiverLives, Reader!SenderLives
<1>1. CASE OpenConnection
  BY <1>1 DEF OpenConnection, Kai!Open, Kai!threads
<1>2. CASE OpenReader
  BY <1>2 DEF OpenReader, Reader!Open
<1>3. CASE LeaveLoop
  BY <1>3 DEF LeaveLoop
<1>4. CASE StartConnection
  BY <1>4 DEF StartConnection, Kai!StartReceiverThread
<1>5. CASE StartReader
  BY <1>5 DEF StartReader, Reader!StartReceiverThread
<1>6. CASE StopRunning
  BY <1>6 DEF StopRunning
<1>7. CASE CloseReader
  BY <1>7 DEF CloseReader, Reader!Close, Reader!Join, Reader!SenderStops,
              Reader!ReceiverStops
<1>8. CASE CloseConnection
  BY <1>8 DEF CloseConnection, Kai!Close, Kai!Closing, Kai!ClearFlags, Kai!Stop,
              Kai!Join, Kai!CloseAfterJoin
<1>9. QED
  BY <1>1, <1>2, <1>3, <1>4, <1>5, <1>6, <1>7, <1>8 DEF MainStep

\* The threads run beside main without taking it or the receive thread further.
LEMMA ThreadsIInv ==
    IInv /\ [Next]_vars /\ ~MainStep => (MainInStep /\ OnlyReceiveThreadSends)'
<1> SUFFICES ASSUME IInv, [Next]_vars, ~MainStep
             PROVE  MainInStep' /\ OnlyReceiveThreadSends'
  OBVIOUS
<1> USE DEF IInv, MainInStep, MainStates, OnlyReceiveThreadSends, kaiVars,
            readerVars, Reader!ReceiverLives, Reader!SenderLives
<1>1. CASE SignalHandler \/ Ended \/ UNCHANGED vars
  BY <1>1 DEF SignalHandler, Ended, vars
<1>2. CASE ConnectionThread \/ Outside
  BY <1>2, OthersLeaveAlone DEF ConnectionThread, Outside
<1>3. CASE ReceiveThreadSends
  BY <1>3 DEF ReceiveThreadSends, Kai!SendCheck
<1>4. CASE ReceiveThreadStep
  BY <1>4 DEF ReceiveThreadStep, Kai!UsbStep, Kai!SendData, Kai!SendNotOpen
<1>5. CASE UsbThread
  BY <1>5 DEF UsbThread, Restart, GiveUp, UsbThreadEnds, DeviceAnswers,
     Reader!HandleError, Reader!BailOut, Reader!StopBranch, Reader!LoopEnds,
     Reader!ReadPacket
<1>6. QED
  BY <1>1, <1>2, <1>3, <1>4, <1>5 DEF Next

\* The device is held only by the loop that opens it and by the USB thread.
LEMMA DeviceIInv == IInv /\ [Next]_vars => DeviceLetGo'
<1> SUFFICES ASSUME IInv, [Next]_vars PROVE DeviceLetGo'
  OBVIOUS
<1> USE DEF IInv, DeviceLetGo, readerVars
<1>1. CASE UNCHANGED readerVars
  BY <1>1
<1>2. CASE OpenReader
  BY <1>2 DEF OpenReader, Reader!Open
<1>3. CASE StartReader
  BY <1>3 DEF StartReader, Reader!StartReceiverThread
<1>4. CASE CloseReader
  BY <1>4 DEF CloseReader, Reader!Close, Reader!HandleClose, Reader!Join,
              Reader!SenderStops, Reader!ReceiverStops
<1>5. CASE UsbThread
  BY <1>5 DEF UsbThread, Restart, GiveUp, UsbThreadEnds, DeviceAnswers,
     Reader!HandleError, Reader!BailOut, Reader!StopBranch, Reader!LoopEnds,
     Reader!ReadPacket, Reader!HandleClose
<1>6. QED
  BY <1>1, <1>2, <1>3, <1>4, <1>5
     DEF Next, MainStep, OpenConnection, LeaveLoop, StartConnection, StopRunning,
         CloseConnection, SignalHandler, ConnectionThread, ReceiveThreadSends,
         ReceiveThreadStep, Outside, Ended, vars

\* In every step the connection's specification allows.
LEMMA JoinedStep == ThreadJoined /\ [Kai!Next]_(Kai!vars) => ThreadJoined'
<1> SUFFICES ASSUME ThreadJoined, Kai!Next \/ UNCHANGED Kai!vars
             PROVE  ThreadJoined'
  OBVIOUS
<1> USE DEF ThreadJoined
<1>1. CASE Kai!Finished \/ UNCHANGED Kai!vars
  BY <1>1 DEF Kai!Finished, Kai!vars, Kai!threads, Kai!io
<1>2. CASE Kai!ReceiverStep
  <2>1. receiver # "none"
    BY <1>2
       DEF Kai!ReceiverStep, Kai!Restart, Kai!ThreadEnds, Kai!CloseSocket,
           Kai!Reopen, Kai!Connect, Kai!Timeout, Kai!Choose, Kai!SendSettings,
           Kai!PollAborted, Kai!PollDatagram, Kai!PollNothing
  <2>2. QED
    BY <1>2, <2>1, OthersLeaveAlone
<1>3. CASE Kai!UsbSends \/ Kai!UsbStep
  BY <1>3 DEF Kai!UsbSends, Kai!SendCheck, Kai!UsbStep, Kai!SendData,
              Kai!SendNotOpen, Kai!io
<1>4. CASE Kai!Open
  BY <1>4 DEF Kai!Open, Kai!threads
<1>5. CASE Kai!MainStarts
  BY <1>5 DEF Kai!MainStarts, Kai!StartReceiverThread
<1>6. CASE Kai!MainCloses
  BY <1>6 DEF Kai!MainCloses, Kai!Close, Kai!KillThread, Kai!io
<1>7. CASE Kai!Closing
  BY <1>7 DEF Kai!Closing, Kai!ClearFlags, Kai!KillThread, Kai!Stop, Kai!Join,
              Kai!CloseAfterJoin, Kai!io
<1>8. CASE Kai!Outside
  BY <1>8
     DEF Kai!Outside, Kai!ConnectionTimerExpires, Kai!KeepAliveTimerExpires,
         Kai!KaiReceives, Kai!KaiKeepsAlive, Kai!KaiPassesOn, Kai!KaiKicks,
         Kai!KaiCrashes, Kai!KaiStarts, Kai!LoseDatagram, Kai!threads, Kai!io
<1>9. QED
  BY <1>1, <1>2, <1>3, <1>4, <1>5, <1>6, <1>7, <1>8 DEF Kai!Next

\* IInv holds in every reachable state of the program.
THEOREM Invariance == Spec => []IInv
<1>1. IInv /\ [Next]_vars => IInv'
  BY MainStepIInv, ThreadsIInv, DeviceIInv, ConnectionStep, JoinedStep DEF IInv
<1>2. QED
  BY InitIInv, <1>1, PTL DEF Spec

\* ConnectionUsedAsAssumed: in main.cpp's order of starting and closing the
\* two components the connection is used as XLinkKaiConnection specifies, so
\* what is proved of that specification holds in the program.
THEOREM ProgramImplementsConnection == Spec => ConnectionUsedAsAssumed
<1>1. Init => Kai!Init
  BY DEF Init
<1>2. QED
  BY <1>1, Invariance, ConnectionStep, PTL
     DEF Spec, ConnectionUsedAsAssumed, Kai!SafetySpec

\* Both instances of the connection are the same specification.
LEMMA SameConnection ==
    /\ Kai!Init => KaiProofs!Init
    /\ [Kai!Next]_(Kai!vars) => [KaiProofs!Next]_(KaiProofs!vars)
<1> USE DEF Kai!flags, KaiProofs!flags, Kai!timers, KaiProofs!timers,
           Kai!threads, KaiProofs!threads, Kai!io, KaiProofs!io, Kai!network,
           KaiProofs!network, Kai!vars, KaiProofs!vars
<1>1. Kai!Init => KaiProofs!Init
  BY DEF Kai!Init, KaiProofs!Init
<1>2. Kai!ReceiverStep => KaiProofs!ReceiverStep
  BY DEF
     Kai!ReceiverStep, KaiProofs!ReceiverStep, Kai!Restart, KaiProofs!Restart,
     Kai!ThreadEnds, KaiProofs!ThreadEnds, Kai!CloseSocket,
     KaiProofs!CloseSocket, Kai!Reopen, KaiProofs!Reopen, Kai!Connect,
     KaiProofs!Connect, Kai!Timeout, KaiProofs!Timeout, Kai!Choose,
     KaiProofs!Choose, Kai!SendSettings, KaiProofs!SendSettings,
     Kai!PollAborted, KaiProofs!PollAborted, Kai!PollDatagram,
     KaiProofs!PollDatagram, Kai!PollNothing, KaiProofs!PollNothing,
     Kai!Disconnected, KaiProofs!Disconnected, Kai!ConnectTimedOut,
     KaiProofs!ConnectTimedOut, Kai!KeepAliveTimedOut,
     KaiProofs!KeepAliveTimedOut, Kai!SettingsDue, KaiProofs!SettingsDue,
     Kai!Transmit, KaiProofs!Transmit, Kai!SendFails, KaiProofs!SendFails,
     Kai!Fault, KaiProofs!Fault, Kai!Rearm,
     KaiProofs!Rearm, Kai!PollGoesOn, KaiProofs!PollGoesOn, Kai!ReceiveCallback,
     KaiProofs!ReceiveCallback
<1>3. Kai!UsbSends \/ Kai!UsbStep => KaiProofs!UsbSends \/ KaiProofs!UsbStep
  BY DEF
     Kai!UsbSends, KaiProofs!UsbSends, Kai!SendCheck, KaiProofs!SendCheck,
     Kai!UsbStep, KaiProofs!UsbStep, Kai!SendData, KaiProofs!SendData,
     Kai!SendNotOpen, KaiProofs!SendNotOpen, Kai!Transmit, KaiProofs!Transmit,
     Kai!SendFails, KaiProofs!SendFails, Kai!Fault, KaiProofs!Fault
<1>4. \/ Kai!Open \/ Kai!MainStarts \/ Kai!MainCloses \/ Kai!Closing \/ Kai!Finished
      => \/ KaiProofs!Open \/ KaiProofs!MainStarts \/ KaiProofs!MainCloses
         \/ KaiProofs!Closing \/ KaiProofs!Finished
  BY DEF
     Kai!Open, KaiProofs!Open, Kai!MainStarts, KaiProofs!MainStarts,
     Kai!StartReceiverThread, KaiProofs!StartReceiverThread, Kai!MainCloses,
     KaiProofs!MainCloses, Kai!Close, KaiProofs!Close, Kai!Closing,
     KaiProofs!Closing, Kai!ClearFlags, KaiProofs!ClearFlags, Kai!Stop,
     KaiProofs!Stop, Kai!Join, KaiProofs!Join, Kai!CloseAfterJoin,
     KaiProofs!CloseAfterJoin, Kai!KillThread, KaiProofs!KillThread,
     Kai!Transmit, KaiProofs!Transmit, Kai!SendFails, KaiProofs!SendFails,
     Kai!Fault, KaiProofs!Fault, Kai!Finished,
     KaiProofs!Finished
<1>5. Kai!Outside => KaiProofs!Outside
  BY DEF
     Kai!Outside, KaiProofs!Outside, Kai!ConnectionTimerExpires,
     KaiProofs!ConnectionTimerExpires, Kai!KeepAliveTimerExpires,
     KaiProofs!KeepAliveTimerExpires, Kai!KaiReceives, KaiProofs!KaiReceives,
     Kai!KaiKeepsAlive, KaiProofs!KaiKeepsAlive, Kai!KaiPassesOn,
     KaiProofs!KaiPassesOn, Kai!KaiKicks, KaiProofs!KaiKicks, Kai!KaiCrashes,
     KaiProofs!KaiCrashes, Kai!KaiStarts, KaiProofs!KaiStarts, Kai!LoseDatagram,
     KaiProofs!LoseDatagram, Kai!Reply, KaiProofs!Reply, Kai!Fault,
     KaiProofs!Fault, Kai!Contains, KaiProofs!Contains
<1> QED
  BY <1>1, <1>2, <1>3, <1>4, <1>5 DEF Kai!Next, KaiProofs!Next

\* So the invariants of the connection hold in the program: it is watched by one
\* timeout or the other, its chain of receives does not break, and its thread
\* does not end before main ends it.
THEOREM ConnectionSound ==
    Spec => [](Kai!ConnectingExclusive /\ Kai!NeverDeaf /\ Kai!ThreadLives)
<1>1. Kai!SafetySpec => KaiProofs!SafetySpec
  BY SameConnection, PTL DEF Kai!SafetySpec, KaiProofs!SafetySpec
<1>2. KaiProofs!SafetySpec => []KaiProofs!Inv
  BY KaiProofs!Invariance, CwusbAssumption DEF KaiProofs!Invariance
<1>3. KaiProofs!Inv => Kai!ConnectingExclusive /\ Kai!NeverDeaf /\ Kai!ThreadLives
  BY DEF KaiProofs!Inv, KaiProofs!ConnectingExclusive, KaiProofs!NeverDeaf,
     KaiProofs!ThreadLives, Kai!ConnectingExclusive, Kai!NeverDeaf, Kai!ThreadLives
<1> QED
  BY <1>1, <1>2, <1>3, ProgramImplementsConnection, PTL DEF ConnectionUsedAsAssumed

\* NothingLeft: when main returns from both closes, no thread, device or
\* socket of the two components is left.
THEOREM EndsClean == Spec => []NothingLeft
<1>1. IInv => NothingLeft
  BY DEF IInv, NothingLeft, MainInStep, OnlyReceiveThreadSends, DeviceLetGo,
         ThreadJoined, Reader!ReceiverLives, Reader!SenderLives
<1>2. QED
  BY <1>1, Invariance, PTL
=============================================================================
