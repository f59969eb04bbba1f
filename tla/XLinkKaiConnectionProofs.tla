---------------------- MODULE XLinkKaiConnectionProofs ----------------------
(***************************************************************************)
(* Both timeouts of the connection keep watching it, and its chain of      *)
(* receives never breaks, whatever is lost, crashes or is closed, for any  *)
(* number of datagrams under way and any number of faults.                 *)
(***************************************************************************)
EXTENDS XLinkKaiConnection, TLAPS

\* The receiver thread reopens the socket only while it is not connected, and
\* nobody else makes the connection.
NotConnectedWhileReopening ==
    receiver \in {"reopen", "connect"} => Disconnected

\* The socket is closed only while the receiver thread is about to open it
\* again, or is not there any more.
ClosedOnlyToReopen ==
    socket # "open" =>
        \/ receiver \in {"none", "exited", "reopen", "connect"}
        \/ receiver = "loop" /\ Disconnected

\* main opens the socket before there is a thread, and closes it for good only
\* after it has joined it.
JoinedBeforeClose ==
    main \in {"opening", "failed", "close", "closed"} => receiver = "none"

\* The io_service is stopped by main only: it never runs out of work.
StoppedByMain == stopped => main \in {"join", "close", "closed"}

Inv ==
    /\ ConnectingExclusive
    /\ ThreadLives
    /\ StoppedByMain
    /\ NeverDeaf
    /\ NotConnectedWhileReopening
    /\ ClosedOnlyToReopen
    /\ JoinedBeforeClose

-----------------------------------------------------------------------------

\* The first receive is started before the receiver thread is.
LEMMA InitInv == Init => Inv
BY DEF Init, Inv, ConnectingExclusive, NeverDeaf, NotConnectedWhileReopening,
       ClosedOnlyToReopen, JoinedBeforeClose, ThreadLives, StoppedByMain

\* Closing, reopening and connecting, one after the other.
LEMMA ReconnectInv == Inv /\ (CloseSocket \/ Reopen \/ Connect) => Inv'
<1> SUFFICES ASSUME Inv, CloseSocket \/ Reopen \/ Connect PROVE Inv'
  OBVIOUS
<1> USE DEF Inv, ConnectingExclusive, NeverDeaf, NotConnectedWhileReopening,
            ClosedOnlyToReopen, JoinedBeforeClose, ThreadLives, StoppedByMain,
            Disconnected
<1>1. CASE CloseSocket
  BY <1>1 DEF CloseSocket, flags, timers
<1>2. CASE Reopen
  BY <1>2 DEF Reopen, flags, timers
<1>3. CASE Connect
  BY <1>3 DEF Connect, io
<1>4. QED
  BY <1>1, <1>2, <1>3

\* The other branches of the loop, and its end.
LEMMA LoopInv ==
    Inv /\ (Restart \/ ThreadEnds \/ Timeout \/ Choose \/ SendSettings) => Inv'
<1> SUFFICES ASSUME Inv,
                    Restart \/ ThreadEnds \/ Timeout \/ Choose \/ SendSettings
             PROVE  Inv'
  OBVIOUS
<1> USE DEF Inv, ConnectingExclusive, NeverDeaf, NotConnectedWhileReopening,
            ClosedOnlyToReopen, JoinedBeforeClose, ThreadLives, StoppedByMain,
            Disconnected
<1>1. CASE Restart
  BY <1>1 DEF Restart, flags, timers
<1>2. CASE ThreadEnds
  BY <1>2 DEF ThreadEnds, flags, timers, io
<1>3. CASE Timeout
  BY <1>3 DEF Timeout, timers, threads, io
<1>4. CASE Choose
  BY <1>4 DEF Choose, flags, timers, io
<1>5. CASE SendSettings
  BY <1>5 DEF SendSettings, timers, io
<1>6. QED
  BY <1>1, <1>2, <1>3, <1>4, <1>5

\* Every handler poll() runs starts the next receive, since the socket is
\* open by then, and a confirmation ends the attempt to connect.
LEMMA PollInv == Inv /\ (PollAborted \/ PollDatagram \/ PollNothing) => Inv'
<1> SUFFICES ASSUME Inv, PollAborted \/ PollDatagram \/ PollNothing PROVE Inv'
  OBVIOUS
<1> USE DEF Inv, ConnectingExclusive, NeverDeaf, NotConnectedWhileReopening,
            ClosedOnlyToReopen, JoinedBeforeClose, ThreadLives, StoppedByMain,
            Disconnected
<1>1. CASE PollAborted
  BY <1>1 DEF PollAborted, Rearm, PollGoesOn, flags, timers
<1>2. CASE PollDatagram
  <2>1. socket = "open"
    BY <1>2 DEF PollDatagram
  <2>2. /\ receive' = "armed"
        /\ receiver' \in {"poll", "loop"}
        /\ stopped' = FALSE
        /\ UNCHANGED <<socket, main>>
    BY <1>2, <2>1 DEF PollDatagram, Rearm, PollGoesOn
  <2>3. ConnectingExclusive'
    BY <1>2 DEF PollDatagram, ReceiveCallback
  <2>4. main \notin {"opening", "failed", "close", "closed"}
    BY <1>2 DEF PollDatagram
  <2>5. QED
    BY <2>1, <2>2, <2>3, <2>4
<1>3. CASE PollNothing
  BY <1>3 DEF PollNothing, flags, timers, io
<1>4. QED
  BY <1>1, <1>2, <1>3

\* Neither a Send of the USB receive thread nor Close makes a connection, and
\* the socket is not closed under the receiver thread.
LEMMA OtherThreadsInv ==
    Inv /\ (SendCheck \/ UsbStep \/ Open \/ StartReceiverThread \/ Close \/ Closing) => Inv'
<1> SUFFICES ASSUME Inv,
                    SendCheck \/ UsbStep \/ Open \/ StartReceiverThread \/ Close \/ Closing
             PROVE  Inv'
  OBVIOUS
<1> USE DEF Inv, ConnectingExclusive, NeverDeaf, NotConnectedWhileReopening,
            ClosedOnlyToReopen, JoinedBeforeClose, ThreadLives, StoppedByMain,
            Disconnected
<1>1. CASE SendCheck
  BY <1>1 DEF SendCheck, flags, timers, io
<1>2. CASE SendData
  BY <1>2 DEF SendData, flags, timers, io
<1>3. CASE SendNotOpen
  BY <1>3 DEF SendNotOpen, timers, io
<1>4. CASE StartReceiverThread
  BY <1>4 DEF StartReceiverThread, flags, timers
<1>5. CASE Close
  BY <1>5 DEF Close, KillThread, flags, timers, io
<1>6. CASE ClearFlags
  BY <1>6 DEF ClearFlags, KillThread, timers, io
<1>7. CASE Stop
  BY <1>7 DEF Stop, flags, timers
<1>8. CASE Join
  BY <1>8 DEF Join, flags, timers, io
<1>9. CASE CloseAfterJoin
  BY <1>9 DEF CloseAfterJoin, flags, timers
<1>10. CASE Open
  BY <1>10 DEF Open, flags, timers, threads
<1>11. QED
  BY <1>1, <1>2, <1>3, <1>4, <1>5, <1>6, <1>7, <1>8, <1>9, <1>10
     DEF UsbStep, Closing

\* The clock, the network and the engine do not touch the bridge's state.
LEMMA OutsideInv == Inv /\ (Outside \/ Finished \/ UNCHANGED vars) => Inv'
<1> SUFFICES ASSUME Inv, Outside \/ Finished \/ UNCHANGED vars PROVE Inv'
  OBVIOUS
<1>1. UNCHANGED <<mConnected, mConnectInitiated, io, receiver, main>>
  BY DEF Outside, Finished, ConnectionTimerExpires, KeepAliveTimerExpires,
         KaiReceives, KaiKeepsAlive, KaiPassesOn, KaiKicks, KaiCrashes, KaiStarts,
         LoseDatagram, vars, flags, threads, io
<1>2. QED
  BY <1>1 DEF Inv, io, ConnectingExclusive, NeverDeaf, NotConnectedWhileReopening,
              ClosedOnlyToReopen, JoinedBeforeClose, ThreadLives, StoppedByMain, Disconnected

\* Inv holds in every reachable state of XLinkKaiConnection.
THEOREM Invariance == SafetySpec => []Inv
<1>1. Init => Inv
  BY InitInv
<1>2. Inv /\ [Next]_vars => Inv'
  <2> SUFFICES ASSUME Inv, [Next]_vars PROVE Inv'
    OBVIOUS
  <2>1. CASE ReceiverStep
    BY <2>1, ReconnectInv, LoopInv, PollInv DEF ReceiverStep
  <2>2. CASE UsbSends \/ UsbStep \/ Open \/ MainStarts \/ MainCloses \/ Closing
    BY <2>2, OtherThreadsInv DEF UsbSends, MainStarts, MainCloses
  <2>3. CASE Outside \/ Finished \/ UNCHANGED vars
    BY <2>3, OutsideInv
  <2>4. QED
    BY <2>1, <2>2, <2>3 DEF Next
<1>3. QED
  BY <1>1, <1>2, PTL DEF SafetySpec

\* ConnectingExclusive: one of the two timeouts in StartReceiverThread's loop
\* watches every connection that is being made or is made.
THEOREM AlwaysWatched == Spec => []ConnectingExclusive
<1>1. Inv => ConnectingExclusive
  BY DEF Inv
<1>2. QED
  BY <1>1, Invariance, PTL DEF Spec

\* NeverDeaf: ReceiveCallback's call of StartReceiverThread keeps a receive
\* outstanding through every close and reopen of the socket.
THEOREM AlwaysReceiving == Spec => []NeverDeaf
<1>1. Inv => NeverDeaf
  BY DEF Inv
<1>2. QED
  BY <1>1, Invariance, PTL DEF Spec

\* ThreadLives: StartReceiverThread's loop goes on until Close stops it.
THEOREM AlwaysAlive == Spec => []ThreadLives
<1>1. Inv => ThreadLives
  BY DEF Inv
<1>2. QED
  BY <1>1, Invariance, PTL DEF Spec

-----------------------------------------------------------------------------

\* Both directions hold datagrams of theirs, and no more than the bound.
NetworkOK ==
    /\ toKai \in Seq(ToKai) /\ Len(toKai) <= InFlight
    /\ toBridge \in Seq(ToBridge) /\ Len(toBridge) <= InFlight

\* What TypeOK says of everything else.
StateOK ==
    /\ mConnected \in BOOLEAN
    /\ mConnectInitiated \in BOOLEAN
    /\ mSettingsSent \in BOOLEAN
    /\ connectionTimer \in {"running", "expired"}
    /\ keepAliveTimer \in {"running", "expired"}
    /\ socket \in {"closed", "open"}
    /\ receive \in ReceiveStates
    /\ stopped \in BOOLEAN
    /\ receiver \in ReceiverStates
    /\ usb \in {"idle", "checked", "notOpen"}
    /\ main \in MainStates
    /\ kai \in {"down", "idle", "attached"}
    /\ ddsOnly \in BOOLEAN
    /\ faults \in 0..MaxFaults

\* A datagram is sent only while there is room for it under way.
LEMMA TransmitOK ==
    ASSUME NetworkOK, NEW message \in ToKai, Transmit(message),
           UNCHANGED toBridge
    PROVE  NetworkOK'
BY ConnectionAssumption DEF NetworkOK, Transmit

\* The same for the engine's answers.
LEMMA ReplyOK ==
    ASSUME NetworkOK, NEW message \in ToBridge, Reply(message),
           toKai' \in Seq(ToKai), Len(toKai') <= InFlight
    PROVE  NetworkOK'
BY ConnectionAssumption DEF NetworkOK, Reply

\* Datagrams leave one direction from its front.
LEMMA DeliverOK ==
    ASSUME NetworkOK
    PROVE  /\ toKai # <<>> => /\ Head(toKai) \in ToKai
                              /\ Tail(toKai) \in Seq(ToKai)
                              /\ Len(Tail(toKai)) <= InFlight
           /\ toBridge # <<>> => /\ Head(toBridge) \in ToBridge
                                 /\ Tail(toBridge) \in Seq(ToBridge)
                                 /\ Len(Tail(toBridge)) <= InFlight
<1>1. ASSUME toKai # <<>>
      PROVE  /\ Head(toKai) \in ToKai
             /\ Tail(toKai) \in Seq(ToKai)
             /\ Len(Tail(toKai)) <= InFlight
  BY <1>1, ConnectionAssumption DEF NetworkOK
<1>2. ASSUME toBridge # <<>>
      PROVE  /\ Head(toBridge) \in ToBridge
             /\ Tail(toBridge) \in Seq(ToBridge)
             /\ Len(Tail(toBridge)) <= InFlight
  BY <1>2, ConnectionAssumption DEF NetworkOK
<1> QED
  BY <1>1, <1>2

\* Every datagram the bridge or the engine sends is one of those it can send.
LEMMA NetworkStep == NetworkOK /\ [Next]_vars => NetworkOK'
<1> SUFFICES ASSUME NetworkOK, [Next]_vars PROVE NetworkOK'
  OBVIOUS
<1>1. CASE UNCHANGED network
  BY <1>1 DEF NetworkOK, network
<1>2. CASE UNCHANGED toBridge /\ \E message \in ToKai : Transmit(message)
  BY <1>2, TransmitOK
<1>3. CASE CloseSocket
  BY <1>3, ConnectionAssumption DEF CloseSocket, NetworkOK
<1>4. CASE PollDatagram
  <2>1. /\ toBridge # <<>> /\ toBridge' = Tail(toBridge)
        /\ \/ toKai' = toKai
           \/ Len(toKai) < InFlight /\ toKai' = Append(toKai, "keepalive")
    BY <1>4 DEF PollDatagram, ReceiveCallback, Transmit, SendFails
  <2>2. CASE toKai' = toKai
    BY <2>1, <2>2, DeliverOK DEF NetworkOK
  <2>3. CASE Len(toKai) < InFlight /\ toKai' = Append(toKai, "keepalive")
    <3>1. toKai' \in Seq(ToKai)
      BY <2>3 DEF NetworkOK, ToKai
    <3>2. Len(toKai') <= InFlight
      BY <2>3, ConnectionAssumption DEF NetworkOK
    <3>3. toBridge' \in Seq(ToBridge) /\ Len(toBridge') <= InFlight
      BY <2>1, DeliverOK
    <3> QED
      BY <3>1, <3>2, <3>3 DEF NetworkOK
  <2> QED
    BY <2>1, <2>2, <2>3
<1>5. CASE KaiReceives
  <2>1. /\ toKai # <<>> /\ toKai' = Tail(toKai)
        /\ Reply("connected") \/ UNCHANGED toBridge
    BY <1>5 DEF KaiReceives
  <2>2. toKai' \in Seq(ToKai) /\ Len(toKai') <= InFlight
    BY <2>1, DeliverOK
  <2>3. "connected" \in ToBridge
    BY DEF ToBridge
  <2> QED
    BY <2>1, <2>2, <2>3, ReplyOK DEF NetworkOK
<1>6. CASE KaiKeepsAlive \/ KaiPassesOn \/ KaiKicks
  <2>1. PICK message \in ToBridge : Reply(message)
    BY <1>6 DEF KaiKeepsAlive, KaiPassesOn, KaiKicks, ToBridge
  <2>2. UNCHANGED toKai
    BY <1>6 DEF KaiKeepsAlive, KaiPassesOn, KaiKicks
  <2> QED
    BY <2>1, <2>2, ReplyOK DEF NetworkOK
<1>7. CASE LoseDatagram
  BY <1>7, DeliverOK DEF LoseDatagram, NetworkOK
<1>8. CASE ~(CloseSocket \/ PollDatagram \/ KaiReceives \/ KaiKeepsAlive
             \/ KaiPassesOn \/ KaiKicks \/ LoseDatagram)
  <2>1. \/ UNCHANGED network
        \/ /\ UNCHANGED toBridge
           /\ \E message \in {"connect", "settings", "data", "disconnect"} :
                 Transmit(message)
    BY <1>8 DEF network, SendFails, Next, ReceiverStep, Restart, ThreadEnds, Reopen, Connect,
       Timeout, Choose, SendSettings, PollAborted, PollNothing, UsbSends,
       SendCheck, UsbStep, SendData, SendNotOpen, Open, MainStarts,
       StartReceiverThread, MainCloses, Close, Closing, ClearFlags, Stop, Join,
       CloseAfterJoin, Finished, Outside, ConnectionTimerExpires,
       KeepAliveTimerExpires, KaiCrashes, KaiStarts, vars
  <2> QED
    BY <1>1, <1>2, <2>1 DEF ToKai
<1> QED
  BY <1>3, <1>4, <1>5, <1>6, <1>7, <1>8

\* Flags stay flags and every thread stays at one of its places.
LEMMA StateStep == StateOK /\ [Next]_vars => StateOK'
<1> SUFFICES ASSUME StateOK, [Next]_vars PROVE StateOK'
  OBVIOUS
<1> USE ConnectionAssumption
    DEF StateOK, flags, timers, threads, io, ReceiveStates, ReceiverStates,
        MainStates, Fault
<1>1. CASE Restart \/ ThreadEnds \/ CloseSocket \/ Timeout \/ Choose
  BY <1>1 DEF Restart, ThreadEnds, CloseSocket, Timeout, Choose
<1>2. CASE Reopen
  BY <1>2 DEF Reopen
<1>3. CASE Connect
  <2>1. /\ mConnected' \in BOOLEAN
        /\ mConnectInitiated' \in BOOLEAN
        /\ connectionTimer' \in {"running", "expired"}
        /\ ddsOnly' \in BOOLEAN
    BY <1>3 DEF Connect
  <2>2. /\ receiver' = "loop"
        /\ UNCHANGED <<mSettingsSent, keepAliveTimer, usb, main, socket, receive,
                       stopped, kai>>
        /\ faults' \in 0..MaxFaults
    BY <1>3 DEF Connect, Transmit, SendFails
  <2> QED
    BY <2>1, <2>2
<1>4. CASE SendSettings
  <2>1. mConnected' \in BOOLEAN /\ ddsOnly' \in BOOLEAN
    BY <1>4 DEF SendSettings
  <2> QED
    BY <1>4, <2>1 DEF SendSettings, Transmit, SendFails
<1>5. CASE PollAborted \/ PollNothing
  BY <1>5 DEF PollAborted, PollNothing, Rearm, PollGoesOn
<1>6. CASE PollDatagram
  <2>1. mConnected' \in BOOLEAN
    BY <1>6, Zenon DEF PollDatagram, ReceiveCallback
  <2>2. /\ mConnectInitiated' \in BOOLEAN
        /\ keepAliveTimer' = "running"
        /\ receive' \in {"armed", "none"} /\ stopped' \in BOOLEAN
        /\ receiver' \in {"poll", "loop"}
        /\ UNCHANGED <<mSettingsSent, connectionTimer, usb, main, socket, kai,
                       ddsOnly>>
        /\ faults' \in 0..MaxFaults
    BY <1>6 DEF PollDatagram, ReceiveCallback, Rearm, PollGoesOn, Transmit,
       SendFails
  <2> QED
    BY <2>1, <2>2
<1>7. CASE UsbSends \/ UsbStep
  <2>1. CASE UsbSends \/ SendNotOpen
    BY <2>1 DEF UsbSends, SendCheck, SendNotOpen
  <2>2. CASE SendData
    BY <2>2 DEF SendData, Transmit, SendFails
  <2> QED
    BY <1>7, <2>1, <2>2 DEF UsbStep
<1>8. CASE Open \/ MainStarts
  BY <1>8 DEF Open, MainStarts, StartReceiverThread
<1>9. CASE MainCloses
  <2>1. faults' \in 0..MaxFaults
    BY <1>9 DEF MainCloses, Close, Transmit, SendFails
  <2>2. main' \in {"clear", "stop", "close"}
    BY <1>9 DEF MainCloses, Close, KillThread
  <2>3. UNCHANGED <<flags, timers, receiver, usb, io, kai, ddsOnly>>
    BY <1>9 DEF MainCloses, Close
  <2> QED
    BY <2>1, <2>2, <2>3
<1>10. CASE Closing
  BY <1>10 DEF Closing, ClearFlags, KillThread, Stop, Join, CloseAfterJoin
<1>11. CASE Outside
  <2>1. CASE KaiReceives
    <3>1. kai' \in {"down", "idle", "attached"}
      BY <2>1, Zenon DEF KaiReceives
    <3> QED
      BY <2>1, <3>1 DEF KaiReceives
  <2>2. CASE ~KaiReceives
    BY <1>11, <2>2 DEF Outside, ConnectionTimerExpires, KeepAliveTimerExpires,
       KaiKeepsAlive, KaiPassesOn, KaiKicks, KaiCrashes, KaiStarts, LoseDatagram
  <2> QED
    BY <2>1, <2>2
<1>12. CASE Finished \/ UNCHANGED vars
  BY <1>12 DEF Finished, vars
<1> QED
  BY <1>1, <1>2, <1>3, <1>4, <1>5, <1>6, <1>7, <1>8, <1>9, <1>10,
     <1>11, <1>12 DEF Next, ReceiverStep

\* TypeOK: in particular no more datagrams are ever under way than the bound
\* allows, so that the bound stands for a network and not for a queue.
THEOREM TypeCorrect == Spec => []TypeOK
<1>1. Init => NetworkOK /\ StateOK
  <2>1. Init => NetworkOK
    BY ConnectionAssumption DEF Init, NetworkOK
  <2>2. Init => faults \in 0..MaxFaults
    BY ConnectionAssumption DEF Init
  <2>3. Init => /\ mConnected \in BOOLEAN /\ mConnectInitiated \in BOOLEAN
                /\ mSettingsSent \in BOOLEAN /\ stopped \in BOOLEAN
                /\ ddsOnly \in BOOLEAN
    BY DEF Init
  <2>4. Init => StateOK
    BY <2>2, <2>3 DEF Init, StateOK, ReceiveStates, ReceiverStates, MainStates
  <2> QED
    BY <2>1, <2>4
<1>2. NetworkOK /\ StateOK => TypeOK
  BY DEF NetworkOK, StateOK, TypeOK, flags, timers
<1> QED
  BY <1>1, <1>2, NetworkStep, StateStep, PTL DEF Spec, SafetySpec
=============================================================================
