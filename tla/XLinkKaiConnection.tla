------------------------- MODULE XLinkKaiConnection -------------------------
(***************************************************************************)
(* The class XLinkKaiConnection: a UDP connection to the XLink Kai engine  *)
(* that is made, watched and remade by a receiver thread, used by the USB  *)
(* receive thread, and closed by the main thread.  The three of them share *)
(* mConnected, mConnectInitiated and the socket without a lock.            *)
(* What the other two threads may do and when is up to the program around  *)
(* the connection: Next says what the connection relies on, and Cwusb      *)
(* shows that the program keeps to it.                                     *)
(*                                                                         *)
(* The io_service is part of the state because the receiver thread runs    *)
(* until it is stopped: by Close, or by running out of work when no        *)
(* asynchronous receive is outstanding.                                    *)
(***************************************************************************)
EXTENDS Naturals, Sequences, SequencesExt

CONSTANTS InFlight,         \* bound: datagrams under way in one direction
          MaxFaults,        \* bound: lost datagrams, crashes, failing opens
                            \* and sends
          MayClose,         \* whether the user ends the program
          MayOvertake,      \* whether main's stop() may come before the
                            \* receiver thread, just started, has begun
          MayKick,          \* whether Kai ends a connection by itself
          KaiSends          \* whether Kai passes on frames

ASSUME ConnectionAssumption ==
    /\ InFlight \in Nat
    /\ MaxFaults \in Nat
    /\ {MayClose, MayOvertake, MayKick, KaiSends} \subseteq BOOLEAN

VARIABLES mConnected,
          mConnectInitiated,
          mSettingsSent,
          connectionTimer,   \* "running" or "expired"
          keepAliveTimer,
          socket,            \* "closed" or "open"
          receive,           \* the asynchronous receive, see ReceiveStates
          stopped,           \* mIoService.stopped()
          receiver,          \* where the receiver thread is
          usb,               \* where the USB receive thread is in Send
          main,              \* where the main thread is
          toKai, toBridge,   \* the datagrams under way
          kai,               \* the engine: "down", "idle" or "attached"
          ddsOnly,           \* history: the setting went out since "connect"
          faults

flags   == <<mConnected, mConnectInitiated, mSettingsSent>>
timers  == <<connectionTimer, keepAliveTimer>>
threads == <<receiver, usb, main>>
io      == <<socket, receive, stopped>>
network == <<toKai, toBridge>>
vars    == <<flags, timers, threads, io, network, kai, ddsOnly, faults>>

\* "aborted" is a receive whose socket was closed: its handler has yet to run.
ReceiveStates  == {"none", "armed", "aborted"}
ReceiverStates == {"none", "start", "loop", "reopen", "connect", "settings",
                   "poll", "exited"}
MainStates     == {"opening", "running", "failed", "clear", "stop", "join",
                   "close", "closed"}
ToKai    == {"connect", "disconnect", "settings", "keepalive", "data"}
ToBridge == {"connected", "disconnected", "keepalive", "data"}

Init ==
    /\ mConnected = FALSE
    /\ mConnectInitiated = FALSE
    /\ mSettingsSent = FALSE
    /\ connectionTimer = "expired"
    /\ keepAliveTimer = "expired"
    /\ socket = "closed"
    /\ receive = "none"
    /\ stopped = FALSE
    /\ receiver = "none"
    /\ usb = "idle"
    /\ main = "opening"
    /\ toKai = <<>>
    /\ toBridge = <<>>
    /\ kai \in {"down", "idle"}
    /\ ddsOnly = FALSE
    /\ faults = MaxFaults

Fault == faults > 0 /\ faults' = faults - 1

\* A datagram leaves on an open socket; one too many is lost on the way.
Transmit(message) ==
    /\ toKai' = IF Len(toKai) < InFlight THEN Append(toKai, message) ELSE toKai
    /\ UNCHANGED faults

\* send_to throws; Send catches it, and says that it has failed.
SendFails == Fault /\ UNCHANGED toKai

-----------------------------------------------------------------------------
(* The receiver thread.                                                    *)

\* restart() takes back a stop that came first.
Restart ==
    /\ receiver = "start"
    /\ stopped' = FALSE
    /\ receiver' = "loop"
    /\ UNCHANGED <<flags, timers, usb, main, socket, receive, network, kai,
                   ddsOnly, faults>>

ThreadEnds ==
    /\ receiver = "loop"
    /\ stopped
    /\ receiver' = "exited"
    /\ UNCHANGED <<flags, timers, usb, main, io, network, kai, ddsOnly, faults>>

Disconnected == ~mConnected /\ ~mConnectInitiated

ConnectTimedOut ==
    ~mConnected /\ mConnectInitiated /\ connectionTimer = "expired"

KeepAliveTimedOut ==
    mConnected /\ ~mConnectInitiated /\ keepAliveTimer = "expired"

SettingsDue == mConnected /\ ~mConnectInitiated /\ ~mSettingsSent

\* Close(false): the flags are both down, so nothing is sent; the outstanding
\* receive is aborted.  The next socket has another port, so what is under way
\* to or from this one, and a connection Kai keeps with it, are of no more use.
CloseSocket ==
    /\ receiver = "loop"
    /\ ~stopped
    /\ Disconnected
    /\ socket' = "closed"
    /\ receive' = IF socket = "open" /\ receive = "armed" THEN "aborted" ELSE receive
    /\ toKai' = <<>>
    /\ toBridge' = <<>>
    /\ kai' = IF kai = "attached" THEN "idle" ELSE kai
    /\ receiver' = "reopen"
    /\ UNCHANGED <<flags, timers, usb, main, stopped, ddsOnly, faults>>

Reopen ==
    /\ receiver = "reopen"
    /\ \/ socket' = "open" /\ UNCHANGED faults
       \/ Fault /\ UNCHANGED socket
    /\ receiver' = "connect"
    /\ UNCHANGED <<flags, timers, usb, main, receive, stopped, network, kai,
                   ddsOnly>>

\* Only a "connect" that was sent counts as an attempt.
Connect ==
    /\ receiver = "connect"
    /\ \/ /\ socket = "open"
          /\ Transmit("connect")
          /\ mConnectInitiated' = TRUE
          /\ connectionTimer' = "running"
          /\ ddsOnly' = FALSE
          /\ UNCHANGED mConnected
       \/ /\ socket = "open"
          /\ SendFails
          /\ UNCHANGED <<mConnected, mConnectInitiated, connectionTimer, ddsOnly>>
       \/ /\ socket = "closed"
          /\ mConnected' = FALSE
          /\ UNCHANGED <<toKai, mConnectInitiated, connectionTimer, ddsOnly, faults>>
    /\ receiver' = "loop"
    /\ UNCHANGED <<mSettingsSent, keepAliveTimer, usb, main, io, toBridge, kai>>

\* Mutant: only the attempt to connect is watched.
Timeout_ConnectOnly ==
    /\ receiver = "loop"
    /\ ~stopped
    /\ ConnectTimedOut
    /\ mConnected' = FALSE
    /\ mConnectInitiated' = FALSE
    /\ mSettingsSent' = FALSE
    /\ UNCHANGED <<timers, threads, io, network, kai, ddsOnly, faults>>

\* Mutant: the attempt that timed out is still taken to be under way.
Timeout_StaysInitiated ==
    /\ receiver = "loop"
    /\ ~stopped
    /\ ConnectTimedOut \/ KeepAliveTimedOut
    /\ mConnected' = FALSE
    /\ mSettingsSent' = FALSE
    /\ UNCHANGED <<mConnectInitiated, timers, threads, io, network, kai, ddsOnly,
                   faults>>

\* Both timeouts take the connection for lost and start over.
Timeout ==
    /\ receiver = "loop"
    /\ ~stopped
    /\ ConnectTimedOut \/ KeepAliveTimedOut
    /\ mConnected' = FALSE
    /\ mConnectInitiated' = FALSE
    /\ mSettingsSent' = FALSE
    /\ UNCHANGED <<timers, threads, io, network, kai, ddsOnly, faults>>

Choose ==
    /\ receiver = "loop"
    /\ ~stopped
    /\ ~(Disconnected \/ ConnectTimedOut \/ KeepAliveTimedOut)
    /\ receiver' = IF SettingsDue THEN "settings" ELSE "poll"
    /\ UNCHANGED <<flags, timers, usb, main, io, network, kai, ddsOnly, faults>>

\* Send checks the connection again; its answer is ignored.
SendSettings ==
    /\ receiver = "settings"
    /\ IF socket = "open" /\ mConnected
       THEN \/ Transmit("settings") /\ ddsOnly' = TRUE
            \/ SendFails /\ UNCHANGED ddsOnly
       ELSE UNCHANGED <<toKai, ddsOnly, faults>>
    /\ mConnected' = (mConnected /\ socket = "open")
    /\ mSettingsSent' = TRUE
    /\ receiver' = "loop"
    /\ UNCHANGED <<mConnectInitiated, timers, usb, main, io, toBridge, kai>>

\* Mutant: no further receive is started.
Rearm_Never == receive' = "none" /\ stopped' = TRUE

\* The end of ReceiveCallback: the next receive is started on an open socket.
\* Without one the io_service has run out of work and stops.
Rearm ==
    /\ receive' = IF socket = "open" THEN "armed" ELSE "none"
    /\ stopped' = (socket # "open")

\* poll() goes on with the handlers that are ready by then.
PollGoesOn == receiver' \in {"poll", "loop"}

\* Mutant: the handler looks at the error and starts no receive.
PollAborted_GivesUp ==
    /\ receiver = "poll"
    /\ ~stopped
    /\ receive = "aborted"
    /\ receive' = "none"
    /\ stopped' = TRUE
    /\ PollGoesOn
    /\ UNCHANGED <<flags, timers, usb, main, socket, network, kai, ddsOnly,
                   faults>>

\* The handler of an aborted receive gets no bytes and only starts the next.
PollAborted ==
    /\ receiver = "poll"
    /\ ~stopped
    /\ receive = "aborted"
    /\ Rearm
    /\ PollGoesOn
    /\ UNCHANGED <<flags, timers, usb, main, socket, network, kai, ddsOnly,
                   faults>>

\* Mutant: every message is sent back, not the keepalive alone.
ReceiveCallback_Echoes(message) ==
    /\ keepAliveTimer' = "running"
    /\ mConnected' = (message # "disconnected" /\ (mConnected \/ message = "connected"))
    /\ mConnectInitiated' =
           (mConnectInitiated /\ (mConnected \/ message # "connected"))
    /\ toBridge' = Tail(toBridge)
    /\ IF mConnected THEN Transmit(message) ELSE UNCHANGED <<toKai, faults>>

\* Mutant: mConnectInitiated stays up when the connection is confirmed.
ReceiveCallback_StaysInitiated(message) ==
    /\ keepAliveTimer' = "running"
    /\ mConnected' = (message # "disconnected" /\ (mConnected \/ message = "connected"))
    /\ toBridge' = Tail(toBridge)
    /\ UNCHANGED <<toKai, mConnectInitiated, faults>>

\* Any datagram tickles the keepalive timer.  "connected" counts only while
\* not connected, everything else only while connected.
ReceiveCallback(message) ==
    /\ keepAliveTimer' = "running"
    /\ mConnected' =
           CASE message = "connected"    -> TRUE
             [] message = "disconnected" -> FALSE
             [] OTHER                    -> mConnected
    /\ mConnectInitiated' =
           (mConnectInitiated /\ (mConnected \/ message # "connected"))
    /\ toBridge' = Tail(toBridge)
    /\ IF mConnected /\ message = "keepalive"
       THEN Transmit("keepalive") \/ SendFails
       ELSE UNCHANGED <<toKai, faults>>

PollDatagram ==
    /\ receiver = "poll"
    /\ ~stopped
    /\ receive = "armed"
    /\ toBridge # <<>>
    /\ ReceiveCallback(Head(toBridge))
    /\ Rearm
    /\ PollGoesOn
    /\ UNCHANGED <<mSettingsSent, connectionTimer, usb, main, socket, kai,
                   ddsOnly>>

\* The datagram is a frame that goes to mIncomingConnection, which main set
\* before it started the receiver thread.  The call leaves the connection as
\* it is.
HandsOver ==
    /\ receiver = "poll" /\ ~stopped /\ receive = "armed"
    /\ mConnected
    /\ toBridge # <<>> /\ Head(toBridge) = "data"

\* Nothing is ready, or somebody stopped the io_service.
PollNothing ==
    /\ receiver = "poll"
    /\ stopped \/ (receive = "armed" /\ toBridge = <<>>)
    /\ receiver' = "loop"
    /\ UNCHANGED <<flags, timers, usb, main, io, network, kai, ddsOnly, faults>>

ReceiverStep ==
    \/ Restart \/ ThreadEnds \/ CloseSocket \/ Reopen \/ Connect
    \/ Timeout \/ Choose \/ SendSettings
    \/ PollAborted \/ PollDatagram \/ PollNothing

-----------------------------------------------------------------------------
(* The USB receive thread in Send(aData).                                  *)

SendCheck ==
    /\ usb = "idle"
    /\ usb' = IF socket = "closed" THEN "notOpen"
              ELSE IF mConnected THEN "checked" ELSE "idle"
    /\ UNCHANGED <<flags, timers, receiver, main, io, network, kai, ddsOnly,
                   faults>>

SendData ==
    /\ usb = "checked"
    /\ IF socket = "open" THEN Transmit("data") \/ SendFails
                          ELSE UNCHANGED <<toKai, faults>>
    /\ usb' = "idle"
    /\ UNCHANGED <<flags, timers, receiver, main, io, toBridge, kai, ddsOnly>>

SendNotOpen ==
    /\ usb = "notOpen"
    /\ mConnected' = FALSE
    /\ usb' = "idle"
    /\ UNCHANGED <<mConnectInitiated, mSettingsSent, timers, receiver, main, io,
                   network, kai, ddsOnly, faults>>

UsbStep == SendData \/ SendNotOpen

-----------------------------------------------------------------------------
(* The main thread: StartReceiverThread and Close(true).                   *)

Open ==
    /\ main = "opening"
    /\ socket = "closed"
    /\ \/ socket' = "open" /\ UNCHANGED faults
       \/ Fault /\ UNCHANGED socket
    /\ UNCHANGED <<flags, timers, threads, receive, stopped, network, kai, ddsOnly>>

\* Without a socket there is nothing to receive and no thread.
StartReceiverThread ==
    /\ main = "opening"
    /\ IF socket = "open"
       THEN receive' = "armed" /\ receiver' = "start" /\ main' = "running"
       ELSE main' = "failed" /\ UNCHANGED <<receive, receiver>>
    /\ UNCHANGED <<flags, timers, usb, socket, stopped, network, kai, ddsOnly,
                   faults>>

\* Close stops and joins the receiver thread if there is one.
KillThread == main' = IF receiver = "none" THEN "close" ELSE "stop"

Close ==
    /\ main \in {"running", "failed"}
    /\ IF mConnected \/ mConnectInitiated
       THEN /\ IF socket = "open" THEN Transmit("disconnect") \/ SendFails
                                  ELSE UNCHANGED <<toKai, faults>>
            /\ main' = "clear"
       ELSE /\ KillThread
            /\ UNCHANGED <<toKai, faults>>
    /\ UNCHANGED <<flags, timers, receiver, usb, io, toBridge, kai, ddsOnly>>

ClearFlags ==
    /\ main = "clear"
    /\ mConnected' = FALSE
    /\ mConnectInitiated' = FALSE
    /\ KillThread
    /\ UNCHANGED <<mSettingsSent, timers, receiver, usb, io, network, kai,
                   ddsOnly, faults>>

\* Mutant: the receiver thread is joined without being told to stop.
Stop_Never ==
    /\ main = "stop"
    /\ main' = "join"
    /\ UNCHANGED <<flags, timers, receiver, usb, io, network, kai, ddsOnly,
                   faults>>

Stop ==
    /\ main = "stop"
    /\ MayOvertake \/ receiver # "start"
    /\ stopped' = TRUE
    /\ main' = "join"
    /\ UNCHANGED <<flags, timers, receiver, usb, socket, receive, network, kai,
                   ddsOnly, faults>>

Join ==
    /\ main = "join"
    /\ receiver = "exited"
    /\ receiver' = "none"
    /\ main' = "close"
    /\ UNCHANGED <<flags, timers, usb, io, network, kai, ddsOnly, faults>>

CloseAfterJoin ==
    /\ main = "close"
    /\ socket' = "closed"
    /\ receive' = IF receive = "armed" THEN "aborted" ELSE receive
    /\ main' = "closed"
    /\ UNCHANGED <<flags, timers, receiver, usb, stopped, network, kai, ddsOnly,
                   faults>>

Closing == ClearFlags \/ Stop \/ Join \/ CloseAfterJoin

\* main gives up opening the socket only when the user ends the program.
MainStarts == (socket = "open" \/ MayClose) /\ StartReceiverThread

\* The USB side has been closed before: nobody is in Send any more.
MainCloses == MayClose /\ usb = "idle" /\ Close

\* The USB receive thread lives while main leaves the connection alone.
UsbSends == main = "running" /\ SendCheck

\* The program has ended.
Finished == main = "closed" /\ UNCHANGED vars

-----------------------------------------------------------------------------
(* The clock, the network and the XLink Kai engine.                        *)

\* The timeouts are longer than an answer takes and than the engine's
\* keepalive interval; that one is over too early counts as a fault.
ConnectionTimerExpires ==
    /\ connectionTimer = "running"
    /\ mConnectInitiated
    /\ \/ /\ ~Contains(toKai, "connect")
          /\ ~Contains(toBridge, "connected")
          /\ UNCHANGED faults
       \/ Fault
    /\ connectionTimer' = "expired"
    /\ UNCHANGED <<flags, keepAliveTimer, threads, io, network, kai, ddsOnly>>

KeepAliveTimerExpires ==
    /\ keepAliveTimer = "running"
    /\ mConnected
    /\ \/ kai # "attached" /\ toBridge = <<>> /\ UNCHANGED faults
       \/ Fault
    /\ keepAliveTimer' = "expired"
    /\ UNCHANGED <<flags, connectionTimer, threads, io, network, kai, ddsOnly>>

Reply(message) ==
    toBridge' = IF Len(toBridge) < InFlight THEN Append(toBridge, message)
                                            ELSE toBridge

KaiReceives ==
    /\ toKai # <<>>
    /\ toKai' = Tail(toKai)
    /\ kai' = CASE kai # "down" /\ Head(toKai) = "connect"    -> "attached"
                [] kai # "down" /\ Head(toKai) = "disconnect" -> "idle"
                [] OTHER                                      -> kai
    /\ IF kai # "down" /\ Head(toKai) = "connect" THEN Reply("connected")
                                                  ELSE UNCHANGED toBridge
    /\ UNCHANGED <<flags, timers, threads, io, ddsOnly, faults>>

KaiKeepsAlive ==
    /\ kai = "attached"
    /\ toBridge = <<>>
    /\ Reply("keepalive")
    /\ UNCHANGED <<flags, timers, threads, io, toKai, kai, ddsOnly, faults>>

KaiPassesOn ==
    /\ KaiSends
    /\ kai = "attached"
    /\ toBridge = <<>>
    /\ Reply("data")
    /\ UNCHANGED <<flags, timers, threads, io, toKai, kai, ddsOnly, faults>>

KaiKicks ==
    /\ MayKick
    /\ kai = "attached"
    /\ kai' = "idle"
    /\ Reply("disconnected")
    /\ UNCHANGED <<flags, timers, threads, io, toKai, ddsOnly, faults>>

KaiCrashes ==
    /\ kai # "down"
    /\ Fault
    /\ kai' = "down"
    /\ UNCHANGED <<flags, timers, threads, io, network, ddsOnly>>

KaiStarts ==
    /\ kai = "down"
    /\ kai' = "idle"
    /\ UNCHANGED <<flags, timers, threads, io, network, ddsOnly, faults>>

LoseDatagram ==
    /\ Fault
    /\ \/ toKai # <<>> /\ toKai' = Tail(toKai) /\ UNCHANGED toBridge
       \/ toBridge # <<>> /\ toBridge' = Tail(toBridge) /\ UNCHANGED toKai
    /\ UNCHANGED <<flags, timers, threads, io, kai, ddsOnly>>

\* What happens without the program.
Outside ==
    \/ ConnectionTimerExpires \/ KeepAliveTimerExpires
    \/ KaiReceives \/ KaiKeepsAlive \/ KaiPassesOn
    \/ KaiKicks \/ KaiCrashes \/ KaiStarts
    \/ LoseDatagram

Next ==
    \/ ReceiverStep \/ UsbSends \/ UsbStep
    \/ Open \/ MainStarts \/ MainCloses \/ Closing \/ Finished
    \/ Outside

\* poll() returns: datagrams do not arrive faster than they are handled.
PollReturns == receiver = "poll" /\ ReceiverStep /\ receiver' = "loop"

\* The threads run, timers run out, and the engine, while it is there, answers.
Fairness ==
    /\ WF_vars(ReceiverStep)
    /\ WF_vars(PollReturns)
    /\ WF_vars(UsbStep)
    /\ WF_vars(MainStarts)
    /\ WF_vars(Closing)
    /\ WF_vars(main = "failed" /\ Close)
    /\ WF_vars(ConnectionTimerExpires)
    /\ WF_vars(KeepAliveTimerExpires)
    /\ WF_vars(KaiReceives)

SafetySpec == Init /\ [][Next]_vars

Spec == SafetySpec /\ Fairness

-----------------------------------------------------------------------------

TypeOK ==
    /\ flags \in BOOLEAN \X BOOLEAN \X BOOLEAN
    /\ timers \in {"running", "expired"} \X {"running", "expired"}
    /\ socket \in {"closed", "open"}
    /\ receive \in ReceiveStates
    /\ stopped \in BOOLEAN
    /\ receiver \in ReceiverStates
    /\ usb \in {"idle", "checked", "notOpen"}
    /\ main \in MainStates
    /\ toKai \in Seq(ToKai) /\ Len(toKai) <= InFlight
    /\ toBridge \in Seq(ToBridge) /\ Len(toBridge) <= InFlight
    /\ kai \in {"down", "idle", "attached"}
    /\ ddsOnly \in BOOLEAN
    /\ faults \in 0..MaxFaults

\* The connection is never both made and still being made: each of the two
\* timeouts watches one of these states only, so with both flags up neither
\* would ever be noticed.
ConnectingExclusive == ~(mConnected /\ mConnectInitiated)

\* Through every reconnect exactly one asynchronous receive is outstanding
\* or about to be started again, so the bridge never goes deaf.
NeverDeaf == receiver # "none" => receive # "none"

\* The receiver thread only ends because Close asked it to; in particular the
\* io_service does not run out of work under it.
ThreadLives == receiver = "exited" => main = "join"

\* While Kai has this connection and its settings are said to be sent, they
\* were sent in this connection.
SettingsSentInConnection == mConnected /\ mSettingsSent => ddsOnly

\* Close returns: the receiver thread ends and is joined.
CloseReturns ==
    main \in {"failed", "clear", "stop", "join", "close"} ~> main = "closed"

\* An engine that died without a word is noticed, as long as the bridge runs.
DeadKaiNoticed == <>[](kai = "down") => <>[](~mConnected \/ main # "running")

\* While the engine is there the bridge gets connected, again and again, as
\* long as it runs.
Reconnects == <>[](kai # "down") => []<>(mConnected \/ main # "running")
=============================================================================
