# CWUSB in TLA+

CWUSB bridges a PSP, attached by USB, to the XLink Kai engine, reached by UDP.
802.11 frames travel through it in both directions; a frame is longer than a USB
packet, so the bridge cuts frames up towards the PSP and puts them together
again towards XLink Kai. The code is small, but six threads share its state, some
of it under a mutex and much of it without, and both ends come and go while the
program runs. That is what these specifications are about.

All paths are relative to the repository (`src/`).

## The system

| Component | State | Operations | Works with |
|---|---|---|---|
| `USBReader` (Sources/USBReader.cpp) | device handle, stop request, error flag, result of the hello, two stitch flags, two lengths, two retry counters | `Open`, `StartReceiverThread`, the USB thread's loop (`HandleError`, bail-out, read, `HandleAsynchronousSend`), `Send`, `Close` | owns the two queue threads; reads and writes the PSP |
| `USBSendThread` (Sources/USBSendThead.cpp) | a bounded queue of frames, an outgoing queue of packets, a stop request | `AddToQueue`, the fragmenting thread, `PopFromOutgoingQueue`, `ClearQueues`, `StopThread` | fed by XLink Kai's receiver thread, emptied by the USB thread |
| `USBReceiveThread` (Sources/USBReceiveThread.cpp) | a bounded queue of pieces, the frame being put together, a stop request | `AddToQueue`, the stitching thread, `ClearQueues`, `StopThread` | fed by the USB thread, calls `XLinkKaiConnection::Send` |
| `XLinkKaiConnection` (Sources/XLinkKaiConnection.cpp) | `mConnected`, `mConnectInitiated`, `mSettingsSent`, two timers, socket, io_service | `Open`, `Connect`, `Send`, `StartReceiverThread` and its loop, `ReceiveCallback`, `Close` | calls `USBReader::Send` for received data |
| `main` (main.cpp) | `gRunning` | opens both ends, starts both, waits for a signal, closes both | all of the above |
| `SettingsModel` (Sources/SettingsModel.cpp) | the eight settings | `LoadFromFile`, `SaveToFile` | read once by main; its values are the constants of the other models |
| `Logger`, `Timer`, network headers | a log file | written to, unused, formatting | left out, but for the names of the log levels |

The threads: main; the USB thread; the send thread; the receive thread; the
connection's receiver thread; the signal handler's thread. Frames from XLink Kai
go connection thread -> send thread's queue -> outgoing queue -> USB thread ->
PSP. Frames from the PSP go USB thread -> receive thread's queue -> receive
thread -> UDP socket.

What is hard here:

* **Half duplex by two flags.** The USB thread does not read while it has sent
  only a part of a frame (`mSendStitching`) and does not write while it has read
  only a part of one (`mReceiveStitching`). Each flag is only reset by the kind
  of transfer it still allows.
* **Resets.** `HandleError` closes and reopens the device and empties all queues
  while the two queue threads are in the middle of a frame.
* **Stop requests.** `Close` sets a flag and joins, and other code resets that flag.
* **Reconnecting.** The connection's thread makes, watches and remakes the
  connection while the receive thread sends through it and main closes it.
* **The program's own beginning and end.** Each component is started and closed
  by main while the other one's threads call it, and a signal may come at any
  point of the start.
* **Packet boundaries.** The first packet of a frame has 24 bytes of headers, the
  others 8; the reader decides from lengths whether more of a frame follows.

What makes each component correct:

* send thread: the USB thread takes whole frames, in order, and what an emptied
  queue cost is known exactly; a frame once begun is finished; a stop request ends
  the thread.
* receive thread: what goes to XLink Kai is exactly one whole frame; nothing is
  written outside the buffer.
* reader: the stitch flags exclude each other; each direction delivers frames
  whole, once and in order; losses happen only where the code means them to;
  `Close` returns; a dead device ends the thread.
* connection: both timeouts watch every state they should; a receive is always
  outstanding; the bridge reconnects; `Close` returns.
* the program: a signal ends it from every state; no thread, device or socket is
  left; neither component is used before it is started or after it is closed.
* discovery: no handle is lost whatever fails; the device list is not used once it
  is freed; a PSP on the bus is found.
* settings: they are what the file says; what is saved is read again.

## The modules

| Module | Models | Lines of code |
|---|---|---|
| `UsbFraming` | the packet sizes and how a frame is cut up, as pure operators; `Follows` and `WellFramed` say which packets may come behind one another | USBConstants.h, USBSendThead.cpp:29-80 |
| `USBSendThread` | the class, with a specification of its own | USBSendThead.cpp |
| `USBReceiveThread` | the class; it has no behaviour of its own apart from the reader | USBReceiveThread.cpp |
| `FrameChannel` | what the bridge promises in each direction: offered frames are taken or dropped at once, the taken ones come out once, in order. Once it is `disturbed`, taken frames may be lost as well. The channel is the set of their numbers, what was delivered a function from moments to numbers | abstract |
| `ReaderLifecycle` | what the rest of the program can tell of a reader: device held, stop requested, retrying, threads there or not | USBReader.cpp, abstracted |
| `USBReader` | the USB thread, the PSP, the cable and main's part, composed with INSTANCEs of the two queue threads | USBReader.cpp, main.cpp |
| `XLinkKaiConnection` | the connection, its thread, the sending thread, main's part, the network and the engine | XLinkKaiConnection.cpp |
| `Cwusb` | the program: main and the signal, composed with `XLinkKaiConnection` in full and with `ReaderLifecycle` | main.cpp:55-124 |
| `SettingsModel` | what a line of config.txt does to the settings and what is written back, as pure operators; `Startup` reads the lines one by one | SettingsModel.cpp, Logger.cpp:36-57 |
| `DeviceDiscovery` | the walk of `USBReader::Open` over the device list | USBReader.cpp:236-302 |
| `Startup` | main from reading the settings to both ends being open, with `DeviceDiscovery` and `SettingsModel` | main.cpp:60-102 |
| `MC...` | the instances TLC checks | |
| `...Proofs` | theorems about the module they are named after; those about `USBReader` are in three, each extending the one before: `USBReaderProofs`, `USBReaderDuplexProofs`, `USBReaderChannelProofs` | |

How they fit together:

    USBSendThread   USBReceiveThread
           \          /
          USBReader  ==>  FrameChannel   (in each direction)
              ||
              vv
       ReaderLifecycle      XLinkKaiConnection
                 \          /   ^^
                   Cwusb ======||

Double lines are refinements: `USBReader` implements `ReaderLifecycle`
(`RefinesLifecycle`) and the `FrameChannel`s; `Cwusb` implements the specification
of the connection, `XLinkKaiConnection!SafetySpec`, that is, main and the USB
receive thread do to it what that specification lets its surroundings do
(`ConnectionUsedAsAssumed`). So what is shown of the connection alone, with any
caller that keeps to its `Next`, holds in the program.

### UsbFraming and USBSendThread

A frame is an identity and a length; a packet is the range of a frame's bytes it
carries with the `stitch` flag ("more follows"). Bytes themselves are not
modelled. The mutex makes a pop, an `AddToQueue` and a `ClearQueues` one step
each. The fragment loop takes no mutex, so each packet it pushes is a step
(`PushFragment`), and a `ClearQueues` or a stop request can fall between two of
them. `mDone` is left out: `StartThread` sets it right away
(USBSendThead.cpp:88), so `StopThread` never waits for it.

The queue alone does not tell what the PSP gets, since the packets before it are
gone. Two history variables, which no guard reads, keep that: `popped`, the
packets the USB thread has taken since the queues were last emptied, and
`emptiedAt`, where the thread was in its frame at that moment. `Stream` is
what was taken followed by what is queued. `OutgoingFramed` says of the stream that
it is whole frames in order without a missing packet, and that it begins with a
frame's first packet or at exactly the place `emptiedAt`. What was taken before
an emptying can end in the middle of a frame, and the rest of that frame
comes after it with a gap between them: the code does that (USBSendThead.cpp:79),
and the property says that it happens there only. What the PSP makes of it is
`ToPspRefinesChannel` of `USBReader`.

### USBReceiveThread

The thread holds the mutex only to pop. Copying the bytes, setting length and
stitch, and sending or dropping are steps of their own (`Copy`, `Account`,
`Dispatch`). The message's data is the set of pieces copied in, each with the
offset it was copied to, so a piece that lands in the wrong place, or one of
another frame, can be told. Length and stitch are two statements
(USBReceiveThread.cpp:35-36, 41-42) and one step, `Account`; a `ClearQueues` that
falls between them, and leaves the length 0 with the stitch of the piece, is a case
of `ClearQueues`.

### USBReader

One turn of the USB thread's loop is five steps, at the points where another
thread's step can matter:

| Step | Code (USBReader.cpp) | Actions |
|---|---|---|
| loop | 430 | `LoopCondition` |
| body | 431-436 | `StopBranch`, `CheckDevice` |
| errors | 438-444 | `HandleError`, `BailOut`, `NoError` |
| read | 446-465 | `ReadPacket`, `ReadTimeout`, `ReadFault`, `ReadNull` |
| write | 467-469, 188-202 | `WritePacket`, `WriteDone` |

`mDeviceHandle` is "null", "open", or "stale" when the PSP behind it has gone.
The PSP (external) sends frames packet by packet, cut up the way the bridge does
it, and between frames packets of other kinds: a hello, another HostFS command
("rude"), a debug print, something unknown. A failing transfer may or may not have
reached the other end. The reset in `HandleClose` may make the PSP forget the rest
of the frame it was sending. The retry counters have no bound, as in the code: each
is a plain `++` and `mRetryCounter` passes its limit where line 438 does not test
it. In the runs the bound on the faults keeps them finite.

### XLinkKaiConnection

The receiver thread's loop is one step per branch, with the close, open and
connect of a reconnect as separate steps, since another thread can send or close
in between. `Send` of the USB receive thread is two steps, the test and the
transmission, and so is `Close`: disconnect, clearing the flags, stopping, joining.

The io_service is part of the model because the thread runs until it is
"stopped": by `Close`, or by `poll()` finding no work when no asynchronous
receive is outstanding. A closed socket leaves an "aborted" receive whose handler
is still to run and starts the next one. Timers are "running" or "expired".
A timeout can only come true once no answer is under way any more, or
as a fault that stands for an answer that is too slow.

The engine (external) confirms a connect, may send keepalives and frames, may end
a connection, crash and start again. `kai = "attached"` means: with the current
socket. A new socket has another port, so closing it clears what is under way.
Received data only tickles the timer, like a keepalive; `HandsOver` tells when
the handler calls `USBReader::Send`, which `Cwusb` joins with the reader.

main's part is what the connection relies on: it closes only when nobody is in
`Send` any more (`MainCloses`), and `Send` is only called between
`StartReceiverThread` and `Close` (`UsbSends`). `MayOvertake` lets `Close` come
before the receiver thread has begun.

### ReaderLifecycle and Cwusb

`ReaderLifecycle` keeps five facts about a reader: `held` (a device handle),
`stop`, `retrying` (`mRetryCounter > 0`), the USB thread, and how far main is with
it. Its steps are the steps of `USBReader` that change one of these. `SenderLives`
and `ReceiverLives` say when `mUSBSendThread` and `mUSBReceiveThread` point to
something: `Close` sets the first to null, then the second.

In `Cwusb` each turn of main's opening loop is two steps, one per component
(main.cpp:80-87 and 90-96), so the signal falls between them. From there main
goes "startConnection", "startReader", "running", "closeReader",
"closeConnection" and "ended", skipping what the code skips when the signal came
early. `HandsOver` in a moment without a send thread is the null pointer of
USBReader.cpp:482: the program is "crashed", which is a state of its own, in which
nothing happens any more. The USB receive thread may call the connection's `Send`
whenever it lives, and main joins it only between two calls.

`CloseReader` takes no account of what the USB thread is doing, as
`USBReader::Close` does not (lines 87-96). The stop request can then be taken back
by a restart (213), or by the stop branch (432) while the device has not been read
from since a restart, and the loop goes on (430) until a packet is read, the device
is given up, or for ever. `StopForgotten` is the predicate for that state: main
joins, the thread runs, the request is gone. `SignalEnds` names it as its exception;
`close_after_fault` shows the reader being in it for good. A `Close` of the connection
before its receiver thread has begun (XLinkKaiConnection.cpp:214) is separated by
the constant `MayOvertake`.

### SettingsModel, DeviceDiscovery and Startup

A line of config.txt is an option and the text that is left of its value without
the first and the last character, which the code drops unseen. What `std::stoi`
and `std::string::find` do with a text is a constant function, so that numbers with
letters behind them, and texts that are found in several level names, are cases
of the instance. Each turn of `LoadFromFile`'s loop is a step (`LoadLine`), and so
is its end (`LoadEnds`). `Configured` is the definition it is checked against,
option by option: the last line that can be read counts.

`DeviceDiscovery` has one action per outcome of the calls to libusb. The list is
"freed" inside the loop, as the code frees it (lines 255 and 292); a
loop that goes on then does what the freed memory makes of it: it crashes
(`UseFreedList`), sees the device right, or takes it for another one
(`NotMatching`). `opened` keeps the handles that were opened and not closed.

`Startup` runs them: load, then turns of connection and device until both are
open. An address or a port that cannot be converted is an exception nobody
catches (main.cpp:81, XLinkKaiConnection.cpp:44), "crashed" here.

## What is checked

Sizes are the real ones in every run: packets of 512 bytes, headers of 8, 16 and
12, a frame of at most 2304. Frame lengths are taken from the boundaries: 488 just
fits a first packet, 489 needs a second one, 992 fills two packets.

| Run | What it asks | Bounds |
|---|---|---|
| `send_thread` | does the USB thread get whole frames in order between two emptyings, but for the rest of the frame an emptying cut through (`OutgoingFramed`), is an unfinished frame always being finished (`NothingCutOff`), does a stop request end the thread (`StopEnds`) | 3 frames of 6 lengths, queue of 2: the queue overflows, and one frame is cut up while two wait |
| `duplex` | without faults: do frames arrive whole, once, in order in each direction (`ToPspRefinesChannel`, `ToKaiRefinesChannel`) and do all under way arrive (`ToPspDrains`, `ToKaiDrains`), is the end of each frame seen (`FrameEndSeen`), does the copy stay in the buffer (`CopyFits`), are the two ends never both in the middle of a frame (`HalfDuplex`), does `Close` return | 2 frames of exactly two packets to the PSP, 2 frames of 1 to 5 packets from it with hellos and debug prints in between, at once; the queues (10) have room for all pieces; a close at any moment |
| `faults` | what holds through failures and resets: `StitchExclusive`, `NothingRepeated`, `NothingSentTwice`, `ToPspRefinesChannel`, `RefinesLifecycle`; does the thread end when the PSP stays away (`DeadDeviceEndsThread`), is a begun frame ended or given up (`SendStitchEnds`) | 1 fault of any kind at any point (an unplugged device then fails every transfer), no retry of a transfer and 2 restarts, 1 frame to and 2 from the PSP, each of two packets, queues of 1, so that pieces are dropped by a full queue too; a close at any moment |
| `xlink_connection` | are the flags always watched by a timeout (`ConnectingExclusive`), is a receive always outstanding (`NeverDeaf`), does the thread end only on `Close` (`ThreadLives`), does `Close` return, is a dead engine noticed (`DeadKaiNoticed`), does the bridge reconnect (`Reconnects`) | 2 datagrams under way each way, 2 faults, closes, kicks and frames |
| `cwusb` | does a signal end the program unless the reader's stop request is forgotten (`SignalEnds`), is nothing left when it has ended (`NothingLeft`), is the connection used as it expects (`ConnectionUsedAsAssumed`) | 1 datagram each way, 1 fault, 1 restart of the device, a signal at any moment, restarts included, `MayOvertake = FALSE` |
| `startup` | are the settings what the file says (`SettingsAsConfigured`, `RoundTrip`), is no handle lost (`HandlesAccounted`), is the freed list left alone as long as nothing has failed or was replugged (`FreedListUnused`), does the loop end with both ends open when a PSP is on the bus, and crash for no reason but the settings and the freed list (`Starts`) | all files of up to 2 of 17 lines, with and without a last newline, and one that `SaveToFile` wrote; up to 3 devices that come and go, 2 failing calls |

`FrameChannel` has no notion of packets, threads or queues, so the refinements
say what a user of the bridge sees. In them the frames "in the channel" are
those whose end is queued, the one being cut up and those waiting, and the moment
of a delivery is the place of the frame's last packet among those written (or of
its message among those sent); only the order of the moments counts. A frame of no
bytes never becomes a packet and counts as dropped. Frames are dropped
silently by a full queue only at the offer. From the first fault on, and once
main closes, the channel is `disturbed` and may lose frames, as a reset empties
the queues; even then what comes out is a frame that went in, once and in order.

Towards XLink Kai `duplex` claims this with room in the receive queue. When it is
full, `AddToQueue` drops one piece of a frame, `HandleAsynchronous` goes on with
the next one (USBReader.cpp:183), and the frame is sent on without it;
`faults` has this behaviour and claims only what does not depend on it: that even
then nothing goes out twice or out of order (`NothingSentTwice`). Its two frames
from the PSP are enough for one to lose a piece, or to be cut by a reset, and for
the other to be mixed with it: `SentUnmixed` of `reset_race` fails in this
instance too. To keep the run small only one frame goes to the PSP. Several of
them are in `send_thread`, with a full queue, and in `duplex`; the theorems have
several together with faults.

Two frames in one direction are enough for what the properties tell apart,
which is whether two neighbouring packets belong together; the third in
`send_thread` lets a frame be dropped between two that are kept. One restart and
one fault in `cwusb` are enough to have the device gone, come back or stay away,
and the engine, a datagram or a socket fail, while main is at any of its steps.
The theorems below hold for every bound.

### Fairness

Every thread of the program keeps running (weak fairness of each thread's
steps); they poll, so nothing else is needed for them to go on. main goes on in
`Close` once it has called it. The user, XLink Kai's frames, the cable and the
PSP's next frame need not happen. A PSP in the middle of a frame goes on with it
(strong fairness of `PspContinues`, because the read can time out any number of
times in between). For the connection: timers expire, an engine that is up takes
the datagrams it is sent, and `poll()` returns, which assumes that datagrams do
not arrive faster than they are handled.

In `Cwusb` main and the other threads keep running; that a device which was
reopened answers, or is given up, is not assumed, since one that takes the hello
and then only times out is neither (USBReader.cpp:438-462). `CloseReader` is
strongly fair: main joins the USB receive thread, which looks at its stop request between two calls of the
connection's `Send` and is not in one for ever. The signal, the engine and the
user need do nothing. In `Startup` main keeps running; `Starts` assumes that the
PSP stays on the bus.

## What disagrees with the code's own words

Each of these runs is expected to find its property violated.

| Run | Shown |
|---|---|
| `close_after_fault` | `HandleClose` resets `mStopRequest` (USBReader.cpp:213), also when it is called from `HandleError` (219): a `Close` at that moment waits for a thread that goes on |
| `short_tail` | a last packet with 1 to 3 bytes is "too short to be usable" (USBReader.cpp:373) though its header has 8 bytes, and the reader stays in the middle of the frame |
| `reset_race` | a piece popped before `ClearQueues` is put in after it, and the next frame is appended to it |
| `xlink_settings` | `disconnected` resets `mConnected` only, so the next connection never gets its ddsonly setting (XLinkKaiConnection.cpp:194) |
| `cwusb_signal` | a signal before the PSP is found: main starts the connection (main.cpp:107) and closes it at once, `restart()` in the new thread (XLinkKaiConnection.cpp:214) takes back `stop()`, and the join does not return |
| `cwusb_late_data` | after a signal main closes the reader before the connection (main.cpp:117-118), and a frame of XLink Kai in between is put into the send thread that is gone (USBReader.cpp:104, 482) |

The same null pointer is there for a moment at the start: the connection's thread
runs before the reader's threads do (main.cpp:107).

More was met that no comment or document contradicts, or that needs no run:

* A `ClearQueues` in the middle of a frame lets the rest of that frame out after the
  reset without its beginning (USBSendThead.cpp:79). The PSP gets it, but no
  complete frame comes of it (`ToPspRefinesChannel`).
* With the hello failing on a device that opens, `HandleError` runs whatever
  `mRetryCounter` is (USBReader.cpp:438), so the "MaxRetriesAfterFatalError" of
  the settings does not bound the restarts.
* The connection can end between the test in `Send` (XLinkKaiConnection.cpp:79)
  and the transmission (88), so data can leave without the confirmation that the
  comment at line 77 asks for; `SendCheck` and `SendData` show where.
* A `Send` that found the socket closed sets `mConnected` to false late (line 101).
  When the new connection was confirmed meanwhile, the thread makes another one, whose
  settings are not sent either (as in `xlink_settings`).
* Between the cleared flags in `Close` (268) and `stop()` (274) the receiver
  thread can see a lost connection and make a new one, which XLink Kai keeps when
  the program is gone. `Close` still returns.
* After a failing open, claim or query of a device, `Open` goes on in the list it
  has freed (USBReader.cpp:255, 292) unless that was the last device. A list
  without a PSP is never freed, one per turn of the loop whose message at
  main.cpp:93 says "retrying in 10 seconds".
* When the USB thread has given the PSP up, main does not notice (main.cpp:109).
* A second Ctrl-C is not handled, the signal set waits for one only (main.cpp:58).
* The two components hold a `shared_ptr` to each other (main.cpp:104-105), so
  their destructors never run.
* With "MaxRetriesAfterFatalError" set to 0 the test at USBReader.cpp:440 is true in
  the first turn of the loop, and the thread lets go of a healthy device. The
  proof that the bridge is a channel to the PSP needs at least one retry for this.
* The last line of config.txt is ignored when no newline ends it.

The passing runs that check the same properties leave out exactly the case in
which they fail: `duplex` has no frame with a last packet of 1 to 3 bytes
(`FrameEndSeen`) and no fault (`CloseReturns`), and `xlink_connection` and `cwusb`
close the connection only after its thread has begun (`MayOvertake = FALSE`). The
reader's forgotten stop request is not left out of `cwusb`; `SignalEnds` claims the
end of the program for every other case.

## What is proved

The theorems hold for every packet size larger than its headers (where the two
headers of a first packet are at least as long as a HostFS header, and that of the
others is not empty, as in the code), every queue size, every set of frame lengths
and any number of frames (`FramingAssumption`, `SendAssumption`,
`ReaderAssumption`), for any number of datagrams, faults and restarts
(`ConnectionAssumption`, `CwusbAssumption`), and for any settings, files and devices
(`TextAssumption`, `StartupAssumption`). The forgotten stop requests are part of
them (`MayOvertake` may have either value), and so are the
frames that come too late: what is proved is safety, and the program may hang or
crash without breaking it.

`USBSendThreadProofs`, about `USBSendThread!SafetySpec`:

* `TypeCorrect`: `TypeOK` is invariant, the bound of the frame queue included.
* `OutgoingAlwaysFramed`: `OutgoingFramed` is invariant.
* `NothingEverCutOff`: `NothingCutOff` is invariant.

`OutgoingFramed` alone is not inductive: that the next packet fits behind the
last one of the stream depends on how far the thread has come in its frame. The
inductive invariant `Inv` adds three facts. `TailFits`: the last packet of the
stream is of the frame the thread is in, and ends where the thread will go on, or
is the last of an earlier frame. `HeadFits`: while there is no packet since the
last emptying, a thread in the middle of a frame is still where it was then.
`InOrder`: identities grow along the queue of frames, and the thread's own frame is
older than all of them. Each action has a lemma; `FragmentProgress` shows that a
fragment carries at least one byte and ends within the frame, `AppendFramed` what
appending a packet does to a well framed sequence, and `StreamSteps` that taking a
packet leaves the stream as it is.

`UsbFramingProofs` has the lemmas on the operators that cut up frames and join
packets; every other proof about packets rests on them.

`USBReaderProofs`, about `USBReader!Spec`, with faults, resets and closes:

* `NeverBothStitching`: `StitchExclusive` is invariant. The strengthening says at
  which steps of the loop each flag can be set: in "read" `mSendStitching` is
  down, in "write" `mReceiveStitching` is.
* `ReaderImplementsSendThread`: every step of the composition is a step of the
  send thread's specification, or leaves its variables alone. With it the send
  thread's invariant, and `OutgoingAlwaysFramed`, carry over to the composition.
* `ReaderImplementsLifecycle`: every step of the composition is a step of
  `ReaderLifecycle` or leaves its view alone. All it needs to know of the state
  is that the retry counter is a natural number (`RetriesCounted`).
* `NothingEverRepeated`: `NothingRepeated` is invariant. It compares neighbours
  only, which is not inductive: when a packet between two others is lost they
  become neighbours, and what is cut next is appended behind packets of any age.
  `OrderInv` therefore says that all packets, written or queued, are in order, and
  all before the place where the next one will be cut; the send thread's `InOrder`
  carries that over to the next frame.
* `TypeCorrect`: `TypeOK` is invariant; of the retry counters it says no more than that
  they are natural numbers. The parts of `TypeInv` are proved one by
  one (the PSP, the flags, the numbers, the receive thread); the queues' and the
  written packets' types come from the send thread's invariant and `OrderInv`.
* `ReaderImplementsToPsp`: `ToPspRefinesChannel`, by a refinement mapping, step by
  step. Two inductive facts carry it. Until the channel is disturbed the device works
  and the thread has no reason to give it up (`SteadyInv`), so no queue is emptied,
  and the written and the queued packets together have no gap (`Intact`), so a
  taken frame is complete when its last packet is written. After
  that packets may be missing, and `OrderInv` with the send thread's framing is
  what keeps the PSP from completing a frame from parts of two, or one twice.

`USBReaderDuplexProofs`, when nothing fails (`FaultFree`):

* `AlwaysHalfDuplex` and `FrameEndAlwaysSeen`: `HalfDuplex` and `FrameEndSeen` are
  invariant. Neither is inductive, as they compare what the two ends know.
  `DuplexInv` ties `mReceiveStitching` to the PSP's place in its frame (`InStep`:
  a frame in the middle is at the end of a full packet) and `mSendStitching` to the
  last packet written (`LastWritten`), as long as the device is held.

`USBReaderChannelProofs`, when nothing fails and the receive queue has room
whenever the PSP sends a piece (`NoneDropped`):

* `CopyAlwaysFits`: `CopyFits` is invariant. `PipeInv` says that from the PSP's
  place in its frame back over the queue and the piece in hand to
  `mLastReceivedMessage` there is one unbroken run of pieces, each beginning where
  the one before ends, and relates the receive thread's place in its three steps
  to how much of the message is there.
* `FramesArriveWhole`, `FramesNeverMixed`: by the same invariant every message sent
  is all pieces of one frame, each where it belongs, and the messages are in order.
* `ReaderImplementsToKai`: `ToKaiRefinesChannel`, from `PipeInv`.

And, in the same module, with no hypotheses at all:

* `NothingEverSentTwice`: `NothingSentTwice` is invariant. After a fault, a reset or
  a dropped piece a message may lack pieces or be made of two frames, but its bytes
  are in the order in which the PSP sent them, no byte goes out twice, and
  no later message has an earlier byte. The property looks at what was sent only;
  `TakenInv` follows a byte from the PSP's place in its frame (`PspInside`) back over
  the queue (`WaitingInOrder`), the piece in hand and the message being put together
  to the messages sent (`MessagesInOrder`), and says that each of these is behind
  the next. It needs `Places` as well: a piece is copied behind all that is in
  the message, so the order by place is the order by arrival. `ClearQueues` at any
  point of the receive thread's steps only takes things away.

The hypotheses of the others are what the code needs, and the run `duplex` satisfies
them all:

| Hypothesis | Says | Without it |
|---|---|---|
| `OnlyFaultsRestart` | the PSP sends no unknown HostFS command, and `mMaxFatalRetries` is not 0 | the USB thread resets the device, or lets go of it, though nothing failed, and frames taken are lost in an undisturbed channel: TLC finds both in a few steps with `duplex` changed in the one constant |
| `FaultFree` | no fault, no unknown HostFS command, and no frame whose last packet is too short to be looked at (`NoShortTail`) | `short_tail` for the lengths; after a fault the PSP and the reader can each be in the middle of a frame, and `reset_race` shows two frames in one message |
| `NoneDropped` | a piece is never dropped by a full receive queue | the frame is sent on without its piece; when it was the last one, the next frame is appended behind it, past the end of the buffer if both are long |

`XLinkKaiConnectionProofs`, about `XLinkKaiConnection!SafetySpec`, for any number
of datagrams and faults and a close at any moment:

* `TypeCorrect`: `TypeOK` is invariant, the bound of the datagrams under way
  included.
* `AlwaysWatched`: `ConnectingExclusive` is invariant. It is inductive together
  with `NotConnectedWhileReopening`: a connect request is only sent while neither
  flag is up, and no other thread puts one up.
* `AlwaysReceiving`: `NeverDeaf` is invariant. It needs to know that a handler
  never runs on a closed socket (`ClosedOnlyToReopen`), which in turn needs main
  to open the socket before there is a thread and to close it only after the join
  (`JoinedBeforeClose`).
* `AlwaysAlive`: `ThreadLives` is invariant. The io_service is only ever stopped by
  main (`StoppedByMain`), since a handler that runs always finds an open socket.

`CwusbProofs`, about `Cwusb!Spec`:

* `ProgramImplementsConnection`: the property `ConnectionUsedAsAssumed`. The
  inductive invariant relates main's place in the program to its place in each
  component; what carries the proof is that nobody is in the connection's `Send`
  once the reader is closed.
* `ConnectionSound`: with it `ConnectingExclusive`, `NeverDeaf` and `ThreadLives` of
  the connection are invariants of the program.
* `EndsClean`: `NothingLeft` is invariant. It follows from the same invariant: the
  reader has no device once its thread is gone (`DeviceLetGo`), and main touches the
  socket only while the connection has no thread (`ThreadJoined`).

`StartupProofs`, about `Startup!Spec`:

* `NoHandleLost` (`HandlesAccounted`) and `FreedOnlyAfterFailure`
  (`FreedListUnused`), from an invariant that adds that positions in the list are
  never 0 (the mark for "no device"), and that a walk that goes on in a freed list has
  seen a call fail (`FreedByFailure`).
* `LoadedAsConfigured`: `SettingsAsConfigured`, for files of any length. `LoadInv` says
  that in the middle of the file the settings are what the lines read so far
  configure; one more line moves the last readable one of its own option only.
* `SavedAsTheyAre`: `RoundTrip` is invariant. That `LoadFromFile` reads back what
  `SaveToFile` wrote rests on `TextAssumption`: `std::stoi` takes back what
  `std::to_string` wrote, and a level's name is found in no other one.
* `SavedSettingsComeBack`: both together, a program that starts with a saved file
  has the saved settings once it has read it.

Only model-checked is liveness, as it depends on fairness: `StopEnds`, `ToPspDrains`,
`ToKaiDrains`, `CloseReturns`, `DeadDeviceEndsThread`, `SendStitchEnds`,
`DeadKaiNoticed`, `Reconnects`, `SignalEnds`, `Starts`. Every other property of a
passing run is a theorem.

## What is not modelled

* Bytes, and with them the checksums and headers inside a frame.
* `Logger` apart from the names of its levels: output only. Its stream is shared by
  all threads without a lock. `Timer`, which nothing uses, and the network headers
  and conversions, which only format log output.
* The path of the executable (main.cpp:39-53) and the end of the signal's thread.
* Torn reads and writes of a `std::queue`, a `bool` or a `shared_ptr` that two threads use
  without the mutex (USBSendThead.cpp:79, 130, 136; USBReader.cpp:104): pushes, pops
  and assignments are taken as atomic.
* Frames longer than 2304 bytes from XLink Kai: `AddToQueue` copies them into a
  shorter array (USBSendThead.cpp:112), with no defined outcome.
* `XLinkKaiConnection::ReadNextData` and the setters, which nothing calls.
* Packets of another async channel, which `HandleAsynchronous` ignores.
* How many device lists are leaked, and that nothing bounds the outgoing queue:
  neither has a limit in the code to check against.

## Plan

Done in this order: framing and the send thread with its proofs, the receive
thread, the reader composed of both, the connection; then the reader's lifecycle,
the program composed of it and the connection, the settings, the walk over the
devices, and the proofs about them.

Then the proofs about the reader: its types, the order of the packets, the two
flags, the receive thread's way with the pieces, and the `FrameChannel` in each
direction; and the connection's types. Then what still holds towards XLink Kai
when pieces are dropped or the device is reset, the settings for files of any
length, and the connection's invariants in the whole program.

Next, the most important first:

1. The frames themselves in `Cwusb`, with `FrameChannel` from one end of the
   bridge to the other, if a smaller abstraction of the reader is found: the
   product of `USBReader` and `XLinkKaiConnection` is out of TLC's reach.
2. An abstract framed pipe that the send thread implements, proved for every bound.
