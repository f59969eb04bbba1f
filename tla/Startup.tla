------------------------------ MODULE Startup ------------------------------
(***************************************************************************)
(* The program up to its first frame: main reads config.txt and then tries *)
(* to open the connection to XLink Kai and the PSP until both are open.    *)
(* Signals are left to Cwusb, which knows this loop as OpenConnection and  *)
(* OpenReader.                                                             *)
(***************************************************************************)
EXTENDS SettingsModel

CONSTANTS Addresses,    \* the texts that are IP addresses
          Files,        \* the contents config.txt may have
          MaxDevices, MaxFailures   \* see DeviceDiscovery

ASSUME StartupAssumption ==
    /\ Defaults["XLinkIp"] \in Addresses /\ Addresses \subseteq Texts
    /\ Files \subseteq [lines : Seq([option : STRING, result : Texts \cup {"none"}]),
                       ended : BOOLEAN]
    /\ {MaxDevices, MaxFailures} \subseteq Nat

VARIABLES file,      \* config.txt; forgotten when it was read
          linesRead,
          settings,  \* mSettingsModel
          main,      \* "load", "connection", "device", "started", "crashed"
          socket,    \* "closed" or "open"
          bus, mDeviceHandle, opened, lDevices, lCount, open, failures

Device == INSTANCE DeviceDiscovery

deviceVars == <<bus, mDeviceHandle, opened, lDevices, lCount, open, failures>>
vars       == <<file, linesRead, settings, main, socket, deviceVars>>

\* A file that cannot be opened is like one without lines.
NoFile == [lines |-> <<>>, ended |-> TRUE]

Init ==
    /\ file \in Files \cup {NoFile}
    /\ linesRead = 0
    /\ settings = Defaults
    /\ main = "load"
    /\ socket = "closed"
    /\ Device!Init

LoadLine ==
    /\ main = "load"
    /\ linesRead < LineCount(file)
    /\ settings' = ReadLine(settings, file.lines[linesRead + 1])
    /\ linesRead' = linesRead + 1
    /\ UNCHANGED <<file, main, socket, deviceVars>>

LoadEnds ==
    /\ main = "load"
    /\ linesRead = LineCount(file)
    /\ file' = NoFile
    /\ linesRead' = 0
    /\ main' = "connection"
    /\ UNCHANGED <<settings, socket, deviceVars>>

LoadFromFile == LoadLine \/ LoadEnds

\* Neither the port nor the address is checked: what cannot be converted is an
\* exception that nobody catches.  An empty address is the default one.
Usable == /\ settings["XLinkPort"] \in DOMAIN stoi
          /\ settings["XLinkIp"] \in Addresses \cup {""}

OpenConnection ==
    /\ main = "connection"
    /\ \/ socket = "open" /\ main' = "device" /\ UNCHANGED <<socket, failures>>
       \/ socket = "closed" /\ ~Usable /\ main' = "crashed"
          /\ UNCHANGED <<socket, failures>>
       \/ socket = "closed" /\ Usable /\ main' = "device"
          /\ \/ socket' = "open" /\ UNCHANGED failures
             \/ Device!Failure /\ UNCHANGED socket
    /\ UNCHANGED <<file, linesRead, settings, bus, mDeviceHandle, opened, lDevices,
                   lCount, open>>

\* The loop's turn ends when Open returns.
TurnEnds ==
    main' = IF socket = "open" /\ mDeviceHandle' # 0 THEN "started" ELSE "connection"

OpenDevice ==
    /\ main = "device"
    /\ \/ mDeviceHandle # 0 /\ open = "idle" /\ UNCHANGED deviceVars
       \/ Device!Call
       \/ Device!OpenStep
    /\ CASE open' = "crashed" -> main' = "crashed"
         [] open' = "idle"    -> TurnEnds
         [] OTHER             -> UNCHANGED main
    /\ UNCHANGED <<file, linesRead, settings, socket>>

Replug == Device!Replug /\ UNCHANGED <<file, linesRead, settings, main, socket>>

Done == main \in {"started", "crashed"} /\ UNCHANGED vars

Next == LoadFromFile \/ OpenConnection \/ OpenDevice \/ Replug \/ Done

Spec == Init /\ [][Next]_vars /\ WF_vars(LoadFromFile \/ OpenConnection \/ OpenDevice)

-----------------------------------------------------------------------------

\* LoadFromFile leaves the settings as the file says: for each option the last
\* line that can be read counts, whatever else is in the file.
SettingsAsConfigured ==
    [][main = "load" /\ main' # "load" =>
           \A option \in Options : settings'[option] = Configured(file, option)]_vars

\* What SaveToFile writes says of each option what the settings were.
RoundTrip ==
    \A option \in Options : Configured(SaveToFile(settings), option) = settings[option]

\* Whatever fails, Open leaves no handle open but the one it returns.
HandlesAccounted == opened = {mDeviceHandle} \ {0}

\* As long as nothing has failed, no call of libusb and no opening of the
\* socket, and the devices have stayed where they were, Open does not touch
\* the list after it has freed it.
FreedListUnused == open = "crashed" => failures < MaxFailures

\* With a PSP on the bus, wherever it is, the loop ends with both ends open.
\* Only an address or a port that cannot be converted, or a walk in the freed
\* list, ends the program before.
Starts ==
    <>[](\E device \in DOMAIN bus : bus[device] = "psp")
        => <>(\/ main = "started" /\ socket = "open" /\ mDeviceHandle # 0
              \/ main = "crashed" /\ (~Usable \/ open = "crashed"))
=============================================================================
