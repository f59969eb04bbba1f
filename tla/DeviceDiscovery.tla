-------------------------- MODULE DeviceDiscovery --------------------------
(***************************************************************************)
(* USBReader::Open: the walk over the list of USB devices to the PSP, and  *)
(* the handles and the list it takes from libusb.  USBReader and           *)
(* ReaderLifecycle know it as one step with two outcomes.                  *)
(*                                                                         *)
(* The list is freed inside the loop.  What happens to a loop that goes on *)
(* is undefined: the program ends, or what is read of a device is right,   *)
(* or is not.                                                              *)
(***************************************************************************)
EXTENDS Naturals, Sequences, FiniteSets

CONSTANTS MaxDevices,  \* bound: devices on the bus
          MaxFailures  \* bound: calls of libusb that fail

VARIABLES bus,            \* the devices, in the list's order: "other" or "psp"
          mDeviceHandle,  \* the device whose interface is claimed; 0: none
          opened,         \* the devices libusb_open was called on and libusb_close
                          \* was not
          lDevices,       \* the list: "none", "held" or "freed"
          lCount,         \* the position in it
          open,           \* where Open is: "idle", "list", "walk" or "crashed"
          failures

vars == <<bus, mDeviceHandle, opened, lDevices, lCount, open, failures>>

Buses == UNION {[1..n -> {"other", "psp"}] : n \in 0..MaxDevices}

Init ==
    /\ bus \in Buses
    /\ mDeviceHandle = 0
    /\ opened = {}
    /\ lDevices = "none"
    /\ lCount = 0
    /\ open = "idle"
    /\ failures = MaxFailures

Failure == failures > 0 /\ failures' = failures - 1

Call ==
    /\ open = "idle"
    /\ mDeviceHandle = 0
    /\ open' = "list"
    /\ UNCHANGED <<bus, mDeviceHandle, opened, lDevices, lCount, failures>>

\* Without a list Open returns.
GetDeviceList ==
    /\ open = "list"
    /\ \/ lDevices' = "held" /\ open' = "walk" /\ UNCHANGED failures
       \/ Failure /\ lDevices' = "none" /\ open' = "idle"
    /\ lCount' = 1
    /\ UNCHANGED <<bus, mDeviceHandle, opened>>

\* Mutant: the last device is not looked at.
Walking_AllButLast == open = "walk" /\ mDeviceHandle = 0 /\ lCount < Len(bus)

\* Mutant: the walk goes on after the device was found.
Walking_OnAndOn == open = "walk" /\ lCount <= Len(bus)

Walking == open = "walk" /\ mDeviceHandle = 0 /\ lCount <= Len(bus)

UseFreedList ==
    /\ Walking
    /\ lDevices = "freed"
    /\ open' = "crashed"
    /\ UNCHANGED <<bus, mDeviceHandle, opened, lDevices, lCount, failures>>

FreeDeviceList == lDevices' = "freed" /\ UNCHANGED open

NextDevice == lCount' = lCount + 1

QueryFails ==
    /\ Walking
    /\ Failure
    /\ FreeDeviceList
    /\ NextDevice
    /\ UNCHANGED <<bus, mDeviceHandle, opened>>

NotMatching ==
    /\ Walking
    /\ bus[lCount] # "psp" \/ lDevices = "freed"
    /\ NextDevice
    /\ UNCHANGED <<bus, mDeviceHandle, opened, lDevices, open, failures>>

OpenFails ==
    /\ Walking
    /\ bus[lCount] = "psp"
    /\ Failure
    /\ FreeDeviceList
    /\ NextDevice
    /\ UNCHANGED <<bus, mDeviceHandle, opened>>

\* Mutant: the handle stays open when the interface cannot be claimed.
ClaimFails_KeepsHandle ==
    /\ Walking
    /\ bus[lCount] = "psp"
    /\ Failure
    /\ FreeDeviceList
    /\ opened' = opened \cup {lCount}
    /\ NextDevice
    /\ UNCHANGED <<bus, mDeviceHandle>>

\* Configuring the device or claiming its interface fails: the handle that was
\* opened is closed again.
ClaimFails ==
    /\ Walking
    /\ bus[lCount] = "psp"
    /\ Failure
    /\ FreeDeviceList
    /\ NextDevice
    /\ UNCHANGED <<bus, mDeviceHandle, opened>>

Claim ==
    /\ Walking
    /\ bus[lCount] = "psp"
    /\ FreeDeviceList
    /\ mDeviceHandle' = lCount
    /\ opened' = opened \cup {lCount}
    /\ NextDevice
    /\ UNCHANGED <<bus, failures>>

\* A list without a PSP in it is never freed.
Return ==
    /\ open = "walk"
    /\ ~Walking
    /\ open' = "idle"
    /\ lDevices' = "none"
    /\ UNCHANGED <<bus, mDeviceHandle, opened, lCount, failures>>

OpenStep ==
    \/ GetDeviceList \/ UseFreedList
    \/ QueryFails \/ NotMatching \/ OpenFails \/ ClaimFails \/ Claim
    \/ Return

\* Devices come and go; Open sees those that are there when it begins.
Replug ==
    /\ open = "idle"
    /\ mDeviceHandle = 0
    /\ Failure
    /\ bus' \in Buses
    /\ UNCHANGED <<mDeviceHandle, opened, lDevices, lCount, open>>
=============================================================================
