SPECIFICATION Spec
CONSTANTS
    InFlight = 1
    MaxFaults = 1
    MayKick = FALSE
    KaiSends = TRUE
    MaxRestarts = 1
    MayOvertake = FALSE
INVARIANTS NothingLeft
PROPERTIES SignalEnds ConnectionUsedAsAssumed
