SPECIFICATION Spec
CONSTANTS
    InFlight = 1
    MaxFaults = 0
    MayKick = FALSE
    KaiSends = FALSE
    MaxRestarts = 0
    MayOvertake = TRUE
PROPERTIES SignalEnds
