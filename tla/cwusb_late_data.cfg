SPECIFICATION Spec
CONSTANTS
    InFlight = 1
    MaxFaults = 0
    MayKick = FALSE
    KaiSends = TRUE
    MaxRestarts = 0
    MayOvertake = FALSE
INVARIANTS GracefulExit
