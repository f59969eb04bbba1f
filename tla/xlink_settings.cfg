SPECIFICATION Spec
CONSTANTS
    InFlight = 2
    MaxFaults = 0
    MayClose = FALSE
    MayOvertake = FALSE
    MayKick = TRUE
    KaiSends = FALSE
INVARIANTS SettingsSentInConnection
