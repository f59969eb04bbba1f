SPECIFICATION Spec
CONSTANTS
    InFlight = 2
    MaxFaults = 2
    MayClose = TRUE
    MayOvertake = FALSE
    KaiSends = TRUE
    MayKick = TRUE
INVARIANTS TypeOK ConnectingExclusive NeverDeaf ThreadLives
PROPERTIES CloseReturns DeadKaiNoticed Reconnects
