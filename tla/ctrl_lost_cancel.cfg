SPECIFICATION CtrlFairSpec
CHECK_DEADLOCK FALSE
CONSTANTS
    Clients = {c1}
    Autoneg = {FALSE}
    Settle = FALSE
    Monitors = {}
    FaultPaths = {}
    MaxUps = 1
    MaxFails = 0
    Calls = {"up", "down"}
    MaxTries = 2
    DownReq = TRUE
PROPERTIES
    DownStays
