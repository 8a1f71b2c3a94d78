SPECIFICATION CtrlFairSpec
CHECK_DEADLOCK FALSE
CONSTANTS
    Clients = {c1, c2}
    Autoneg = {FALSE}
    Settle = FALSE
    Monitors = {}
    FaultPaths = {}
    MaxUps = 3
    MaxFails = 1
    Calls = {"up", "async"}
    MaxTries = 2
    DownReq = TRUE
INVARIANTS
    ToldOnce
    Agreement
PROPERTIES
    DownStays
    CtrlSettles
    Settles
