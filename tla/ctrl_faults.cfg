SPECIFICATION CtrlSpec
CHECK_DEADLOCK FALSE
CONSTANTS
    Clients = {c1}
    Autoneg = {TRUE}
    Settle = FALSE
    Monitors = {"lane_degrade"}
    FaultPaths = {"down", "rearm", "recover"}
    MaxUps = 1
    MaxFails = 2
    Calls = {"up", "down", "reset", "async"}
    MaxTries = 2
    DownReq = TRUE
INVARIANTS
    AnsweredAtMostOnce
