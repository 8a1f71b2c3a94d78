SPECIFICATION FairSpec
CONSTANTS
    Clients = {c1}
    Autoneg = {TRUE}
    Settle = FALSE
    Monitors = {}
    FaultPaths = {}
    MaxUps = 2
    MaxFails = 0
PROPERTIES
    Settles
