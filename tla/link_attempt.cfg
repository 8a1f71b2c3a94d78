SPECIFICATION Spec
CONSTANTS
    Clients = {c1}
    Autoneg = {TRUE, FALSE}
    Settle = TRUE
    Monitors = {"high_ser", "lane_degrade"}
    FaultPaths = {"rearm"}
    MaxUps = 2
    MaxFails = 1
INVARIANTS
    TypeOK
    OneEnd
    NoWorkOutlives
PROPERTIES
    KeepsLinkService
