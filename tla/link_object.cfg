SPECIFICATION Spec
CHECK_DEADLOCK FALSE
CONSTANTS
    Clients = {c1, c2}
    Notified = {c2}
    Calls = {"up", "down", "reset", "policy", "read", "del"}
    Periods = {0, 1}
    Chances = 1
    DownReqs = {TRUE, FALSE}
    Faults = TRUE
    MaxCalls = 3
INVARIANTS
    TypeOK
    RefsKeepAlive
    EverybodyOut
    NoOtherWait
    MonitorSilent
    MonitorAlive
    ResetsDown
