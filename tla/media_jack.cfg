SPECIFICATION MonSpec
CHECK_DEADLOCK FALSE
CONSTANTS
    Levels = {"HOT", "COLD"}
    FakeUser = TRUE
    MaxEvents = 2
INVARIANTS
    CableKept
    Settled
    ToldTruth
    OneTold
    Powered
PROPERTIES
    ToldInTheEnd
