SPECIFICATION FairSpec
CHECK_DEADLOCK FALSE
CONSTANTS
    Levels = {"HOT", "COLD"}
    FakeUser = FALSE
    MaxEvents = 1
PROPERTIES
    RemovalNoticed
