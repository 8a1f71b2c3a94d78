SPECIFICATION Spec
CHECK_DEADLOCK FALSE
CONSTANTS
    Clients = {c1, c2}
    Ops = {"use", "config", "attr", "reset", "new", "del"}
    Fails <- MCFails
    MaxNew = 2
    MaxCalls = 5
INVARIANTS
    TypeOK
    RefsCounted
    TreeKept
PROPERTIES
    WaitersWoken
SYMMETRY
    Symmetry
