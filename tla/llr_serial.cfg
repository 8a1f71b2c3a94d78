SPECIFICATION FairSpec
CONSTANTS
    Clients = {c1}
    MaxCalls = 3
    MaxFaults = 1
INVARIANTS
    StoredWithoutFault
PROPERTIES
    NeverStuck
