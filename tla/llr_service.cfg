SPECIFICATION Spec
CONSTANTS
    Clients = {c1, c2}
    MaxCalls = 3
    MaxFaults = 0
INVARIANTS
    TypeOK
    AnsweredOnce
    OneSettler
    SetupHasData
    FreedQuiet
PROPERTIES
    KeepsService
