SPECIFICATION FairSpec
CONSTANTS
    l1 = l1
    l2 = l2
    Senders = {s1}
    Listeners = {l1, l2}
    Types = {"link", "media"}
    Wanted <- MCWanted
    Slots = 2
    MaxPolls = 2
    MsgSize = 2
    FifoSize = 3
    MaxMsgs = 3
INVARIANTS
    TypeOK
    NothingStranded
    NoCallAfterUnregister
    WholeAudience
PROPERTIES
    EverythingEnds
