SPECIFICATION FairSpec
CONSTANTS
    Null = Null
    Envelope <- Reusing
    Object <- ReusingObjects
    Call = {1, 2}
    Shared = FALSE
    Limit = 1
    Unknown = {}
    ShortLived <- FirstObject
    MaxFaults = 1
    MaxCrashes = 1
CHECK_DEADLOCK FALSE
INVARIANTS
    TypeOK
    NothingIsLost
    QueuedIsAccepted
PROPERTY ArrivesUnlessHeldUp
