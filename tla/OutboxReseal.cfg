SPECIFICATION FairSpec
CONSTANTS
    Null = Null
    Envelope <- Twice
    Object <- TwiceObjects
    Call = {1}
    Shared = FALSE
    Limit = 1
    Unknown = {}
    ShortLived = {}
    MaxFaults = 0
    MaxCrashes = 0
CHECK_DEADLOCK FALSE
PROPERTY EverythingArrives
