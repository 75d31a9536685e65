SPECIFICATION FairSpec
CONSTANTS
    Null = Null
    Object <- Objects
    Envelope <- Envelopes
    Unknown = {}
    ShortLived <- Ours
    Foreign <- Others
    MaxFaults = 1
CHECK_DEADLOCK FALSE
INVARIANTS
    TypeOK
    QueuedHasContent
    TransferredIsThere
    ProxiedIsQueued
    OneUploadPerKey
PROPERTIES
    RequestsEnd
    ReachesPeer
