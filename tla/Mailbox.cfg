SPECIFICATION Spec
CONSTANTS
    bob = bob
    carol = carol
    eve = eve
    x = x
    y = y
    Null = Null
    Hosted = {bob, carol}
    Recipient = {bob, carol, eve}
    MessageId = {1, 2}
    Body = {x, y}
    Envelope <- Mixed
    Conn = {1, 2}
    RejectedPolicy = "quarantine"
    TicksPerSecond = 1
    LeaseSeconds = 1
    MaxTime = 1
    MaxCrashes = 1
CHECK_DEADLOCK FALSE
INVARIANTS
    TypeOK
    AdmittedIsRemembered
    FinishedStaysFinished
    OneEnvelopePerMessageId
    EnqueueNeverCollides
    QueuedIsKept
