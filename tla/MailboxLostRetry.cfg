SPECIFICATION Spec
CONSTANTS
    bob = bob
    carol = carol
    eve = eve
    x = x
    y = y
    Null = Null
    Hosted = {bob}
    Recipient = {bob, carol, eve}
    MessageId = {1, 2}
    Body = {x, y}
    Envelope <- Twins
    Conn = {1}
    RejectedPolicy = "drop"
    TicksPerSecond = 1
    LeaseSeconds = 1
    MaxTime = 1
    MaxCrashes = 1
CHECK_DEADLOCK FALSE
INVARIANT AlreadyQueuedIsKept
