SPECIFICATION FairSpec
CONSTANTS
    bob = bob
    carol = carol
    eve = eve
    x = x
    y = y
    Null = Null
    Hosted = {bob}
    Recipient = {bob, carol, eve}
    MessageId = {1, 2}
    Body = {x, y}
    Envelope <- TwoMessages
    Conn = {1, 2}
    RejectedPolicy = "drop"
    TicksPerSecond = 2
    LeaseSeconds = 2
    MaxTime = 4
    MaxCrashes = 0
CHECK_DEADLOCK FALSE
INVARIANT AlreadyQueuedIsKept
PROPERTIES
    LeaseHoldsAlmost
    DeliveryProgress
