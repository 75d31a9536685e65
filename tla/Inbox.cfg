SPECIFICATION InboxSpec
CONSTANTS
    bob = bob
    x = x
    y = y
    Null = Null
    Hosted = {bob}
    Recipient = {bob}
    MessageId = {1, 2}
    Body = {x, y}
    Envelope <- Three
    Me = "bob"
    Key = {"alice", "bob"}
    Route = {"A", "B"}
    Text = {"hello", "bye"}
    Parts <- PartsOf
    Conn = {c1, c2}
    c1 = c1
    c2 = c2
    Limit = 2
    RejectedPolicy = "drop"
    TicksPerSecond = 1
    LeaseSeconds = 1
    MaxTime = 1
    MaxCrashes = 1
SYMMETRY Calls
VIEW ButRefusals
CHECK_DEADLOCK FALSE
INVARIANTS
    InboxTypeOK
    SurfacedOnce
    SurfacedIsAcked
    ProcessedIsAcked
    SurfacedIsGenuine
PROPERTY IsDelivery
