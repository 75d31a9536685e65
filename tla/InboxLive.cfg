SPECIFICATION PatientSpec
CONSTANTS
    bob = bob
    x = x
    y = y
    Null = Null
    Hosted = {bob}
    Recipient = {bob}
    MessageId = {1, 2}
    Body = {x, y}
    Envelope <- Two
    Me = "bob"
    Key = {"alice", "bob"}
    Route = {"A", "B"}
    Text = {"hello", "bye"}
    Parts <- PartsOf
    Conn = {c1}
    c1 = c1
    c2 = c2
    Limit = 2
    RejectedPolicy = "drop"
    TicksPerSecond = 1
    LeaseSeconds = 1
    MaxTime = 2
    MaxCrashes = 0
CHECK_DEADLOCK FALSE
PROPERTY MailboxDrains
