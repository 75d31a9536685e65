SPECIFICATION Spec
CONSTANTS
    c1 = c1
    c2 = c2
    h1 = h1
    h2 = h2
    h3 = h3
    Null = Null
    ContentId = {c1, c2}
    Hash = {h1, h2, h3}
    Object <- Objects
    MaxTime = 3
    MaxCrashes = 2
INVARIANTS
    TypeOK
    RowHasItsFile
    NoOrphanFiles
    AcceptedIsHeld
PROPERTIES
    ImplementsMap
CHECK_DEADLOCK FALSE
