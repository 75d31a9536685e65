SPECIFICATION FairSpec
CONSTANTS
    Null = Null
    Torn = Torn
    bob = bob
    carol = carol
    k1 = k1
    k2 = k2
    Route = {bob, carol}
    KeysAt <- TwoForBob
    Sender = {1}
    Writer = {2}
    MaxFails = 1
    MaxDeaths = 1
INVARIANTS
    TypeOK
    PinsHold
    ContactsAgree
PROPERTY PinnedInTheEnd
