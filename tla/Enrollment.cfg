SPECIFICATION FairSpec
CONSTANTS
    Null = Null
    alice = alice
    bob = bob
    Owner = alice
    Guest = {bob}
    MaxAgain = 1
    MaxCrashes = 1
CHECK_DEADLOCK FALSE
INVARIANTS
    TypeOK
    HostedKeyIsHeld
PROPERTIES
    TokensMoveOn
    EveryoneGetsIn
