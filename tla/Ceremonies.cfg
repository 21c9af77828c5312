\* Two devices, one key, two rounds; the user's cap is one live ceremony.
SPECIFICATION FairSpec
CONSTANTS
    Sockets = {s1, s2}
    Keys = {k1}
    Operations = {"dkg", "derive"}
    LastRound = 2
    PerUser = 1
    None = None
CHECK_DEADLOCK FALSE
INVARIANTS
    TypeOK
    SlotsMatch
    LockStep
PROPERTIES
    RevokedEnds
    ImplementsKeyGeneration
