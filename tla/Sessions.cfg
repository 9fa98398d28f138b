CONSTANTS
    Clients = {c1, c2}
    MaxSession = 3
SPECIFICATION FairSpec
INVARIANTS
    TypeOK
    NoSessionMissing
PROPERTIES
    RevokedDisconnected
