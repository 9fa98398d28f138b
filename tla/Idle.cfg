CONSTANTS
    Timeouts = {1, 2}
    Default = 3
    Powers = {"On", "Off", "Other"}
    MaxSignals = 2
    Clients = {c1}
    Second = 2
    Modulus = 16
    MaxAge = 8
    MaxLag = 2
SPECIFICATION FairSpec
INVARIANTS
    TypeOK
    CopiesAreRight
PROPERTIES
    ActiveStays
    IdleIsClosed
