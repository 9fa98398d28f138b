CONSTANTS
    Buffers = {b1}
    Sizes = {A, B}
    DefaultSize = A
    NoSignal = NoSignal
    OriginalFormat = 2
    Clients = {c1, c2}
    FrameRate = 1
SPECIFICATION FairSpec
INVARIANTS
    TypeOK
    ClientsCounted
PROPERTIES
    FramesFitScreen
    PendingEnds
