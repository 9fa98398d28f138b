CONSTANTS
    Buffers = {b1}
    Sizes = {A, B}
    DefaultSize = A
    NoSignal = NoSignal
    OriginalFormat = 0
    Clients = {c1, c2}
    FrameRate = 1
SPECIFICATION FairSpec
PROPERTIES
    ScreenFollowsHost
