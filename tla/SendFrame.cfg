CONSTANTS
    Clients = {c1}
    OneAtATime = TRUE
    Buffers = {b1, b2}
    Width = 2
    Pixels = {x, y}
    Blank = Blank
    None = None
    Partial = TRUE
    CalcCRC = TRUE
    FirstSkip = 1
SPECIFICATION FairSpec
INVARIANTS
    TypeOK
    SendsPendingFrame
PROPERTIES
    WithheldIsShown
    ImplementsFrameQueue
    ViewConverges
