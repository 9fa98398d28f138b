CONSTANTS
    Clients = {c1, c2}
    OneAtATime = FALSE
    Buffers = {b1, b2}
    Width = 2
    Pixels = {x, y}
    Blank = Blank
    None = None
    Partial = TRUE
    CalcCRC = TRUE
    FirstSkip = 1
SPECIFICATION Spec
INVARIANTS
    SendsPendingFrame
