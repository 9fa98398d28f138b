CONSTANTS
    Buffers = {b1, b2}
    Sizes = {A, B}
    DefaultSize = Default
    NoSignal = NoSignal
    OriginalFormat = 2
    MaxClients = 1
    MaxFaults = 0
SPECIFICATION FairSpec
PROPERTIES
    StreamsForClient
