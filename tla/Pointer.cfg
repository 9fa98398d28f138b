CONSTANTS
    Xs = {0, 1, 2, 4, 5}
    Masks = {2, 4, 5, 8, 16}
    Widths = {2, 3, 5}
    Extent = 8
    RetryMax = 2
    Server = Server
    Video = Video
SPECIFICATION PointerFairSpec
INVARIANTS
    PointerTypeOK
    PointsAtPixel
    HostHasPointer
PROPERTIES
    PointerEventsEnd
