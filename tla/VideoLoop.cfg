CONSTANTS
    Buffers = {b1, b2}
    Sizes = {A, B}
    DefaultSize = Default
    NoSignal = NoSignal
    OriginalFormat = 2
    MaxClients = 2
    MaxFaults = 1
SPECIFICATION FairSpec
INVARIANTS
    TypeOK
    QueuedMeansQueued
    BuffersAccounted
    FramesMatchStream
    NoPartialScreenshot
PROPERTIES
    ScreenshotTaken
    FormatRestored
    SizeFollowsHost
