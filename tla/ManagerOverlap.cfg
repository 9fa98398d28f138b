CONSTANTS
    Server = Server
    Video = Video
    None = None
SPECIFICATION FairSpec
PROPERTIES
    ResizeWaitsForRfb
