CONSTANTS
    Keys = {97, 98, 65505}
    Slots = {2, 3}
    RetryMax = 2
    Server = Server
    Video = Video
SPECIFICATION Spec
INVARIANTS
    TypeOK
    KeysDownMatchReport
    HostHasReport
