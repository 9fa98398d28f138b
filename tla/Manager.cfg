\* The hand-off has two threads and no unbounded data: this is the whole system.
CONSTANTS
    Server = Server
    Video = Video
    None = None
SPECIFICATION FairSpec
INVARIANTS
    TypeOK
    NoLostWakeup
    NeverBothAsleep
PROPERTIES
    ImplementsRoundSync
    BothThreadsKeepWorking
