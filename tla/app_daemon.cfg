SPECIFICATION FairSpec
CONSTANTS
    Clients = {c1, c2}
    MaxRequests = 2
    MaxCrashes = 1
    PipeLines = 1
INVARIANTS
    DaemonTypeOK
    OwnReply
PROPERTIES
    DaemonReturns
    WaitingClientGetsIn
    ReaderIsReleased
