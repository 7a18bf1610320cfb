\* Requests, refreshes and a shutdown on one worker for each channel.
CONSTANTS
    MaxRequests = 3
    MaxAsks = 2
    NoRequest = 0
    NormalWorkers = {n1}
    StreamWorkers = {s1}
    NormalCapacity = 1
    StreamCapacity = 1
    Accounts = {a1}
    NoAccount = NoAccount
    UsageWorkers = {u1}
SPECIFICATION FairSpec
\* The process has ended.
CHECK_DEADLOCK FALSE
INVARIANTS
    InOnePlace
    GaugeCoversBacklog
    OneTaskPerAccount
PROPERTIES
    EveryoneAnswered
    RefreshesEnd
    ShutdownEnds
