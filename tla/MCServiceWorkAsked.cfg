\* A request for /__shutdown from another process.
CONSTANTS
    MaxRequests = 3
    MaxAsks = 1
    NoRequest = 0
    NormalWorkers = {n1}
    StreamWorkers = {s1}
    NormalCapacity = 1
    StreamCapacity = 1
    Accounts = {a1}
    NoAccount = NoAccount
    UsageWorkers = {u1}
SPECIFICATION FairSpec
\* The process has ended.
CHECK_DEADLOCK FALSE
PROPERTIES
    ShutdownObeyed
