CONSTANTS
    Keys = {k1, k2, k3}
    Watched = k1
    Capacity = 2
    OrderedWindow = 3
    BalancedWindow = 1
    BatchLimit = 2
    PollWorkers = 2
    NumAccounts = 3
    Metered = {3}
    Managed = {3}
    Faulty = {3}
    MaxChanges = 2
    MaxFailures = 1
SPECIFICATION FairSpec
INVARIANTS
    TypeOK
    NextInTurn
PROPERTIES
    SpentAccountsReturn
