CONSTANTS
    r1 = r1
    r2 = r2
    a1 = a1
    a2 = a2
    a3 = a3
    Requests = {r1, r2}
    Accounts = {a1, a2, a3}
    NoAccount = NoAccount
    NoRow = NoRow
    MaxRequests = 3
    MaxDeletes = 0
    MaxManual = 0
SPECIFICATION Spec
SYMMETRY Symmetry
INVARIANT OneAccountPerThread
CHECK_DEADLOCK FALSE
