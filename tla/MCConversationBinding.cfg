CONSTANTS
    r1 = r1
    r2 = r2
    a1 = a1
    a2 = a2
    a3 = a3
    Requests = {r1, r2}
    Accounts = {a1, a2, a3}
    NoAccount = NoAccount
    NoRow = NoRow
    MaxRequests = 4
    MaxDeletes = 1
    MaxManual = 1
SPECIFICATION Spec
SYMMETRY Symmetry
INVARIANTS
    TypeOK
    AnchorFollowsEpoch
    SwitchedRequestLeavesThread
    OneAccountPerThreadUnlessRaced
PROPERTIES
    SlowAnswerKeepsSwitch
    BoundAccountFirst
CHECK_DEADLOCK FALSE
