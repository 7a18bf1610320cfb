SPECIFICATION Spec
CONSTANTS
    Accounts = {a1, a2}
    ReasonSecs <- MCReasonSecs
    Rungs = 3
    RungSecs <- MCRungSecs
    ForgetAfter = 5
    CleanupInterval = 2
    MaxNow = 8
    MaxOffenses = 4
INVARIANTS
    TypeOK
    OffensePaired
PROPERTIES
    NeverShortened
    LadderSpec
