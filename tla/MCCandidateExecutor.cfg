SPECIFICATION FairSpec
CONSTANTS
    a1 = a1
    a2 = a2
    Requests = {r1, r2}
    Accounts = {a1, a2}
    NoAccount = NoAccount
    Orders <- MCOrders
    MaxInflight = 1
INVARIANTS
    InflightMatchesGuards
    NeverExhausted
    HandledIsAnswered
PROPERTIES
    EveryRequestEnds
