CONSTANTS
    t1 = t1
    t2 = t2
    a1 = a1
    a2 = a2
    Threads = {t1, t2}
    Accounts = {a1, a2}
    NoAccount = NoAccount
    Verdicts = {"limited"}
    MaxDecisions = 2
SPECIFICATION Spec
SYMMETRY Symmetry
INVARIANTS
    TypeOK
    DecisionStandsUnlessOvertaken
    CacheFollowsStatus
