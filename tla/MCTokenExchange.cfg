SPECIFICATION Spec
CONSTANTS
    Threads = {t1, t2, t3}
    Accounts = {a1}
    NoAccount = NoAccount
    Locks = {l1, l2}
    NoLock = NoLock
    ForeignKeys = TRUE
    Ttl = 0
    CleanupInterval = 1
    MaxNow = 2
    MaxIssued = 3
SYMMETRY Symmetry
INVARIANTS
    OneExchangeAtATime
    KeyReused
    TokenKept
    RefusalHasCause
