SPECIFICATION FairSpec
CONSTANTS
    Requests = {r1, r2, r3}
    Keys = {k1}
    Locks = {l1, l2, l3, l4}
    NoLock = NoLock
    NoKey = NoKey
    Ttl = 1
    CleanupInterval = 1
    MaxNow = 4
    MaxReloads = 1
INVARIANTS
    KeyExclusion
    NoLostWakeup
PROPERTIES
    BoundedWaitEnds
