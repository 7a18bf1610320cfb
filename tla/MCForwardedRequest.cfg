\* Every call, answer and deadline; cooldowns come and go around the request.
SPECIFICATION ForwardedSpec
CONSTANTS
    a1 = a1
    a2 = a2
    Requests = {r1}
    Traced = r1
    Accounts = {a1, a2}
    NoAccount = NoAccount
    Orders <- MCOrders
    MaxInflight = 0
INVARIANTS
    AttemptTypeOK
    OneCooldownChange
    EffectFitsAnswer
    LateWorkBounded
PROPERTIES
    LoopSpec
    NoSendAfterSuccess
    SendsAreAccountedFor
