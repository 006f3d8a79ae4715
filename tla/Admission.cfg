SPECIFICATION Spec
CONSTANTS
    NoKey = NoKey
    Requests = {r1, r2, r3}
    Sources = {"github"}
    DedupKeys = {"d1", "d2"}
    CooldownKeys = {"c1"}
    SecondsPerMinute = 2
    LimitPerMinute = 2
    DedupTtl = 2
    CooldownTtl = 1
    MaxClock = 3
    Deliveries <- MCEvents
SYMMETRY MCSymmetry
INVARIANTS
    TypeOK
    DedupWindow
    CooldownWindow
    SuppressionHasCause
    RateLimitInOrder
CHECK_DEADLOCK FALSE
