SPECIFICATION Spec
CONSTANTS
    NoKey = NoKey
    Requests = {r1, r2, r3}
    Sources = {"github"}
    DedupKeys = {"d1", "d2"}
    CooldownKeys = {"c1"}
    SecondsPerMinute = 2
    LimitPerMinute = 3
    DedupTtl = 2
    CooldownTtl = 1
    MaxClock = 2
    Deliveries <- MCPlain
SYMMETRY MCSymmetry
INVARIANTS
    BackpressureRetryable
CHECK_DEADLOCK FALSE
