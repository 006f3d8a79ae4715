SPECIFICATION Spec
CONSTANTS
    Targets <- MCTargets
    MaxDeliveries = 2
INVARIANTS
    RetriedAsDocumented
CHECK_DEADLOCK FALSE
