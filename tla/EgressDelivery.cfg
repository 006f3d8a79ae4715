SPECIFICATION FairSpec
CONSTANTS
    Targets <- MCTargets
    MaxDeliveries = 2
INVARIANTS
    TypeOK
    RepeatsOnlyUnheard
    EffortSpent
    DisorderOnlyUnheard
    WaitsGrowToCeiling
PROPERTIES
    RefusedIsFinal
    StallsOnlyUnbounded
CHECK_DEADLOCK FALSE
