SPECIFICATION FairSpec
CONSTANTS
    Events = {e1, e2, e3}
    Capacity = 1
    MaxRetries = 2
    KafkaWorkers = {k1}
    Sessions = {s1}
INVARIANTS
    TypeOK
    Conserved
    DrainedLeavesNothing
    SendsBounded
    KillLosesAtMost
PROPERTIES
    HandoffSpec
    AcceptedIsFinished
    InterruptEnds
CHECK_DEADLOCK FALSE
