SPECIFICATION Spec
CONSTANTS
    Events = {e1, e2, e3}
    Capacity = 1
    MaxRetries = 2
    KafkaWorkers = {k1}
    Sessions = {s1}
INVARIANTS
    RetriedAsDocumented
CHECK_DEADLOCK FALSE
