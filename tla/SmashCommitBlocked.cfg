SPECIFICATION Spec
CONSTANTS
    Partitions = {p1}
    EventTypes <- MCEventTypes
    Routes <- MCRoutes
    Untimed <- MCUntimed
    Policies <- MCDefaultPolicy
    MaxLog = 3
    MaxDisruptions = 1
INVARIANTS
    CommitBlockedUntilDelivered
CHECK_DEADLOCK FALSE
