SPECIFICATION FairSpec
CONSTANTS
    Partitions = {p1}
    EventTypes <- MCEventTypes
    Routes <- MCRoutes
    Untimed <- MCUntimed
    Policies <- MCPolicies
    MaxLog = 3
    MaxDisruptions = 1
INVARIANTS
    TypeOK
    CommitIsEarned
    PassedMessagesAccounted
    RequiredGatesLater
PROPERTIES
    CommitsOnlyThrough
    EveryRecordReceived
CHECK_DEADLOCK FALSE
