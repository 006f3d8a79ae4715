SPECIFICATION FairSpec
CONSTANTS
    Partitions = {p1}
    Launches <- MCLaunches
    MaxLog = 3
    MaxDisruptions = 1
INVARIANTS
    ForwardedInOrder
PROPERTIES
    CommitsOnlySettled
    EveryRecordSettled
CHECK_DEADLOCK FALSE
