SPECIFICATION FairSpec
CONSTANTS
    Clients = {c1, c2, c3}
    Authorized = {c1, c2}
    auth_mode = "bearer"
    max_clients = 1
    queue_depth_per_client = 2
    Buffer = 2
    MaxMessages = 3
    MaxHandshakes = 2
INVARIANTS
    LimitUnlessRaced
    GapsOnlyByLag
    InboxInOrder
    CountReturns
PROPERTIES
    NewestArrives
CHECK_DEADLOCK FALSE
