\* Two pods of a rollout, with and without a publisher.
CONSTANTS
    p1 = p1  p2 = p2
    Pods = {p1, p2}
    Batch = 2
    Nobody = Nobody
    MaxOrders = 3
    MaxCommands = 3
    MaxFailures = 2
SPECIFICATION FairSpec
INVARIANTS
    LateWritesAreFew
    FundedOnce
PROPERTIES
    OldOrdersGo
CHECK_DEADLOCK FALSE
