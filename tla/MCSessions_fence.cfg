\* Two pods of one trader, of which the first loses its connection as it publishes.
CONSTANTS
    p1 = p1  p2 = p2
    Pods = {p1, p2}
    Batch = 2
    Nobody = Nobody
    MaxOrders = 2
    MaxCommands = 2
    MaxFailures = 1
SPECIFICATION Spec
INVARIANTS
    WritesStop
CHECK_DEADLOCK FALSE
