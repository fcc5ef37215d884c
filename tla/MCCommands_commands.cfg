\* One trader, two orders and a malformed one, two workers, a bot reset that moves
\* the trader's key.
CONSTANTS
    t1 = t1  w1 = w1  w2 = w2  p1 = p1  p2 = p2  c1 = c1  c2 = c2  c3 = c3
    Traders = {t1}
    Workers = {w1, w2}
    Partitions = {p1, p2}
    ClientIds = {c1, c2, c3}
    Malformed = {c3}
    PartitionOf <- Alternating
    Nobody = Nobody
    NoOrder = NoOrder
    Idle = Idle
    Stopped = Stopped
    Waiting = Waiting
    Grant = 1
    MaxOpen = 1
    MaxResets = 1
    MaxLog = 3
    MaxFailures = 2
SPECIFICATION BudgetSpec
INVARIANTS
    NothingSkipped ChargedOnce
PROPERTIES
    Promise DeletedForGood EventuallyCommitted
CHECK_DEADLOCK FALSE
