\* One trader, one worker.
CONSTANTS
    t1 = t1  w1 = w1  w2 = w2  p1 = p1  p2 = p2  c1 = c1  c2 = c2  c3 = c3
    Traders = {t1}
    Workers = {w1}
    Partitions = {p1}
    ClientIds = {c1, c2}
    Malformed = {}
    PartitionOf <- OnePartition
    Nobody = Nobody
    NoOrder = NoOrder
    Idle = Idle
    Stopped = Stopped
    Waiting = Waiting
    Grant = 1
    MaxOpen = 1
    MaxResets = 0
    MaxLog = 4
    MaxFailures = 2
SPECIFICATION Spec
PROPERTIES
    TemporaryErrorsRestart
CHECK_DEADLOCK FALSE
