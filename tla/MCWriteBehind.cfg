CONSTANTS
    Writers = {w1, w2}
    Messages = {m1, m2}
    Incomplete = {}
    Oversized = {m2}
    Capacity = 1
    BatchSize = 2
    MaxRetries = 1
    FailureThreshold = 2
SPECIFICATION Spec
INVARIANTS TypeOK NoSilentLoss FlushedOnShutdown
PROPERTIES ImplementsSink AcceptedSettles WritersStop
CHECK_DEADLOCK FALSE
