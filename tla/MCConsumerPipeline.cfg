CONSTANTS
    w1 = w1
    w2 = w2
    i1 = i1
    i2 = i2
    Redis = redis
    Messages = {m1, m2, m3}
    Anonymous = {m2}
    Malformed = {m3}
    Workers = {w1, w2}
    Instances = {i1, i2}
    Host <- MCHost
    SharedDedup = TRUE
    Capacity = 1
    MaxChannelLosses = 1
    MaxCrashes = 1
    MaxRedisFaults = 1
SPECIFICATION Spec
INVARIANTS TypeOK ProcessedOnce NothingElseLost
PROPERTIES LeavesBroker EventuallySettled ImplementsEffectivelyOnce
CHECK_DEADLOCK FALSE
