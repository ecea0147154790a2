CONSTANTS
    Workers = {w1, w2, w3}
    Initial = {w1}
    MaxWorkers = 2
    MaxFaults = 1
SPECIFICATION Spec
INVARIANTS TypeOK NoStrayWorker ConnectionShared
PROPERTIES AllStop
CHECK_DEADLOCK FALSE
