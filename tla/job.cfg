SPECIFICATION Spec
CONSTANTS
    Workers = {w1, w2, w3}
    NoWorker = none
    Other = other
    kMaxPending = 2
    MaxFailures = 1
    MaxPosts = 1
    w1 = w1
    w2 = w2
    w3 = w3
    none = none
    other = other
INVARIANT JobInv
PROPERTY OneAnswer EveryRunEnds
CHECK_DEADLOCK FALSE
