SPECIFICATION Spec
CONSTANTS
    s1 = s1
    s2 = s2
    s3 = s3
    Subs = {s1, s2, s3}
    RingSize = 1
    QueueMax = 2
    MaxSubscribers = 2
    MaxReplay = 9
    Store = TRUE
    MaxId = 3
    MaxStreams = 2
    MaxHealth = 1
    MaxLosses = 1
SYMMETRY Symmetry
INVARIANT ReplayComplete
INVARIANT AdmissionAccounting
CHECK_DEADLOCK FALSE
