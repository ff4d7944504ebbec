SPECIFICATION FairSpec
CONSTANTS
    s1 = s1
    s2 = s2
    Subs = {s1, s2}
    RingSize = 1
    QueueMax = 2
    MaxSubscribers = 2
    MaxReplay = 9
    Store = FALSE
    MaxId = 2
    MaxStreams = 2
    MaxHealth = 1
    MaxLosses = 1
INVARIANT TypeOK
INVARIANT ReleaseOnceAfterDelivery
INVARIANT SessionInOrder
INVARIANT NoSilentLoss
PROPERTY ContractSpec
PROPERTY PendingIsDelivered
CHECK_DEADLOCK FALSE
