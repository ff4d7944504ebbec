SPECIFICATION FairSpec
CONSTANTS
    c1 = c1
    c2 = c2
    Callers = {c1, c2}
    Recipients = 2
    Segments = 2
    Keep = 1
    ViaClient = FALSE
    MaxPosts = 2
    MaxPortLosses = 1
    MaxTimeouts = 1
    MaxRestarts = 1
INVARIANT IdempotencyIndex
INVARIANT StateIsTruthful
INVARIANT RetryIsSafe
PROPERTY FinalStaysFinal
PROPERTY SettlesWhilePortLasts
CHECK_DEADLOCK FALSE
