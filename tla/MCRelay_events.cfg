SPECIFICATION FairSpec
CONSTANTS
    m1 = m1
    m2 = m2
    Msgs = {m1, m2}
    Configs <- All
    MaxRestarts = 1
    MaxBreaks = 1
    MaxFaults = 1
INVARIANT TypeOK
INVARIANT FiredOncePlusResets
INVARIANT OneDropPerFault
INVARIANT CursorSkipsNothing
PROPERTY HandledEventually
CHECK_DEADLOCK FALSE
