SPECIFICATION Spec
CONSTANTS
    m1 = m1
    m2 = m2
    Msgs = {m1, m2}
    Configs <- Stored
    MaxRestarts = 0
    MaxBreaks = 0
    MaxFaults = 1
INVARIANT FiredAtMostOnce
CHECK_DEADLOCK FALSE
