SPECIFICATION Spec
CONSTANTS
    m1 = m1
    m2 = m2
    m3 = m3
    Msgs = {m1, m2, m3}
    RingSize = 1
    Outgoing = 1
    MaxFaults = 2
    MaxBreaks = 1
SYMMETRY Symmetry
INVARIANT SavedBeforeDeleted
INVARIANT CursorSkipsNothing
INVARIANT CounterAhead
INVARIANT OutboxHistory
CHECK_DEADLOCK FALSE
