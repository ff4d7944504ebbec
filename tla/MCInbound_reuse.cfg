SPECIFICATION Spec
CONSTANTS
    a = a
    b = b
    Msgs = {a, b}
    Slots <- ThreeSlots
    AllParts <- ThreeParts
    Configs <- NoFaults
INVARIANT NothingLost
CHECK_DEADLOCK FALSE
