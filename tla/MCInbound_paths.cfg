SPECIFICATION FairSpec
CONSTANTS
    a = a
    b = b
    Msgs = {a, b}
    Slots <- TwoSlots
    AllParts <- ThreeParts
    Configs <- All
INVARIANT LossIsASaveFailure
INVARIANT DirectIsHeld
PROPERTY StoredIsDelivered
PROPERTY DrainsWithoutFaults
CHECK_DEADLOCK FALSE
