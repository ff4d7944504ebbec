SPECIFICATION Spec
CONSTANTS
    r1 = r1
    r2 = r2
    r3 = r3
    r4 = r4
    Requests = {r1, r2, r3, r4}
    p = p
    q = q
    Pins = {p, q}
    MaxTries = 1
    CardTries = 3
    MaxReplugs = 1
    MaxTimeouts = 1
    MaxRestarts = 1
    MaxErrors = 1
SYMMETRY Symmetry
INVARIANT AttemptCaps
INVARIANT OnePerCall
INVARIANT SentOnlyWhenAsked
INVARIANT HealthIsCurrent
INVARIANT ConfiguredPinUnlocks
CHECK_DEADLOCK FALSE
