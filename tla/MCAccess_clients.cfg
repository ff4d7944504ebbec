SPECIFICATION FairSpec
CONSTANTS
    relay = relay
    sender = sender
    other = other
    Threads = {relay, sender}
    Patient = {relay}
    Others = {other}
    Handlers = {relay, sender, other}
    Fingerprints = {"x", "y"}
    MaxCrashes = 1
    MaxRotations = 1
    Ips = {"lan", "wan"}
    Credentials = {"token", "wrong"}
    ScopeOf <- Scopes
    Requests <- Wanted
    Foreign <- Elsewhere
    Scenarios <- All
    Free = 0
    Cap = 3
    MaxIps = 1
    Limit = 2
    Window = 3
    Delay = 1
    Segments = {0, 1, 2}
    MaxTime = 4
    MaxRequests = 4
INVARIANT RateBound
INVARIANT GuessesWhileBlocked
INVARIANT NoFalseAlarm
PROPERTY FirstUseConnects
CHECK_DEADLOCK FALSE
