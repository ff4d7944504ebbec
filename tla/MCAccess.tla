------------------------------ MODULE MCAccess ------------------------------
EXTENDS Access, TLC
CONSTANTS relay, sender, other

Asking(ip, cred, need, segments) == [ip |-> ip, cred |-> cred, need |-> need, segments |-> segments]
Scopes == [token |-> "all", wrong |-> "none"]
Wanted == relay :> {Asking("lan", "wrong", "receive", 0)}
          @@ sender :> {Asking("lan", "token", "send", 2)}
Elsewhere == {Asking("lan", "wrong", "any", 0), Asking("wan", "wrong", "send", 1), Asking("lan", "token", "send", 1)}
Bounds(pinned, faults, messages, time) ==
    [pinned |-> pinned, crashes |-> faults, rotations |-> faults, requests |-> messages, time |-> time]
All == {Bounds(FALSE, 1, 1, 0), Bounds(TRUE, 0, 4, 4)}
=============================================================================
