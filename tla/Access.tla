------------------------------- MODULE Access -------------------------------
(***************************************************************************)
(* A client and a server from the first byte to the admitted request: the  *)
(* client's threads verify the certificate (module Tofu), and only then    *)
(* send a request, which the server's handler authorises (module Gate).    *)
(* Other programs use the server too, from the same address or another.    *)
(***************************************************************************)
EXTENDS Tofu, Gate

CONSTANTS
    Requests,  \* what client threads ask for: [Threads -> set of requests]
    Patient,   \* threads that connect again and again by themselves: the relay
    Others,    \* handlers of other programs' requests
    Foreign,   \* what they ask for
    Scenarios  \* bounds: what may happen together in one behaviour

ASSUME AccessAssumption ==
    /\ Handlers = Threads \union Others /\ Threads \intersect Others = {}
    /\ Patient \subseteq Threads
    /\ Requests \in [Threads -> SUBSET Asks] /\ Foreign \subseteq Asks
    /\ Scenarios \subseteq [pinned : BOOLEAN, crashes : 0 .. MaxCrashes, rotations : 0 .. MaxRotations,
                            requests : 0 .. MaxRequests, time : 0 .. MaxTime]

VARIABLE scenario

vars == <<scenario, cert, pin, tmp, content, conn, fp, fd, crashes, rotations,
          now, table, events, stage, req, stamp, requests, admitted, early>>

Init ==
    /\ scenario \in Scenarios
    /\ TofuInit /\ GateInit
    /\ scenario.pinned <=> pin # 0

Within ==
    /\ crashes' <= scenario.crashes /\ rotations' <= scenario.rotations
    /\ requests' <= scenario.requests /\ now' <= scenario.time
    /\ UNCHANGED scenario

\* run_inbound and _forward: a request on a connection that is verified.
Request(t) ==
    /\ conn[t] = "open" /\ At(t, "busy")
    /\ \E r \in Requests[t] : Begin(t, r)
    /\ UNCHANGED <<cert, pin, tmp, content, fp, fd, crashes, rotations>>

\* The answer came; the connection is closed.
Close(t) ==
    /\ conn[t] = "busy" /\ stage[t] = "idle" /\ At(t, "closed")
    /\ UNCHANGED <<cert, pin, tmp, content, fp, fd, crashes, rotations>>
    /\ UNCHANGED gateVars

OtherRequest(o) == \E r \in Foreign : Begin(o, r) /\ UNCHANGED tofuVars

Next ==
    /\ \/ \E t \in Threads : Connect(t) /\ UNCHANGED gateVars
       \/ (Crash \/ Rotate) /\ UNCHANGED gateVars
       \/ \E t \in Threads : Request(t) \/ Close(t)
       \/ \E o \in Others : OtherRequest(o)
       \/ \E h \in Handlers : Handle(h) /\ UNCHANGED tofuVars
       \/ Tick /\ UNCHANGED tofuVars
    /\ Within

Spec == Init /\ [][Next]_vars

\* The relay goes on and tries again, whatever happens (relay.py:137); the
\* send API connects when somebody posts, and may stop anywhere.
Fairness == \A t \in Patient : WF_vars(Connect(t) /\ UNCHANGED gateVars /\ Within)
FairSpec == Spec /\ Fairness
-----------------------------------------------------------------------------
\* Trust on first use gets there: with an unchanged certificate the relay
\* ends up with a verified connection, although another thread moves its
\* temporary file away, or is stuck or dead and left an empty pin file.
FirstUseConnects ==
    \A t \in Patient :
        (conn[t] = "closed" /\ rotations = 0) ~> (conn[t] = "open" \/ rotations > 0)
=============================================================================
