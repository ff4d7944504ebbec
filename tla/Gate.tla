-------------------------------- MODULE Gate --------------------------------
(***************************************************************************)
(* Who gets in: authorisation with the backoff after failed logins, and    *)
(* the rate limit for sending (auth.py, api.py _authorize and _any_scope). *)
(*                                                                         *)
(* Every request has a handler thread of its own.  The backoff table and   *)
(* the window of charged segments each have a lock, which is held for one  *)
(* look-up or change only: between the question whether an address is      *)
(* blocked, the evaluation of the credential (a slow key derivation) and   *)
(* the entry of its result, and between the reading of the clock and the   *)
(* charge, other handlers run and time passes.                             *)
(***************************************************************************)
EXTENDS Integers, FiniteSets

CONSTANTS
    Handlers,     \* places for requests that are under way
    Ips,          \* addresses requests come from
    Credentials,  \* what Authorization headers hold
    ScopeOf,      \* scope of the principal a credential belongs to, or "none"
    Free,         \* failures without a delay (2)
    Cap,          \* longest delay (300 s)
    MaxIps,       \* addresses the table holds (10000)
    Limit,        \* segments per window, 0: no limit
    Window,       \* length of the window
    Delay,        \* longest time between reading the clock and the lock
    Segments,     \* numbers of segments of a message
    MaxTime,      \* bound: ticks of the clock
    MaxRequests   \* bound: requests

ASSUME GateAssumption ==
    /\ IsFiniteSet(Handlers) /\ Handlers # {} /\ IsFiniteSet(Segments)
    /\ ScopeOf \in [Credentials -> {"send", "receive", "all", "none"}]
    /\ Free \in Nat /\ Cap \in Nat /\ MaxIps \in Nat
    /\ Limit \in Nat /\ Window \in Nat /\ Delay \in Nat /\ Segments \subseteq Nat
    /\ MaxTime \in Nat /\ MaxRequests \in Nat

VARIABLES
    now,       \* time.monotonic()
    table,     \* Backoff._state: address -> [count, until]
    events,    \* RateLimit._events: how many have a timestamp
    stage,     \* program point of a handler
    req,       \* its request: address, credential, need, segments
    stamp,     \* the clock it read for the rate limit
    requests,
    admitted,  \* history: segments charged at a time
    early      \* history: evaluations during the current block of an address

gateVars == <<now, table, events, stage, req, stamp, requests, admitted, early>>

Times == 0 .. MaxTime
Asks == [ip : Ips, cred : Credentials, need : {"send", "receive", "any"}, segments : Segments]
NoRequest == [ip |-> "", cred |-> "", need |-> "", segments |-> 0]

GateInit ==
    /\ now = 0 /\ table = [i \in {} |-> 0] /\ events = [t \in Times |-> 0]
    /\ stage = [h \in Handlers |-> "idle"] /\ req = [h \in Handlers |-> NoRequest]
    /\ stamp = [h \in Handlers |-> 0] /\ requests = 0
    /\ admitted = [t \in Times |-> 0] /\ early = [i \in Ips |-> 0]

\* Time passes, except that a thread takes the lock within Delay of the clock.
Tick ==
    /\ now < MaxTime /\ now' = now + 1
    /\ \A h \in Handlers : stage[h] = "charge" => now' <= stamp[h] + Delay
    /\ UNCHANGED <<table, events, stage, req, stamp, requests, admitted, early>>

Goto(h, point) == stage' = [stage EXCEPT ![h] = point]
\* The answer is sent; the handler's place is free again.
Respond(h) ==
    /\ Goto(h, "idle")
    /\ req' = [req EXCEPT ![h] = NoRequest] /\ stamp' = [stamp EXCEPT ![h] = 0]

\* do_GET and do_POST.  GET /v1/health and the web UI need any scope.
Begin(h, r) ==
    /\ requests < MaxRequests /\ requests' = requests + 1
    /\ stage[h] = "idle"
    /\ req' = [req EXCEPT ![h] = r]
    /\ Goto(h, IF r.need = "any" THEN "anyAsk" ELSE "ask")
    /\ UNCHANGED <<now, table, events, stamp, admitted, early>>

Until(ip) == IF ip \in DOMAIN table THEN table[ip].until ELSE 0
blocked_for(ip) == IF Until(ip) > now THEN Until(ip) - now ELSE 0
CountOf(ip) == IF ip \in DOMAIN table THEN table[ip].count ELSE 0

\* (Bug: any credential is evaluated before the backoff is asked.)
AnyAskNobody(h) ==
    /\ stage[h] = "anyAsk" /\ Goto(h, "anyCheck")
    /\ UNCHANGED <<now, table, events, req, stamp, requests, admitted, early>>

\* _any_scope asks the backoff by itself, and leaves the answer of an error
\* to _authorize, which does it all once more, for the scope "receive".
AnyAsk(h) ==
    /\ stage[h] = "anyAsk"
    /\ Goto(h, IF blocked_for(req[h].ip) > 0 THEN "ask" ELSE "anyCheck")
    /\ req' = IF blocked_for(req[h].ip) > 0 THEN [req EXCEPT ![h].need = "receive"] ELSE req
    /\ UNCHANGED <<now, table, events, stamp, requests, admitted, early>>

\* _authorize
Ask(h) ==
    /\ stage[h] = "ask"
    /\ IF blocked_for(req[h].ip) > 0 THEN Respond(h) ELSE Goto(h, "check") /\ UNCHANGED <<req, stamp>>
    /\ UNCHANGED <<now, table, events, requests, admitted, early>>

\* Auth.check.  A verdict is cached only when it is positive.
Identified(h) == ScopeOf[req[h].cred] # "none"
Evaluated(h) ==
    early' = [early EXCEPT ![req[h].ip] = @ + IF blocked_for(req[h].ip) > 0 THEN 1 ELSE 0]

AnyCheck(h) ==
    /\ stage[h] = "anyCheck" /\ Evaluated(h)
    /\ Goto(h, IF Identified(h) THEN "anyOk" ELSE "ask")
    /\ req' = IF Identified(h) THEN req ELSE [req EXCEPT ![h].need = "receive"]
    /\ UNCHANGED <<now, table, events, stamp, requests, admitted>>

Check(h) ==
    /\ stage[h] = "check" /\ Evaluated(h)
    /\ Goto(h, IF Identified(h) THEN "ok" ELSE "fail")
    /\ UNCHANGED <<now, table, events, req, stamp, requests, admitted>>

DelayAfter(count) ==
    IF count <= Free THEN 0 ELSE IF 2 ^ (count - Free) > Cap THEN Cap ELSE 2 ^ (count - Free)

\* Backoff.fail: the delay counts from the failure, and a table that is full
\* is cleared as a whole.
Fail(h) ==
    LET ip    == req[h].ip
        entry == [count |-> CountOf(ip) + 1, until |-> now + DelayAfter(CountOf(ip) + 1)]
        kept  == [i \in DOMAIN table \union {ip} |-> IF i = ip THEN entry ELSE table[i]]
    IN  /\ stage[h] = "fail"
        /\ table' = IF Cardinality(DOMAIN kept) > MaxIps THEN [i \in {} |-> 0] ELSE kept
        /\ early' = IF blocked_for(ip) = 0 THEN [early EXCEPT ![ip] = 0] ELSE early
        /\ Respond(h)
        /\ UNCHANGED <<now, events, requests, admitted>>

\* Backoff.ok, then Auth.allows.  A message goes on to the rate limit.
Forget(ip) == table' = [i \in DOMAIN table \ {ip} |-> table[i]]
allows(scope, need) == scope = "all" \/ scope = need

AnyOk(h) ==
    /\ stage[h] = "anyOk" /\ Forget(req[h].ip) /\ Respond(h)
    /\ UNCHANGED <<now, events, requests, admitted, early>>

Ok(h) ==
    /\ stage[h] = "ok" /\ Forget(req[h].ip)
    /\ IF allows(ScopeOf[req[h].cred], req[h].need) /\ req[h].segments > 0
       THEN Goto(h, "clock") /\ UNCHANGED <<req, stamp>>
       ELSE Respond(h)
    /\ UNCHANGED <<now, events, requests, admitted, early>>

\* RateLimit.allow reads the clock before it has the lock ...
ReadClock(h) ==
    /\ stage[h] = "clock" /\ Limit > 0
    /\ stamp' = [stamp EXCEPT ![h] = now]
    /\ Goto(h, "charge")
    /\ UNCHANGED <<now, table, events, req, requests, admitted, early>>

\* The timestamps of S, each with a number, and how many there are.
Stamps(f, S) == UNION {{t} \X (1 .. f[t]) : t \in S}
Sum(f, S) == Cardinality(Stamps(f, S))
\* ... drops the timestamps that are too old for that clock ...
Recent(h) == [t \in Times |-> IF stamp[h] - t < Window THEN events[t] ELSE 0]
\* (Bug: the charge is checked as if every message were one segment.)
FitsAsOne(h) == Sum(Recent(h), Times) + 1 <= Limit

\* ... and charges all segments of the message or none.
Fits(h) == Sum(Recent(h), Times) + req[h].segments <= Limit
Charge(h) ==
    /\ stage[h] = "charge"
    /\ events' = IF Fits(h) THEN [Recent(h) EXCEPT ![stamp[h]] = @ + req[h].segments] ELSE Recent(h)
    /\ admitted' = IF Fits(h) THEN [admitted EXCEPT ![now] = @ + req[h].segments] ELSE admitted
    /\ Respond(h)
    /\ UNCHANGED <<now, table, requests, early>>

\* The limit is off.
Unlimited(h) ==
    /\ stage[h] = "clock" /\ Limit = 0 /\ Respond(h)
    /\ UNCHANGED <<now, table, events, requests, admitted, early>>

Handle(h) == \/ AnyAsk(h) \/ AnyCheck(h) \/ AnyOk(h) \/ Ask(h) \/ Check(h) \/ Fail(h)
             \/ Ok(h) \/ ReadClock(h) \/ Charge(h) \/ Unlimited(h)
-----------------------------------------------------------------------------
\* "Sliding-window rate limit" (auth.py:182): however handlers overtake each
\* other between clock and lock, no more than Limit segments are admitted
\* within Window - Delay of real time.  (Within Window itself more may be.)
RateBound ==
    Limit > 0 => \A t \in Times :
        Sum(admitted, {u \in Times : t <= u /\ u < t + Window - Delay}) <= Limit

\* "The backoff must be consulted BEFORE the credential is evaluated"
\* (api.py:238): from the failure that blocks an address until the block is
\* over, each other handler evaluates at most the one credential it was let
\* through with before.
GuessesWhileBlocked ==
    \A ip \in Ips : blocked_for(ip) > 0 => early[ip] < Cardinality(Handlers)
=============================================================================
