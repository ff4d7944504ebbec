------------------------------ MODULE Outbound ------------------------------
(***************************************************************************)
(* The way of an outgoing SMS: a caller posts it, directly or through the  *)
(* client's send API (sendapi.py); an HTTP handler thread of the server    *)
(* records and queues it (api.py _send_message, outbox.py); the modem      *)
(* worker submits it recipient by recipient and segment by segment         *)
(* (worker.py _do_send).  Answers get lost, callers give up and retry,     *)
(* commands fail or time out, the port goes away, the server restarts.     *)
(***************************************************************************)
EXTENDS Integers, FiniteSets, Sequences, Functions

CONSTANTS
    Callers,      \* one message to send each
    Recipients,   \* number of recipients of a message
    Segments,     \* number of SMS segments per recipient
    Keep,         \* Outbox.keep (500)
    ViaClient,    \* do callers post to the client, which forwards?
    MaxPosts,     \* bound: posts of all callers together
    MaxPortLosses, MaxTimeouts, MaxRestarts  \* bounds: faults

ASSUME OutboundAssumption ==
    /\ Recipients \in Nat \ {0} /\ Segments \in Nat \ {0} /\ Keep \in Nat \ {0}
    /\ ViaClient \in BOOLEAN /\ MaxPosts \in Nat
    /\ MaxPortLosses \in Nat /\ MaxTimeouts \in Nat /\ MaxRestarts \in Nat

VARIABLES
    attempts,    \* posts made by each caller
    answered,    \* callers that got the server's answer
    requests,    \* handler threads: [caller, key, at, rec]
    records,     \* Outbox._records: id -> [caller, key, state, accepted]
    idem,        \* Outbox._idem: idempotency key -> id
    next_id,     \* Outbox._next_id
    jobs,        \* ids queued for the worker
    link,        \* "up" while the worker serves the port
    sim,         \* health()["sim"] = "ready"
    current,     \* <<id, recipient, segment, its caller>> being submitted, or <<>>
    copies,      \* history: submissions of each segment the network accepted
    port_losses, timeouts, restarts

outboxVars == <<records, idem, next_id>>
callerVars == <<attempts, answered>>
faultVars == <<port_losses, timeouts, restarts>>
vars == <<callerVars, requests, outboxVars, jobs, link, sim, current, copies, faultVars>>

Units == (1 .. Recipients) \X (1 .. Segments)
Terminal == {"submitted", "failed", "submission_unknown"}
States == {"queued", "sending"} \cup Terminal
Live == DOMAIN records

Init == /\ attempts = [c \in Callers |-> 0] /\ answered = {}
        /\ requests = {} /\ records = <<>> /\ idem = <<>> /\ next_id = 1
        /\ jobs = <<>> /\ link = "up" /\ sim = TRUE /\ current = <<>>
        /\ copies = [c \in Callers |-> [u \in Units |-> 0]]
        /\ port_losses = 0 /\ timeouts = 0 /\ restarts = 0
-----------------------------------------------------------------------------
(* Callers.                                                                *)

Posts == FoldFunction(+, 0, attempts)

\* A caller posts its message, again if no answer came.  A direct caller
\* repeats its idempotency key; sendapi._forward makes a new one each time.
Post(c) ==
    /\ c \notin answered /\ Posts < MaxPosts
    /\ attempts' = [attempts EXCEPT ![c] = @ + 1]
    /\ requests' = requests \cup
          {[caller |-> c, key |-> IF ViaClient THEN <<c, attempts'[c]>> ELSE <<c, 0>>,
            try |-> attempts'[c], at |-> "check", rec |-> 0]}
    /\ UNCHANGED <<answered, outboxVars, jobs, link, sim, current, copies, faultVars>>

\* The answer reaches the caller, or is lost with the connection.
Answer(r) ==
    /\ r.at = "answer"
    /\ requests' = requests \ {r}
    /\ answered' \in {answered, answered \cup {r.caller}}
    /\ UNCHANGED <<attempts, outboxVars, jobs, link, sim, current, copies, faultVars>>
-----------------------------------------------------------------------------
(* A handler thread: api.py _send_message.                                 *)

At(r, where) == requests' = (requests \ {r}) \cup {[r EXCEPT !.at = where]}

\* Validation, rate limit and the modem's health, read once before the
\* record is made: 400, 403, 429 or 503.
Refuse(r) ==
    /\ r.at = "check"
    /\ At(r, "answer")
    /\ UNCHANGED <<callerVars, outboxVars, jobs, link, sim, current, copies, faultVars>>

Admit(r) ==
    /\ r.at = "check" /\ link = "up" /\ sim
    /\ At(r, "create")
    /\ UNCHANGED <<callerVars, outboxVars, jobs, link, sim, current, copies, faultVars>>

\* The ids that stay when the oldest records beyond Keep are evicted.
Kept(ids) == {i \in ids : Cardinality({j \in ids : j >= i}) <= Keep}

\* (Bug: an evicted record leaves its key behind.)
IndexedForever(ids, key) == DOMAIN idem \cup {key}

\* The keys that lead to the records ids, among them the new record's key.
Indexed(ids, key) == {k \in DOMAIN idem \cup {key} :
                         IF k = key THEN next_id \in ids ELSE idem[k] \in ids}

\* Outbox.create for a key it does not know: record, index, evict.
CreateNew(r) ==
    LET ids == Kept(Live \cup {next_id})
        keys == Indexed(ids, r.key)
    IN  /\ r.at = "create" /\ r.key \notin DOMAIN idem
        /\ records' = [i \in ids |-> IF i = next_id
                          THEN [caller |-> r.caller, key |-> r.key,
                                state |-> "queued", accepted |-> {}]
                          ELSE records[i]]
        /\ idem' = [k \in keys |-> IF k = r.key THEN next_id ELSE idem[k]]
        /\ next_id' = next_id + 1
        /\ requests' = (requests \ {r}) \cup
                           {[r EXCEPT !.at = "submit", !.rec = next_id]}
        /\ UNCHANGED <<callerVars, jobs, link, sim, current, copies, faultVars>>

\* Outbox.create for a known key: the original record is the answer.
CreateReplay(r) ==
    /\ r.at = "create" /\ r.key \in DOMAIN idem
    /\ At(r, "answer")
    /\ UNCHANGED <<callerVars, outboxVars, jobs, link, sim, current, copies, faultVars>>

\* worker.submit_send
SubmitJob(r) ==
    /\ r.at = "submit"
    /\ jobs' = Append(jobs, r.rec)
    /\ At(r, "answer")
    /\ UNCHANGED <<callerVars, outboxVars, link, sim, current, copies, faultVars>>

Handler(r) == Refuse(r) \/ Admit(r) \/ CreateNew(r) \/ CreateReplay(r) \/ SubmitJob(r)
-----------------------------------------------------------------------------
(* The worker: _do_send.                                                   *)

\* (Bug: only a queued record can be updated.)
SetStateOfQueued(id, state) ==
    records' = IF id \in Live /\ records[id].state = "queued"
               THEN [records EXCEPT ![id].state = state] ELSE records

\* Outbox.update; a record evicted meanwhile is ignored.
SetState(id, state) ==
    records' = IF id \in Live THEN [records EXCEPT ![id].state = state] ELSE records

\* The next job.  A record that is gone or was handled is skipped; without a
\* SIM it fails; otherwise its first segment is next.
TakeJob ==
    /\ link = "up" /\ current = <<>> /\ jobs # <<>>
    /\ jobs' = Tail(jobs)
    /\ LET id == Head(jobs)
           sendable == id \in Live /\ records[id].state = "queued"
       IN  \/ /\ ~sendable
              /\ UNCHANGED <<records, current>>
           \/ /\ sendable /\ ~sim
              /\ SetState(id, "failed") /\ UNCHANGED current
           \/ /\ sendable /\ sim
              /\ SetState(id, "sending")
              /\ current' = <<id, 1, 1, records[id].caller>>
    /\ UNCHANGED <<callerVars, requests, idem, next_id, link, sim, copies, faultVars>>

Unit == <<current[2], current[3]>>

\* (Bug: the message counts as submitted after its first recipient.)
LastOfRecipient == current[3] = Segments
LastUnit == Unit = <<Recipients, Segments>>

\* The network accepted the segment: what the history remembers.
OnAir == copies' = [copies EXCEPT ![current[4]][Unit] = @ + 1]

\* AT+CMGS answers OK: the next segment, the next recipient, or the end.
Accepted ==
    /\ current # <<>>
    /\ OnAir
    /\ LET id == current[1]
           heard == IF id \in Live THEN [records EXCEPT ![id].accepted = @ \cup {Unit}]
                    ELSE records
       IN  /\ records' = IF LastUnit /\ id \in Live
                         THEN [heard EXCEPT ![id].state = "submitted"] ELSE heard
           /\ current' = IF LastUnit THEN <<>>
                         ELSE IF current[3] < Segments
                              THEN [current EXCEPT ![3] = @ + 1]
                              ELSE [current EXCEPT ![2] = @ + 1, ![3] = 1]
    /\ UNCHANGED <<callerVars, requests, idem, next_id, jobs, link, sim, faultVars>>

\* AT+CMGS answers with an error, or the segment cannot be sent at all.
Rejected ==
    /\ current # <<>>
    /\ SetState(current[1], "failed")
    /\ current' = <<>>
    /\ UNCHANGED <<callerVars, requests, idem, next_id, jobs, link, sim, copies, faultVars>>

\* (Bugs: the message is queued again; the remaining segments are still sent.)
TimedOutRequeues ==
    /\ current # <<>> /\ timeouts < MaxTimeouts
    /\ timeouts' = timeouts + 1
    /\ SetState(current[1], "queued") /\ jobs' = Append(jobs, current[1])
    /\ OnAir \/ UNCHANGED copies
    /\ current' = <<>>
    /\ UNCHANGED <<callerVars, requests, idem, next_id, link, sim, port_losses, restarts>>
TimedOutGoesOn ==
    /\ current # <<>> /\ timeouts < MaxTimeouts
    /\ timeouts' = timeouts + 1
    /\ SetState(current[1], "submission_unknown")
    /\ UNCHANGED <<callerVars, requests, idem, next_id, jobs, link, sim, current, copies,
                   port_losses, restarts>>

\* No answer in time; the segment may be on air or not.
TimedOut ==
    /\ current # <<>> /\ timeouts < MaxTimeouts
    /\ timeouts' = timeouts + 1
    /\ SetState(current[1], "submission_unknown")
    /\ OnAir \/ UNCHANGED copies
    /\ current' = <<>>
    /\ UNCHANGED <<callerVars, requests, idem, next_id, jobs, link, sim, port_losses, restarts>>

\* The serial port fails (SerialException, an OSError): the serve loop ends.
\* In the middle of a submission nothing updates the record.
PortLost ==
    /\ link = "up" /\ port_losses < MaxPortLosses
    /\ port_losses' = port_losses + 1
    /\ link' = "down" /\ current' = <<>>
    /\ UNCHANGED copies \/ (current # <<>> /\ OnAir)
    /\ UNCHANGED <<callerVars, requests, outboxVars, jobs, sim, timeouts, restarts>>

\* The connect cycle; the SIM may be locked or missing now.
Reconnect ==
    /\ link = "down"
    /\ link' = "up" /\ sim' \in BOOLEAN
    /\ UNCHANGED <<callerVars, requests, outboxVars, jobs, current, copies, faultVars>>

\* The server restarts: outbox, idempotency keys and jobs are in memory, and
\* every open request breaks off.
Restart ==
    /\ restarts < MaxRestarts /\ restarts' = restarts + 1
    /\ requests' = {} /\ records' = <<>> /\ idem' = <<>> /\ next_id' = 1
    /\ jobs' = <<>> /\ link' = "down" /\ current' = <<>>
    /\ UNCHANGED <<callerVars, sim, copies, port_losses, timeouts>>

Worker == TakeJob \/ Accepted \/ Rejected \/ TimedOut

Next == \/ \E c \in Callers : Post(c)
        \/ \E r \in requests : Handler(r) \/ Answer(r)
        \/ Worker \/ PortLost \/ Reconnect \/ Restart

Spec == Init /\ [][Next]_vars

\* Handler threads run, the worker serves its queue and reconnects.
FairSpec == /\ Spec
            /\ WF_vars(\E r \in requests : Handler(r))
            /\ WF_vars(Worker) /\ WF_vars(Reconnect)
-----------------------------------------------------------------------------
\* Handlers, records and jobs are well formed; the outbox keeps its bound.
TypeOK ==
    /\ \A r \in requests : r.caller \in Callers /\ r.at \in {"check", "create", "submit", "answer"}
    /\ Live \subseteq 1 .. next_id - 1 /\ Cardinality(Live) <= Keep
    /\ \A i \in Live : records[i].state \in States /\ records[i].accepted \subseteq Units
    /\ \A k \in DOMAIN jobs : jobs[k] \in 1 .. next_id - 1
    /\ link \in {"up", "down"} /\ sim \in BOOLEAN
    /\ current # <<>> => current[1] \in 1 .. next_id - 1 /\ Unit \in Units

\* A key leads to a record that exists and was made for it, and a record
\* made with a key is found under it: neither eviction nor concurrent posts
\* leave a dangling or a doubled key (outbox.py:24-25, 41-44).
IdempotencyIndex ==
    /\ \A k \in DOMAIN idem : idem[k] \in Live /\ records[idem[k]].key = k
    /\ \A i \in Live : records[i].key \in DOMAIN idem /\ idem[records[i].key] = i

\* What a record's state says of the network: submitted means every segment
\* to every recipient was accepted, queued that none was, and only the record
\* being worked on, or one a lost port left behind, is sending.
StateIsTruthful ==
    \A i \in Live :
        /\ records[i].state = "submitted" => records[i].accepted = Units
        /\ records[i].state = "queued" => records[i].accepted = {}
        /\ records[i].state = "sending" =>
              port_losses > 0 \/ (current # <<>> /\ current[1] = i)

\* No idempotency key was lost with the process or with an evicted record.
KeysKept == restarts = 0 /\ next_id - 1 <= Keep

\* A caller that posts again after an ambiguous failure does not send its
\* message twice, as long as its key is in memory (PLAN.md:276-278).
RetryIsSafe == KeysKept => \A c \in Callers, u \in Units : copies[c][u] <= 1

\* A final state is final: nothing is ever retried (outbox.py:4).
FinalStaysFinal ==
    [][restarts' = restarts =>
         \A i \in Live \cap DOMAIN records' :
             records[i].state \in Terminal => records'[i] = records[i]]_vars

\* Is the record final, or gone by eviction or a restart?
RecordIds == 1 .. MaxPosts
Settled(i) == i \in Live => records[i].state \in Terminal

\* A recorded message gets a final state (outbox.py:3), unless it is evicted
\* or the server restarts.  A serial failure breaks this.
Settles == \A i \in RecordIds : ~Settled(i) ~> Settled(i)

\* What holds: the same of a server whose serial port never failed.
SettlesWhilePortLasts == \A i \in RecordIds : ~Settled(i) ~> Settled(i) \/ port_losses > 0
=============================================================================
