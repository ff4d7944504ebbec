-------------------------------- MODULE Hub --------------------------------
(***************************************************************************)
(* The broadcast hub (hub.py) together with the threads that use it: the   *)
(* modem worker, which publishes messages and broadcasts health changes,   *)
(* and one HTTP handler thread per SSE connection (api.py _subscribe).     *)
(*                                                                         *)
(* hub._lock makes each critical section one step; what runs outside the   *)
(* lock (the fan-out of publish and broadcast, Subscriber.offer, the       *)
(* socket write, the confirmation, the clean-up of a lost connection) is   *)
(* split into a step for each access to shared state.  A message is        *)
(* identified by its id within the current stream.                         *)
(***************************************************************************)
EXTENDS Integers, FiniteSets, Sequences, Functions

CONSTANTS
    Subs,            \* SSE connections, one handler thread each
    RingSize,        \* GTG_RING_SIZE
    QueueMax,        \* size of a Subscriber's queue (500 in hub.py)
    MaxSubscribers,  \* GTG_MAX_SUBSCRIBERS
    MaxReplay,       \* FileStore.MAX_REPLAY
    Store,           \* is a file store configured?
    MaxId,           \* bound: messages published per stream
    MaxStreams,      \* bound: process lifetimes
    MaxHealth,       \* bound: health events broadcast
    MaxLosses        \* bound: connections lost

ASSUME HubAssumption ==
    /\ IsFiniteSet(Subs)
    /\ RingSize \in Nat \ {0} /\ QueueMax \in Nat \ {0}
    /\ MaxSubscribers \in Nat /\ MaxReplay \in Nat
    /\ Store \in BOOLEAN
    /\ MaxId \in Nat /\ MaxStreams \in Nat \ {0}
    /\ MaxHealth \in Nat /\ MaxLosses \in Nat

VARIABLES
    stream,            \* which stream_id the hub has
    next_id,           \* Hub.next_id (durable when Store)
    ring,              \* Hub.ring: ids of the last messages
    pending,           \* Hub.pending: ids nobody was sent yet
    subs,              \* Hub.subs: connections whose Subscriber is registered
    delete_jobs,       \* on_deliverable calls, in order
    event,             \* the event the worker is fanning out
    todo,              \* its snapshot of subs, less those already offered
    stage,             \* where in Subscriber.offer the worker stands
    target,            \* {the connection being offered} inside a full offer
    queue,             \* Subscriber.queue of each connection
    gapped,            \* Subscriber.gapped
    pc,                \* program point of the handler thread
    hand,              \* <<event taken from the queue, not yet written>>
    subscriber_count,  \* ApiState.subscriber_count
    delivered,         \* history: ids written to some socket in this stream
    got,               \* history: messages and gaps written to this connection
    base,              \* history: ids up to here are not owed to the session
    healths, losses    \* how much of MaxHealth and MaxLosses is used

hubVars == <<stream, next_id, ring, pending, subs, delete_jobs>>
workerVars == <<event, todo, stage, target, healths>>
sessionVars == <<queue, gapped, pc, hand, subscriber_count, losses>>
historyVars == <<delivered, got, base>>
vars == <<hubVars, workerVars, sessionVars, historyVars>>

Ids == 1 .. next_id - 1           \* the ids assigned in this stream
Message(id) == [kind |-> "message", id |-> id]
Gap == [kind |-> "gap", id |-> 0]
Health == [kind |-> "health", id |-> 0]
Event == [kind : {"message"}, id : Ids] \cup {Gap, Health}

PCs == {"closed", "admitted", "waiting", "writing", "confirming",
        "closing", "leaving"}
Full(s) == Len(queue[s]) = QueueMax

Init == /\ stream = 1 /\ next_id = 1 /\ ring = <<>> /\ pending = {}
        /\ subs = {} /\ delete_jobs = <<>>
        /\ event = Health /\ todo = {} /\ stage = "offer" /\ target = {}
        /\ queue = [s \in Subs |-> <<>>]
        /\ gapped = [s \in Subs |-> FALSE]
        /\ pc = [s \in Subs |-> "closed"]
        /\ hand = [s \in Subs |-> <<>>]
        /\ subscriber_count = 0
        /\ delivered = {}
        /\ got = [s \in Subs |-> <<>>]
        /\ base = [s \in Subs |-> 0]
        /\ healths = 0 /\ losses = 0
-----------------------------------------------------------------------------
(* The worker thread.  It serves one event at a time: the next publish or  *)
(* broadcast starts when the last fan-out is over (todo = {}).             *)

\* (Bug: a ring without maxlen.)
PushUnbounded(r, id) == Append(r, id)

\* deque(maxlen=RingSize).append
Push(r, id) == LET longer == Append(r, id)
               IN  IF Len(longer) > RingSize THEN Tail(longer) ELSE longer

\* hub.publish up to the release of the lock.  With a store, the message is
\* saved instead of being pending (a failing disk is not modelled here).
Publish ==
    /\ todo = {}
    /\ next_id <= MaxId
    /\ next_id' = next_id + 1
    /\ pending' = IF Store THEN pending ELSE pending \cup {next_id}
    /\ ring' = Push(ring, next_id)
    /\ event' = Message(next_id)
    /\ todo' = subs
    /\ UNCHANGED <<stream, subs, delete_jobs, stage, target, healths,
                   sessionVars, historyVars>>

\* hub.broadcast of a health change (worker._set_health).
Broadcast ==
    /\ todo = {}
    /\ healths < MaxHealth
    /\ healths' = healths + 1
    /\ event' = Health
    /\ todo' = subs
    /\ UNCHANGED <<hubVars, stage, target, sessionVars, historyVars>>

\* Subscriber.offer: put_nowait succeeds.
OfferPut(s) ==
    /\ stage = "offer" /\ s \in todo
    /\ ~Full(s)
    /\ queue' = [queue EXCEPT ![s] = Append(@, event)]
    /\ todo' = todo \ {s}
    /\ UNCHANGED <<hubVars, event, stage, target, healths, gapped, pc, hand,
                   subscriber_count, losses, historyVars>>

\* Subscriber.offer: the queue is full and the session was gapped before.
OfferDiscard(s) ==
    /\ stage = "offer" /\ s \in todo
    /\ Full(s) /\ gapped[s]
    /\ todo' = todo \ {s}
    /\ UNCHANGED <<hubVars, event, stage, target, healths, sessionVars,
                   historyVars>>

\* Subscriber.offer: the queue is full for the first time ...
OfferGap(s) ==
    /\ stage = "offer" /\ s \in todo
    /\ Full(s) /\ ~gapped[s]
    /\ gapped' = [gapped EXCEPT ![s] = TRUE]
    /\ stage' = "drop" /\ target' = {s}
    /\ UNCHANGED <<hubVars, event, todo, healths, queue, pc, hand,
                   subscriber_count, losses, historyVars>>

\* ... get_nowait drops the oldest item, unless the handler emptied the
\* queue meanwhile ...
OfferDrop(s) ==
    /\ stage = "drop" /\ s \in target
    /\ queue' = [queue EXCEPT ![s] = IF @ = <<>> THEN @ ELSE Tail(@)]
    /\ stage' = "mark"
    /\ UNCHANGED <<hubVars, event, todo, target, healths, gapped, pc, hand,
                   subscriber_count, losses, historyVars>>

\* (Bug: nothing takes the place of the dropped item and the event.)
OfferUnmarked(s) ==
    /\ stage = "mark" /\ s \in target
    /\ stage' = "offer" /\ target' = {}
    /\ todo' = todo \ {s}
    /\ UNCHANGED <<hubVars, event, healths, queue, gapped, pc, hand,
                   subscriber_count, losses, historyVars>>

\* ... and the gap marker is queued in the event's place.
OfferMark(s) ==
    /\ stage = "mark" /\ s \in target
    /\ queue' = [queue EXCEPT ![s] = IF Full(s) THEN @ ELSE Append(@, Gap)]
    /\ stage' = "offer" /\ target' = {}
    /\ todo' = todo \ {s}
    /\ UNCHANGED <<hubVars, event, healths, gapped, pc, hand,
                   subscriber_count, losses, historyVars>>

Offer(s) == OfferPut(s) \/ OfferDiscard(s) \/ OfferGap(s) \/ OfferDrop(s)
            \/ OfferMark(s)
-----------------------------------------------------------------------------
(* A handler thread: api.py _subscribe.                                    *)

\* (Bug: the handler counts itself without testing the limit.)
AdmitUnlimited(s) ==
    /\ pc[s] = "closed"
    /\ subscriber_count' = subscriber_count + 1
    /\ pc' = [pc EXCEPT ![s] = "admitted"]
    /\ UNCHANGED <<hubVars, workerVars, queue, gapped, hand, losses,
                   historyVars>>

\* The subscriber limit is tested and counted under sub_lock.
Admit(s) ==
    /\ pc[s] = "closed"
    /\ subscriber_count < MaxSubscribers
    /\ subscriber_count' = subscriber_count + 1
    /\ pc' = [pc EXCEPT ![s] = "admitted"]
    /\ UNCHANGED <<hubVars, workerVars, queue, gapped, hand, losses,
                   historyVars>>

\* (Bug: the message next to the cursor is taken for the last one seen.)
FromStoreSkipsFirst(after) ==
    {i \in Ids : i > after + 1 /\ \A j \in Range(ring) : i < j}

\* replay_after(after, oldest_ring): the last MaxReplay of the stored
\* messages between the cursor and the ring.
FromStore(after) ==
    LET older == {i \in Ids : i > after /\ \A j \in Range(ring) : i < j}
    IN  {i \in older : Cardinality({j \in older : j >= i}) <= MaxReplay}

Replay(after) == {i \in Range(ring) : i > after}
                 \cup (IF Store THEN FromStore(after) ELSE {})

\* (Bug: ring, store and pending messages are not sorted together.)
AnyOrder(S) == {q \in [1 .. Cardinality(S) -> S] :
                   \A i, j \in DOMAIN q : i # j => q[i] # q[j]}

\* The ids of S in ascending order (replay.sort); one sequence.
Ascending(S) == {q \in [1 .. Cardinality(S) -> S] :
                    \A i, j \in DOMAIN q : i < j => q[i] < q[j]}

\* Offering the messages of q to a fresh Subscriber nobody reads yet: the
\* first that does not fit takes the oldest with it and leaves a gap, the
\* ones after it are discarded.
Enqueued(q) == LET messages == [i \in DOMAIN q |-> Message(q[i])]
               IN  IF Len(q) <= QueueMax THEN messages
                   ELSE Append(SubSeq(messages, 2, QueueMax), Gap)

\* hub.subscribe, one critical section.  The client resumes stream str
\* after id `after`; str = 0 stands for no cursor.
Subscribe(s, str, after) ==
    LET valid == str = stream /\ after < next_id
        replay == pending \cup (IF valid THEN Replay(after) ELSE {})
    IN  /\ pc[s] = "admitted"
        /\ \E q \in Ascending(replay) :
              /\ queue' = [queue EXCEPT ![s] = Enqueued(q)]
              /\ gapped' = [gapped EXCEPT ![s] = Len(q) > QueueMax]
        /\ subs' = subs \cup {s}
        /\ pc' = [pc EXCEPT ![s] = "waiting"]
        /\ got' = [got EXCEPT ![s] = <<>>]
        /\ base' = [base EXCEPT ![s] =
                      IF ~valid THEN next_id - 1
                      ELSE IF Store \/ ring = <<>> \/ after >= ring[1] THEN after
                      ELSE ring[1] - 1]
        /\ UNCHANGED <<stream, next_id, ring, pending, delete_jobs, workerVars,
                       hand, subscriber_count, losses, delivered>>

\* (Bug: the message counts as delivered before it is written.)
TakeConfirming(s) ==
    /\ pc[s] = "waiting"
    /\ queue[s] # <<>>
    /\ hand' = [hand EXCEPT ![s] = <<Head(queue[s])>>]
    /\ queue' = [queue EXCEPT ![s] = Tail(@)]
    /\ pc' = [pc EXCEPT ![s] = "writing"]
    /\ pending' = pending \ {Head(queue[s]).id}
    /\ UNCHANGED <<stream, next_id, ring, subs, delete_jobs, workerVars, gapped,
                   subscriber_count, losses, historyVars>>

\* sub.queue.get
Take(s) ==
    /\ pc[s] = "waiting"
    /\ queue[s] # <<>>
    /\ hand' = [hand EXCEPT ![s] = <<Head(queue[s])>>]
    /\ queue' = [queue EXCEPT ![s] = Tail(@)]
    /\ pc' = [pc EXCEPT ![s] = "writing"]
    /\ UNCHANGED <<hubVars, workerVars, gapped, subscriber_count, losses,
                   historyVars>>

\* _sse_write returns.  A message is confirmed next; the session's history
\* leaves health events out.
WriteOk(s) ==
    /\ pc[s] = "writing"
    /\ LET e == hand[s][1]
       IN  /\ pc' = [pc EXCEPT ![s] = IF e.kind = "message" THEN "confirming"
                                      ELSE "waiting"]
           /\ delivered' = IF e.kind = "message" THEN delivered \cup {e.id}
                           ELSE delivered
           /\ got' = [got EXCEPT ![s] = IF e.kind = "health" THEN @
                                        ELSE Append(@, e)]
    /\ hand' = [hand EXCEPT ![s] = <<>>]
    /\ UNCHANGED <<hubVars, workerVars, queue, gapped, subscriber_count, losses,
                   base>>

\* (Bug: every handler that wrote the message has its slots deleted.)
ConfirmAlways(s) ==
    /\ pc[s] = "confirming"
    /\ LET id == got[s][Len(got[s])].id
       IN  /\ pending' = pending \ {id}
           /\ delete_jobs' = Append(delete_jobs, id)
    /\ pc' = [pc EXCEPT ![s] = "waiting"]
    /\ UNCHANGED <<stream, next_id, ring, subs, workerVars, queue, gapped, hand,
                   subscriber_count, losses, historyVars>>

\* hub.confirm_delivered of the message just written; popping it from
\* pending decides who calls on_deliverable.
Confirm(s) ==
    /\ pc[s] = "confirming"
    /\ LET id == got[s][Len(got[s])].id
       IN  /\ pending' = pending \ {id}
           /\ delete_jobs' = IF id \in pending THEN Append(delete_jobs, id)
                             ELSE delete_jobs
    /\ pc' = [pc EXCEPT ![s] = "waiting"]
    /\ UNCHANGED <<stream, next_id, ring, subs, workerVars, queue, gapped, hand,
                   subscriber_count, losses, historyVars>>

\* A write (hello, heartbeat or event) fails.
ConnectionLost(s) ==
    /\ pc[s] \in {"waiting", "writing"}
    /\ losses < MaxLosses
    /\ losses' = losses + 1
    /\ hand' = [hand EXCEPT ![s] = <<>>]
    /\ pc' = [pc EXCEPT ![s] = "closing"]
    /\ UNCHANGED <<hubVars, workerVars, queue, gapped, subscriber_count,
                   historyVars>>

\* finally: hub.unsubscribe.  The worker may go on offering its event to the
\* Subscriber object, which nobody will read again, so s leaves todo here.
Unsubscribe(s) ==
    /\ pc[s] = "closing"
    /\ subs' = subs \ {s}
    /\ todo' = todo \ {s}
    /\ target' = target \ {s}
    /\ stage' = IF s \in target THEN "offer" ELSE stage
    /\ queue' = [queue EXCEPT ![s] = <<>>]
    /\ gapped' = [gapped EXCEPT ![s] = FALSE]
    /\ pc' = [pc EXCEPT ![s] = "leaving"]
    /\ got' = [got EXCEPT ![s] = <<>>]
    /\ base' = [base EXCEPT ![s] = 0]
    /\ UNCHANGED <<stream, next_id, ring, pending, delete_jobs, event, healths,
                   hand, subscriber_count, losses, delivered>>

\* finally: subscriber_count -= 1
Leave(s) ==
    /\ pc[s] = "leaving"
    /\ subscriber_count' = subscriber_count - 1
    /\ pc' = [pc EXCEPT ![s] = "closed"]
    /\ UNCHANGED <<hubVars, workerVars, queue, gapped, hand, losses,
                   historyVars>>
-----------------------------------------------------------------------------
\* The process ends and a new one starts.  With a store the stream and the
\* id counter come from stream.json; without one the stream is a new one.
Restart ==
    /\ stream < MaxStreams
    /\ stream' = IF Store THEN stream ELSE stream + 1
    /\ losses < MaxLosses /\ losses' = losses + 1
    /\ next_id' = IF Store THEN next_id ELSE 1
    /\ delivered' = IF Store THEN delivered ELSE {}
    /\ ring' = <<>> /\ pending' = {} /\ subs' = {} /\ delete_jobs' = <<>>
    /\ event' = Health /\ todo' = {} /\ stage' = "offer" /\ target' = {}
    /\ queue' = [s \in Subs |-> <<>>]
    /\ gapped' = [s \in Subs |-> FALSE]
    /\ pc' = [s \in Subs |-> "closed"]
    /\ hand' = [s \in Subs |-> <<>>]
    /\ subscriber_count' = 0
    /\ got' = [s \in Subs |-> <<>>]
    /\ base' = [s \in Subs |-> 0]
    /\ UNCHANGED healths

Handler(s) == Take(s) \/ WriteOk(s) \/ Confirm(s) \/ Unsubscribe(s) \/ Leave(s)
Connect(s) == \E str \in 0 .. stream, after \in 0 .. MaxId : Subscribe(s, str, after)

Next == \/ Publish \/ Broadcast \/ Restart
        \/ \E s \in Subs : Offer(s) \/ Admit(s) \/ Connect(s) \/ Handler(s)
                           \/ ConnectionLost(s)

Spec == Init /\ [][Next]_vars

\* The worker finishes a fan-out it began, a handler thread that can run
\* runs, and a client whose connection is gone opens another (relay.py
\* reconnects for ever).  Messages need not arrive, connections need not be
\* lost and the process need not restart.
Fairness == /\ WF_vars(\E s \in Subs : Offer(s))
            /\ \A s \in Subs : /\ WF_vars(Handler(s))
                               /\ WF_vars(Admit(s))
                               /\ WF_vars(Connect(s))
FairSpec == Spec /\ Fairness
-----------------------------------------------------------------------------
Active(s) == pc[s] \in {"waiting", "writing", "confirming"}
Admitted == {s \in Subs : pc[s] # "closed"}

\* Every id in the hub, in a queue or in a thread's hands is one this stream
\* assigned; queues and the ring respect their bounds.
TypeOK ==
    /\ stream \in Nat /\ next_id \in Nat \ {0}
    /\ ring \in Seq(Ids) /\ Len(ring) <= RingSize
    /\ pending \in SUBSET Ids
    /\ subs \in SUBSET Subs
    /\ delete_jobs \in Seq(Ids)
    /\ event \in Event /\ todo \in SUBSET subs
    /\ stage \in {"offer", "drop", "mark"}
    /\ target \in SUBSET todo /\ (\A s, t \in target : s = t)
    /\ stage = "offer" => target = {}
    /\ queue \in [Subs -> Seq(Event)]
    /\ \A s \in Subs : Len(queue[s]) <= QueueMax
    /\ gapped \in [Subs -> BOOLEAN]
    /\ pc \in [Subs -> PCs]
    /\ hand \in [Subs -> Seq(Event)]
    /\ \A s \in Subs : Len(hand[s]) = IF pc[s] = "writing" THEN 1 ELSE 0
    /\ subscriber_count \in Int
    /\ delivered \in SUBSET Ids
    /\ got \in [Subs -> Seq(Event)]
    /\ base \in [Subs -> Nat]
    /\ healths \in Nat /\ losses \in Nat

\* Without a store, every message of this stream is still pending or was
\* written to some subscriber: neither an overflow, nor a failed write, nor
\* a confirmation racing another one lets go of it (hub.py:6-9).
UndeliveredStaysPending == ~Store => Ids \subseteq pending \cup delivered

\* The SIM delete hook runs only for a message some subscriber received, and
\* at most once for it, however many handlers confirm it (hub.py:74-80).
ReleaseOnceAfterDelivery ==
    /\ Range(delete_jobs) \subseteq delivered \ pending
    /\ \A i, j \in DOMAIN delete_jobs :
          delete_jobs[i] = delete_jobs[j] => i = j

\* What a session was sent, is sending, has queued and is about to be
\* offered, in order.
Sequel(s) == got[s] \o hand[s] \o queue[s]
             \o (IF s \in todo /\ s \notin target THEN <<event>> ELSE <<>>)

\* A session never gets a message twice nor an older one after a newer one,
\* although replay and live fan-out overlap (hub.py:100-120).
SessionInOrder ==
    \A s \in Subs : Active(s) =>
        \A i, j \in DOMAIN Sequel(s) :
            /\ i < j
            /\ Sequel(s)[i].kind = "message" /\ Sequel(s)[j].kind = "message"
            => Sequel(s)[i].id < Sequel(s)[j].id

\* The ids a session is owed and will not be sent: those after its base that
\* it was not sent, does not hold in its queue and is not being offered.
Lost(s) == {id \in Ids : id > base[s] /\ Message(id) \notin Range(Sequel(s))}
GapComing(s) == Gap \in Range(queue[s] \o hand[s]) \/ s \in target

\* A session that lost a message is told so at least once.
NoSilentLoss ==
    \A s \in Subs : Active(s) /\ Lost(s) # {} =>
        GapComing(s) \/ Gap \in Range(got[s])

\* Every loss is followed by a gap marker: one that is still to be written,
\* or one written after all the older messages (PLAN.md:465-467).
EveryLossAnnounced ==
    \A s \in Subs : Active(s) => \A id \in Lost(s) :
        \/ GapComing(s)
        \/ \E p \in DOMAIN got[s] :
              /\ got[s][p] = Gap
              /\ \A k \in p + 1 .. Len(got[s]) : got[s][k].id > id

\* With a store, a session that was not gapped misses nothing after its
\* cursor (PLAN.md:262 "full at-least-once for every subscriber").
ReplayComplete ==
    Store => \A s \in Subs : Active(s) /\ ~gapped[s] => Lost(s) = {}

\* The subscriber count is the number of handlers between admission and
\* exit, within the limit, and no Subscriber outlives its handler.
AdmissionAccounting ==
    /\ subscriber_count = Cardinality(Admitted)
    /\ subscriber_count <= MaxSubscribers
    /\ subs = {s \in Subs : Active(s) \/ pc[s] = "closing"}

\* A pending message is eventually written to some subscriber, through lost
\* connections and tail-mode reconnects (hub.py:6-7), unless a session that
\* is still connected overflowed, for nothing is offered to it again.
PendingIsDelivered ==
    \A id \in 1 .. MaxId, k \in 1 .. MaxStreams :
        id \in pending /\ stream = k
            ~> id \in delivered \/ stream # k \/ (\E s \in Subs : gapped[s])

\* The hub without a store implements the delivery contract.
Contract == INSTANCE DeliveryContract WITH
                MessageIds <- 1 .. MaxId, published <- Ids, outstanding <- pending,
                released <- delete_jobs
ContractSpec == Contract!Spec
=============================================================================
