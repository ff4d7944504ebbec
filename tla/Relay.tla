------------------------------- MODULE Relay -------------------------------
(***************************************************************************)
(* The inbound relay of the client (relay.py run_inbound) with its durable *)
(* state (state.py), the server session it reads from, and Home Assistant, *)
(* to which it posts one event per SMS.                                    *)
(*                                                                         *)
(* A message is its stable hash: the same SMS read again from the SIM by a *)
(* restarted server has another id and the same hash.  The log of a stream *)
(* holds the message of each id.  The hub appears as in module Hub, with   *)
(* its critical sections and the offers that follow them as one step.      *)
(***************************************************************************)
EXTENDS Integers, FiniteSets, Sequences, Functions

CONSTANTS
    Msgs,         \* SMS the network delivers, by hash
    Configs,      \* the configurations considered, see RelayAssumption
    MaxRestarts,  \* bound: server restarts
    MaxBreaks,    \* bound: connections lost
    MaxFaults     \* bound: client crashes and failed posts to HA

ASSUME RelayAssumption ==
    /\ Configs \subseteq
        [store : BOOLEAN,            \* has the server a file store?
         firstRun : BOOLEAN,         \* does the client start without a state file?
         lateResets : BOOLEAN,       \* may HA reset a connection that brought a request?
         ringSize : Nat \ {0},       \* GTG_RING_SIZE
         queueMax : Nat \ {0},       \* size of a Subscriber's queue
         journalKeep : Nat \ {0}]    \* JOURNAL_KEEP
    /\ MaxRestarts \in Nat /\ MaxBreaks \in Nat /\ MaxFaults \in Nat

VARIABLES
    cfg,         \* the configuration, which never changes
    stream,      \* the server's stream_id
    log,         \* the messages of the stream; the id is the position
    pending,     \* Hub.pending: ids no subscriber was sent
    published,   \* worker.seen_hashes of this server process
    sim,         \* messages stored on the SIM, or still to come
    deletable,   \* messages whose SIM slots the worker will delete
    box,         \* the client's Subscriber: its queue and gapped flag
    conn,        \* is the session open on the server's side?
    wire,        \* written to the socket, not yet read by the client
    lost,        \* history: ids dropped in a session that got a gap marker for it
    st,          \* state.json: stream_id, last_id (0 is None), journal
    pc,          \* program point of run_inbound
    current,     \* the message event being handled
    fired,       \* history: events of each message that reached HA
    since,       \* history: the first id the client is owed: without a cursor, it
                 \* is owed what is published once it subscribed; 0 before that
    resets,      \* history: posts repeated after HA had the request
    restarts, breaks, faults

serverVars == <<cfg, stream, log, pending, published, sim, deletable, restarts>>
sessionVars == <<box, conn, wire, lost, breaks>>
clientVars == <<st, pc, current, since>>
haVars == <<fired, resets>>
vars == <<serverVars, sessionVars, clientVars, haVars, faults>>

Ids == 1 .. Len(log)
NoBox == [queue |-> <<>>, gapped |-> FALSE]
Hello == [kind |-> "hello", id |-> stream]
Message(id, m) == [kind |-> "message", id |-> id, msg |-> m]
Gap == [kind |-> "gap", id |-> 0]

\* The client is new, or it handled the first message of the stream before.
Init == \E c \in Configs : \E old \in IF c.firstRun THEN {<<>>} ELSE {<<m>> : m \in Msgs} :
        /\ cfg = c
        /\ stream = 1 /\ log = old /\ pending = {} /\ published = Range(old)
        /\ sim = Msgs /\ deletable = Range(old)
        /\ box = NoBox /\ conn = FALSE /\ wire = <<>> /\ lost = {}
        /\ st = [stream_id |-> Len(old), last_id |-> Len(old), journal |-> old]
        /\ pc = "down" /\ current = <<>>
        /\ fired = [m \in Msgs |-> IF m \in Range(old) THEN 1 ELSE 0]
        /\ since = Len(old)
        /\ resets = 0 /\ restarts = 0 /\ breaks = 0 /\ faults = 0
-----------------------------------------------------------------------------
(* The server.                                                             *)

\* (Bug: an unbounded queue.)
OfferedAlways(b, e) == [b EXCEPT !.queue = Append(@, e)]

\* Subscriber.offer, as one step.
Offered(b, e) ==
    IF Len(b.queue) < cfg.queueMax THEN [b EXCEPT !.queue = Append(@, e)]
    ELSE IF b.gapped THEN b
    ELSE [queue |-> Append(Tail(b.queue), Gap), gapped |-> TRUE]

\* The ids of the messages among events.  Of the messages offered to a
\* Subscriber, those it dropped with a gap marker.
IdsOf(q) == {q[k].id : k \in {j \in DOMAIN q : q[j].kind = "message"}}
Losing(ids, b) == IF b.gapped THEN ids \ IdsOf(b.queue) ELSE {}

\* hub.publish of a message this process did not publish before.
Publish(m) ==
    /\ m \in sim \ published
    /\ log' = Append(log, m)
    /\ published' = published \cup {m}
    /\ IF cfg.store THEN pending' = pending /\ deletable' = deletable \cup {m}
       ELSE pending' = pending \cup {Len(log')} /\ deletable' = deletable
    /\ box' = IF conn THEN Offered(box, Message(Len(log'), m)) ELSE box
    /\ lost' = lost \cup Losing(IdsOf(box.queue) \cup {Len(log')}, box')
    /\ UNCHANGED <<cfg, stream, sim, restarts, conn, wire, breaks, clientVars, haVars, faults>>

\* hub.confirm_delivered
Confirm(id) ==
    /\ pending' = pending \ {id}
    /\ deletable' = IF id \in pending THEN deletable \cup {log[id]} ELSE deletable

\* Another subscriber (the web UI, a session the server still holds open
\* after the client left it) is written a pending message.
OtherSubscriber(id) ==
    /\ id \in pending
    /\ Confirm(id)
    /\ UNCHANGED <<cfg, stream, log, published, sim, restarts, sessionVars, clientVars, haVars, faults>>

\* The worker deletes a message from the SIM.
Delete(m) ==
    /\ m \in deletable
    /\ deletable' = deletable \ {m} /\ sim' = sim \ {m}
    /\ UNCHANGED <<cfg, stream, log, pending, published, restarts, sessionVars, clientVars,
                   haVars, faults>>

\* The session's handler writes the next event to the socket.
Write ==
    /\ conn /\ box.queue # <<>>
    /\ wire' = Append(wire, Head(box.queue))
    /\ box' = [box EXCEPT !.queue = Tail(@)]
    /\ IF Head(box.queue).kind = "message" THEN Confirm(Head(box.queue).id)
       ELSE UNCHANGED <<pending, deletable>>
    /\ UNCHANGED <<cfg, stream, log, published, sim, restarts, conn, lost, breaks, clientVars,
                   haVars, faults>>

\* The connection ends; the client may still read what was written to it.
Disconnect == /\ conn' = FALSE /\ box' = NoBox
              /\ wire' \in {wire, <<>>}

Break ==
    /\ conn /\ breaks < MaxBreaks /\ breaks' = breaks + 1
    /\ Disconnect
    /\ UNCHANGED <<serverVars, lost, clientVars, haVars, faults>>

\* With a store the stream goes on; without one a new stream begins.
ServerRestart ==
    /\ restarts < MaxRestarts /\ restarts' = restarts + 1
    /\ IF cfg.store THEN UNCHANGED <<stream, log, lost>>
       ELSE stream' = stream + 1 /\ log' = <<>> /\ lost' = {}
    /\ pending' = {} /\ published' = {} /\ deletable' = {}
    /\ Disconnect
    /\ UNCHANGED <<cfg, sim, breaks, clientVars, haVars, faults>>
-----------------------------------------------------------------------------
(* The client.                                                             *)

\* (Bug: the message next to the cursor is taken for the last one seen.)
ReplaySkipsFirst(after) ==
    {i \in Ids : i > after + 1 /\ (cfg.store \/ i > Len(log) - cfg.ringSize)}

\* hub.subscribe: what a session that resumes after `after` is to replay.  (No
\* more than MAX_REPLAY messages are behind a cursor; Hub has that cut.)
Replay(after) == {i \in Ids : i > after /\ (cfg.store \/ i > Len(log) - cfg.ringSize)}

\* The ids of S in ascending order (replay.sort); one sequence.
Ascending(S) == {q \in [1 .. Cardinality(S) -> S] :
                    \A j, k \in DOMAIN q : j < k => q[j] < q[k]}

\* A fresh Subscriber that was offered these messages before anybody reads:
\* the first that does not fit takes the oldest with it and leaves a gap, the
\* ones after it are discarded.
Enqueued(q) ==
    LET messages == [k \in DOMAIN q |-> Message(q[k], log[q[k]])]
    IN  [queue |-> IF Len(q) <= cfg.queueMax THEN messages
                   ELSE Append(SubSeq(messages, 2, cfg.queueMax), Gap),
         gapped |-> Len(q) > cfg.queueMax]

\* run_inbound opens a session, with the cursor if it has one.
Connect ==
    /\ pc = "down"
    /\ LET valid == st.last_id # 0 /\ st.stream_id = stream /\ st.last_id <= Len(log)
           ids == pending \cup (IF valid THEN Replay(st.last_id) ELSE {})
       IN  /\ \E q \in Ascending(ids) : box' = Enqueued(q)
           /\ lost' = lost \cup Losing(ids, box')
    /\ conn' = TRUE /\ wire' = <<Hello>>
    /\ pc' = "reading"
    /\ since' = IF st.last_id = 0 THEN Len(log) + 1 ELSE since
    /\ UNCHANGED <<serverVars, breaks, st, current, haVars, faults>>

Seen(m) == \E k \in DOMAIN st.journal : st.journal[k] = m
\* (Bug: the journal keeps the newest hash only.)
MarkedLast(m) == <<m>>
\* State.mark: the journal, cut to its last JOURNAL_KEEP entries.
Marked(m) == LET longer == Append(st.journal, m)
             IN  IF Len(longer) > cfg.journalKeep THEN Tail(longer) ELSE longer

\* _handle_event of a hello: State.on_hello.
ReadHello ==
    /\ pc = "reading" /\ wire # <<>> /\ Head(wire).kind = "hello"
    /\ wire' = Tail(wire)
    /\ st' = IF Head(wire).id = st.stream_id THEN st
             ELSE [st EXCEPT !.stream_id = Head(wire).id, !.last_id = 0]
    /\ UNCHANGED <<serverVars, box, conn, lost, breaks, pc, current, since, haVars, faults>>

\* _handle_event of a gap marker.
ReadGap ==
    /\ pc = "reading" /\ wire # <<>> /\ Head(wire).kind = "gap"
    /\ wire' = Tail(wire)
    /\ UNCHANGED <<serverVars, box, conn, lost, breaks, clientVars, haVars, faults>>

\* _handle_event of a message: one processed before only moves the cursor; a
\* new one is marked in the journal before anything else happens.
ReadMessage ==
    /\ pc = "reading" /\ wire # <<>> /\ Head(wire).kind = "message"
    /\ wire' = Tail(wire)
    /\ LET e == Head(wire)
       IN  IF Seen(e.msg)
           THEN st' = [st EXCEPT !.last_id = e.id] /\ UNCHANGED <<pc, current>>
           ELSE /\ st' = [st EXCEPT !.journal = Marked(e.msg)]
                /\ pc' = "firing" /\ current' = <<e>>
    /\ UNCHANGED <<serverVars, box, conn, lost, breaks, since, haVars, faults>>

Fault == faults < MaxFaults /\ faults' = faults + 1
Arrived == /\ fired' = [fired EXCEPT ![current[1].msg] = @ + 1]
           /\ UNCHANGED resets

\* HAPoster.fire returns.  A post that HA refused is repeated until then and
\* changes nothing.
Fire ==
    /\ pc = "firing"
    /\ Arrived
    /\ pc' = "fired"
    /\ UNCHANGED <<serverVars, sessionVars, st, current, since, faults>>

\* AmbiguousDelivery (a timeout, a 5xx): the message is dropped.
FireAmbiguous ==
    /\ pc = "firing" /\ Fault
    /\ Arrived \/ UNCHANGED haVars
    /\ pc' = "fired"
    /\ UNCHANGED <<serverVars, sessionVars, st, current, since>>

\* ConnectionResetError while the answer is read: HA has the request, and
\* fire posts it again (relay.py:86-87).
FireReset ==
    /\ cfg.lateResets /\ pc = "firing" /\ Fault
    /\ fired' = [fired EXCEPT ![current[1].msg] = @ + 1]
    /\ resets' = resets + 1
    /\ UNCHANGED <<serverVars, sessionVars, clientVars>>

\* The client is gone from its session.
Hangup == conn' = FALSE /\ box' = NoBox /\ wire' = <<>>

\* Any other exception of the post, an unreadable answer for one, leaves
\* run_inbound's loop; the cursor stays where it was.
FireRaises ==
    /\ pc = "firing" /\ Fault
    /\ Arrived \/ UNCHANGED haVars
    /\ Hangup
    /\ pc' = "down" /\ current' = <<>>
    /\ UNCHANGED <<serverVars, lost, breaks, st, since>>

\* State.advance
Advance ==
    /\ pc = "fired"
    /\ st' = [st EXCEPT !.last_id = current[1].id]
    /\ pc' = "reading" /\ current' = <<>>
    /\ UNCHANGED <<serverVars, sessionVars, since, haVars, faults>>

\* (Bug: the loss of the session interrupts the post to HA.)
NoticeAtOnce ==
    /\ pc # "down" /\ ~conn /\ wire = <<>>
    /\ pc' = "down" /\ current' = <<>>
    /\ UNCHANGED <<serverVars, sessionVars, st, since, haVars, faults>>

\* The end of the stream, or the error of a lost connection, is read.
Notice ==
    /\ pc = "reading" /\ ~conn /\ wire = <<>>
    /\ pc' = "down"
    /\ UNCHANGED <<serverVars, sessionVars, st, current, since, haVars, faults>>

\* The client dies and is started again; it has state.json.
ClientCrash ==
    /\ pc # "down" /\ Fault
    /\ Hangup
    /\ pc' = "down" /\ current' = <<>>
    /\ UNCHANGED <<serverVars, lost, breaks, st, since, haVars>>

Server == \/ \E m \in Msgs : Publish(m) \/ Delete(m)
          \/ \E id \in Ids : OtherSubscriber(id)
          \/ Break \/ ServerRestart
Client == Connect \/ ReadHello \/ ReadGap \/ ReadMessage \/ Fire \/ Advance \/ Notice
Next == Server \/ Write \/ Client \/ FireAmbiguous \/ FireReset \/ FireRaises \/ ClientCrash

Spec == Init /\ [][Next]_vars

\* The session's handler writes what is queued and the client runs; messages
\* need not arrive and nothing need fail.
FairSpec == Spec /\ WF_vars(Write) /\ WF_vars(Client)
-----------------------------------------------------------------------------
\* Both sides are well formed; queue and journal keep their bounds, and the
\* client has an event in hand exactly while it handles one.
TypeOK ==
    /\ log \in Seq(Msgs) /\ pending \subseteq Ids
    /\ published \subseteq Msgs /\ sim \subseteq Msgs /\ deletable \subseteq published
    /\ Len(box.queue) <= cfg.queueMax /\ (~conn => box = NoBox)
    /\ st.stream_id \in 0 .. stream /\ st.last_id \in Nat
    /\ st.journal \in Seq(Msgs) /\ Len(st.journal) <= cfg.journalKeep
    /\ pc \in {"down", "reading", "firing", "fired"}
    /\ (current = <<>>) <=> (pc \in {"down", "reading"})
    /\ since \in Nat /\ lost \subseteq Ids
    /\ fired \in [Msgs -> Nat] /\ resets \in 0 .. faults

\* No SMS triggers the automations twice, whatever restarts, breaks and is
\* read from the SIM again ("exactly-no-retrigger", PLAN.md:443-464).
FiredAtMostOnce == \A m \in Msgs : fired[m] <= 1

\* What the code does keep: an SMS triggers the automations again only as
\* often as HA reset a connection that had brought it the request
\* (relay.py:86-87); no restart, break, crash or repeated reading adds to it.
FiredOncePlusResets == \A m \in Msgs : fired[m] <= 1 + resets

\* Messages in the journal that never reached Home Assistant and will not.
Dropped == {m \in Range(st.journal) : fired[m] = 0 /\ (current = <<>> \/ current[1].msg # m)}

\* Mark-then-fire drops a message only through a crash or a failed post of
\* the client, and one message each time (state.py:7-8): not through a lost
\* connection or a restart of the server.
OneDropPerFault == Cardinality(Dropped) <= faults

\* With a store the cursor passes over no message published since the client
\* subscribed, except those a full queue dropped; the marker for these is
\* queued behind newer messages (hub.py:30-34) and may be lost with the session
\* after they moved the cursor (PLAN.md:255-264, 465-467).  A client whose
\* session ends before its first message has no cursor and is owed only what
\* comes after it subscribed again.
CursorSkipsNothing ==
    cfg.store /\ since # 0 =>
        \A k \in Ids : since <= k /\ k <= st.last_id => Seen(log[k]) \/ k \in lost

\* Is there a message after the cursor that was not handled, nor dropped?
Behind == \E k \in Ids : st.last_id < k /\ ~Seen(log[k]) /\ k \notin lost

\* With a store, a client with a cursor eventually handles every message of
\* the stream that no full queue dropped.
HandledEventually == (cfg.store /\ st.last_id # 0 /\ Behind) ~> ~Behind
=============================================================================
