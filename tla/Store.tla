------------------------------- MODULE Store -------------------------------
(***************************************************************************)
(* The file store (store.py) under crashes and power losses: the files it  *)
(* writes one after the other while the hub publishes a message, what a    *)
(* new process makes of the files it finds, and what a client that resumes *)
(* with its cursor is replayed from them.                                  *)
(*                                                                         *)
(* A file is written aside, synced and renamed.  Renaming is atomic; a     *)
(* rename survives a power loss once a later sync has committed it, as on  *)
(* a journaling file system (the directory itself is never synced).  A     *)
(* message leaves the SIM only by the worker's CMGD; after a restart what  *)
(* is still there is read and published again.                             *)
(***************************************************************************)
EXTENDS Integers, FiniteSets, Sequences, FiniteSetsExt

CONSTANTS
    Msgs,         \* SMS stored on the SIM sooner or later
    RingSize,     \* GTG_RING_SIZE
    Outgoing,     \* bound: outgoing messages of one process
    MaxFaults,    \* bound: crashes, power losses, failed saves, damages
    MaxBreaks     \* bound: client sessions that break

ASSUME StoreAssumption ==
    /\ IsFiniteSet(Msgs) /\ "none" \notin Msgs
    /\ RingSize \in Nat \ {0} /\ Outgoing \in Nat
    /\ MaxFaults \in Nat /\ MaxBreaks \in Nat

VARIABLES
    inbox,         \* the files of inbox/: [id, msg]
    outbox,        \* the files of outbox/: [run, id, state]
    stream_file,   \* stream.json: [stream, next]; stream 0 is unreadable
    undo,          \* {the files before a rename that no sync committed yet}
    pc,            \* program point of the worker, "dead" without a process
    msg,           \* the message it is publishing
    stream,        \* FileStore._stream_id
    next_id,       \* Hub.next_id
    ring,          \* Hub.ring: [id, msg]
    index,         \* FileStore._index: [id, msg]
    out_index,     \* FileStore._out_index: [run, id, state]
    seen_hashes,   \* worker.seen_hashes
    sim,           \* messages on the SIM
    client,        \* a client's state.json: [stream, last, seen], and connected
    owed,          \* history: messages offered since the client has a cursor
    streams, run,  \* streams and processes so far
    power_losses, disk_faults,  \* history: how many there were
    faults, breaks

diskVars == <<inbox, outbox, stream_file, undo>>
hubVars == <<stream, next_id, ring, index, out_index, seen_hashes>>
clientVars == <<client, owed, breaks>>
boundVars == <<streams, run, power_losses, disk_faults, faults>>
vars == <<diskVars, pc, msg, hubVars, sim, clientVars, boundVars>>

NoMsg == "none"
Init == /\ inbox = {} /\ outbox = {} /\ undo = {}
        /\ stream_file = [stream |-> 0, next |-> 0]
        /\ pc = "dead" /\ msg = NoMsg
        /\ stream = 0 /\ next_id = 0 /\ ring = <<>> /\ index = {}
        /\ out_index = {} /\ seen_hashes = {}
        /\ sim = Msgs
        /\ client = [stream |-> 0, last |-> 0, seen |-> {}, on |-> FALSE]
        /\ owed = {} /\ breaks = 0 /\ streams = 0 /\ run = 0
        /\ power_losses = 0 /\ disk_faults = 0 /\ faults = 0

Entry(id, m) == [id |-> id, msg |-> m]
Fault == faults < MaxFaults /\ faults' = faults + 1
Files == [inbox |-> inbox, outbox |-> outbox, stream_file |-> stream_file]
-----------------------------------------------------------------------------
(* Files.                                                                  *)

\* A file is synced, which commits all earlier renames, and renamed.
Renamed == undo' = {Files}

\* _persist_stream
PersistStream(s, next) == stream_file' = [stream |-> s, next |-> next]

\* A process starts: _load_stream, _build_index, Hub.__init__.  Without a
\* readable stream.json a new stream begins at id 1, beside the old files.
Start ==
    /\ pc = "dead"
    /\ IF stream_file.stream # 0
       THEN /\ stream' = stream_file.stream /\ next_id' = stream_file.next
            /\ UNCHANGED <<stream_file, undo, streams>>
       ELSE /\ streams' = streams + 1
            /\ stream' = streams' /\ next_id' = 1
            /\ PersistStream(streams', 1) /\ Renamed
    /\ index' = inbox /\ out_index' = outbox
    /\ ring' = <<>> /\ seen_hashes' = {}
    /\ run' = run + 1
    /\ pc' = "idle"
    /\ UNCHANGED <<inbox, outbox, msg, sim, clientVars, power_losses, disk_faults,
                   faults>>
-----------------------------------------------------------------------------
(* hub.publish under its lock, step by step.                               *)

\* A message is read from the SIM that this process did not publish yet.
Read(m) ==
    /\ pc = "idle" /\ m \in sim \ seen_hashes
    /\ seen_hashes' = seen_hashes \cup {m}
    /\ msg' = m /\ pc' = "write"
    /\ UNCHANGED <<diskVars, stream, next_id, ring, index, out_index, sim, clientVars,
                   boundVars>>

\* (Bug: the message's file is left under its temporary name, so that only the
\* index of this process has the message.)
WriteUnrenamed ==
    /\ pc = "write"
    /\ index' = index \cup {Entry(next_id, msg)}
    /\ next_id' = next_id + 1
    /\ pc' = "persist"
    /\ UNCHANGED <<diskVars, msg, stream, ring, out_index, seen_hashes, sim, clientVars,
                   boundVars>>

\* save_inbound: the message's file; publish has advanced next_id.
WriteMessage ==
    /\ pc = "write"
    /\ inbox' = inbox \cup {Entry(next_id, msg)} /\ Renamed
    /\ index' = index \cup {Entry(next_id, msg)}
    /\ next_id' = next_id + 1
    /\ pc' = "persist"
    /\ UNCHANGED <<outbox, stream_file, msg, stream, ring, out_index, seen_hashes, sim,
                   clientVars, boundVars>>

\* (Bug: the id counter is not made durable.)
PersistNothing ==
    /\ pc = "persist"
    /\ pc' = "offer"
    /\ UNCHANGED <<diskVars, msg, hubVars, sim, clientVars, boundVars>>

\* save_inbound: the id counter.
Persist ==
    /\ pc = "persist"
    /\ PersistStream(stream, next_id) /\ Renamed
    /\ pc' = "offer"
    /\ UNCHANGED <<inbox, outbox, msg, hubVars, sim, clientVars, boundVars>>

\* The disk is full: save_inbound raises before or between the two files,
\* publish ends without an offer, and the error path deletes the message
\* from the SIM (worker.py:380-387).
SaveFails ==
    /\ pc \in {"write", "persist"}
    /\ Fault /\ disk_faults' = disk_faults + 1
    /\ next_id' = IF pc = "write" THEN next_id + 1 ELSE next_id
    /\ pc' = "delete"
    /\ UNCHANGED <<diskVars, msg, stream, ring, index, out_index, seen_hashes, sim,
                   clientVars, streams, run, power_losses>>

\* deque(maxlen=RingSize).append
Pushed(e) == LET longer == Append(ring, e)
             IN  IF Len(longer) > RingSize THEN Tail(longer) ELSE longer

Handled(e) == [client EXCEPT !.last = e.id, !.seen = @ \cup {e.msg}]

\* ring.append, and the offer to the sessions.
Offer ==
    /\ pc = "offer"
    /\ LET e == Entry(next_id - 1, msg)
       IN  /\ ring' = Pushed(e)
           /\ client' = IF client.on THEN Handled(e) ELSE client
    /\ owed' = IF client.stream = stream /\ client'.last # 0 THEN owed \cup {msg} ELSE owed
    /\ pc' = "delete"
    /\ UNCHANGED <<diskVars, msg, stream, next_id, index, out_index, seen_hashes, sim,
                   breaks, boundVars>>

\* _delete_indices: "persisted -> safe to delete".
DeleteFromSim ==
    /\ pc = "delete"
    /\ sim' = sim \ {msg}
    /\ pc' = "idle" /\ msg' = NoMsg
    /\ UNCHANGED <<diskVars, hubVars, clientVars, boundVars>>

\* (Bug: the old entry of the record stays.)
OutIndexedTwice(r) == out_index \cup {r}

\* save_outbound replaces the index entry that has the record's id.
OutIndexed(r) == {e \in out_index : e.id # r.id} \cup {r}

\* save_outbound: the worker records that message k of this process has a
\* new state.  Outbox ids begin at 1 in every process.
SaveOutbound(k, state) ==
    LET r == [run |-> run, id |-> k, state |-> state]
    IN  /\ pc = "idle" /\ k \in 1 .. Outgoing
        /\ state = "final" => [r EXCEPT !.state = "sending"] \in outbox
        /\ state = "sending" => \A f \in outbox : f.run = run => f.id < k
        /\ outbox' = {f \in outbox : f.run # run \/ f.id # k} \cup {r}
        /\ out_index' = OutIndexed(r)
        /\ Renamed
        /\ UNCHANGED <<inbox, stream_file, pc, msg, stream, next_id, ring, index,
                       seen_hashes, sim, clientVars, boundVars>>
-----------------------------------------------------------------------------
(* The client, which is told everything a subscription replays at once     *)
(* (module Relay has the session's details).                               *)

ValidCursor == client.last # 0 /\ client.stream = stream /\ client.last < next_id

\* hub.subscribe, replay_after and the hello.
Subscribe ==
    /\ pc \in {"idle", "delete"} /\ ~client.on
    /\ LET oldest == IF ring = <<>> THEN next_id ELSE ring[1].id
           stored == {e \in index : client.last < e.id /\ e.id < oldest}
           recent == {e \in {ring[k] : k \in DOMAIN ring} : client.last < e.id}
           replay == IF ValidCursor THEN stored \cup recent ELSE {}
       IN  client' = [stream |-> stream,
                      last |-> IF replay # {} THEN Max({e.id : e \in replay})
                               ELSE IF client.stream = stream THEN client.last ELSE 0,
                      seen |-> client.seen \cup {e.msg : e \in replay},
                      on |-> TRUE]
    /\ owed' = IF client.stream = stream THEN owed ELSE {}
    /\ UNCHANGED <<diskVars, pc, msg, hubVars, sim, breaks, boundVars>>

\* The session breaks.
Break ==
    /\ client.on /\ breaks < MaxBreaks /\ breaks' = breaks + 1
    /\ client' = [client EXCEPT !.on = FALSE]
    /\ UNCHANGED <<diskVars, pc, msg, hubVars, sim, owed, boundVars>>
-----------------------------------------------------------------------------
(* Failures.                                                               *)

Die == pc' = "dead" /\ msg' = NoMsg /\ client' = [client EXCEPT !.on = FALSE]

\* The process dies; the files are as it left them.
Crash ==
    /\ pc # "dead" /\ Fault
    /\ Die
    /\ UNCHANGED <<diskVars, hubVars, sim, owed, breaks, streams, run, power_losses,
                   disk_faults>>

\* The machine loses power: the last rename may be undone.
PowerLoss ==
    /\ Fault /\ power_losses' = power_losses + 1
    /\ Die
    /\ \E f \in undo \cup {Files} :
          inbox' = f.inbox /\ outbox' = f.outbox /\ stream_file' = f.stream_file
    /\ undo' = {}
    /\ UNCHANGED <<hubVars, sim, owed, breaks, streams, run, disk_faults>>

\* stream.json is lost or cannot be read at the next start.
Damage ==
    /\ pc = "dead" /\ run > 0
    /\ Fault
    /\ stream_file' = [stream |-> 0, next |-> 0] /\ undo' = {}
    /\ UNCHANGED <<inbox, outbox, pc, msg, hubVars, sim, clientVars, streams, run,
                   power_losses, disk_faults>>

Next == \/ Start \/ WriteMessage \/ Persist \/ SaveFails \/ Offer \/ DeleteFromSim
        \/ \E m \in Msgs : Read(m)
        \/ \E k \in 1 .. Outgoing, state \in {"sending", "final"} : SaveOutbound(k, state)
        \/ Subscribe \/ Break \/ Crash \/ PowerLoss \/ Damage

Spec == Init /\ [][Next]_vars
-----------------------------------------------------------------------------
\* Files, indexes and program points are well formed, and the ring and the
\* renames that a power loss can undo keep their bounds.
TypeOK ==
    /\ inbox \subseteq [id : Nat \ {0}, msg : Msgs]
    /\ index \subseteq [id : Nat \ {0}, msg : Msgs]
    /\ out_index \subseteq [run : 1 .. run, id : 1 .. Outgoing, state : {"sending", "final"}]
    /\ stream_file \in [stream : 0 .. streams, next : Nat]
    /\ Cardinality(undo) <= 1
    /\ pc \in {"dead", "idle", "write", "persist", "offer", "delete"}
    /\ (msg = NoMsg) = (pc \in {"dead", "idle"})
    /\ Len(ring) <= RingSize
    /\ sim \subseteq Msgs /\ owed \subseteq Msgs

\* The messages that the files f hold.
Durable(f) == {e.msg : e \in f.inbox}

\* "delete-from-SIM then happens after the file is fsynced" (PLAN.md:255): every
\* message is on the SIM or in a file that survives crashes and power losses;
\* only a failed save costs its message.
SavedBeforeDeleted ==
    \A f \in undo \cup {Files} : Cardinality(Msgs \ (sim \cup Durable(f))) <= disk_faults

\* What the next replay will bring the client.
Replayed == {e.msg : e \in {x \in index : x.id > client.last}}

\* While the disk works, the client's cursor is never past a message it was
\* subscribed for and has not got: the message comes with the next replay,
\* with the offer that is under way, or from the SIM again.
CursorSkipsNothing ==
    /\ disk_faults = 0 /\ power_losses = 0
    /\ client.stream = stream /\ client.last # 0 /\ pc # "dead"
    => owed \subseteq client.seen \cup sim \cup Replayed

\* An id a subscriber may have seen is not given to another message of the
\* stream: the durable counter is ahead of it whenever the process can die.
CounterAhead ==
    /\ disk_faults = 0 /\ power_losses = 0
    /\ client.stream = stream_file.stream /\ client.stream # 0
    => client.last < stream_file.next

\* The outbox history shows each message of this process once, as it was
\* last saved, whatever files of earlier processes have its id.
OutboxHistory ==
    pc # "dead" => \A f \in outbox : f.run = run => {e \in out_index : e.id = f.id} = {f}
=============================================================================
