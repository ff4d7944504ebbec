---------------------------- MODULE StoreProofs ----------------------------
(***************************************************************************)
(* Proofs about module Store: what a crash, a power loss, a failed save or *)
(* a lost stream.json can do to the messages on their way from the SIM     *)
(* through store.py to a client's cursor, for any set of messages, any     *)
(* ring size and any number of faults and restarts.                        *)
(***************************************************************************)
EXTENDS Store, FiniteSetTheorems, TLAPS

\* Files of the inbox and of the outbox, and what stream.json can say.
Entries == [id : Nat \ {0}, msg : Msgs]
Sent == [run : 1 .. run, id : 1 .. Outgoing, state : {"sending", "final"}]
StreamFiles == [stream : 0 .. streams, next : Nat]
Sound(i, o, s) == /\ i \subseteq Entries /\ o \subseteq Sent
                  /\ s \in StreamFiles /\ (s.stream # 0 => s.next > 0)

\* The types of all variables, which hold too of the files that a power loss
\* would bring back, and the order of the ids that the publisher relies on:
\* what is in the ring has an id below the next one.
Types ==
    /\ streams \in Nat /\ run \in Nat /\ power_losses \in Nat /\ disk_faults \in Nat
    /\ Sound(inbox, outbox, stream_file)
    /\ \A f \in undo : Sound(f.inbox, f.outbox, f.stream_file)
    /\ \A f, g \in undo : f = g
    /\ pc \in {"dead", "idle", "write", "persist", "offer", "delete"}
    /\ msg \in Msgs \union {NoMsg} /\ (msg = NoMsg <=> pc \in {"dead", "idle"})
    /\ stream \in 0 .. streams /\ next_id \in Nat /\ (pc # "dead" => next_id > 0 /\ stream > 0 /\ run > 0)
    /\ (pc \in {"persist", "offer"} => next_id > 1)
    /\ ring \in Seq(Entries) /\ Len(ring) <= RingSize
    /\ (pc # "dead" => \A k \in DOMAIN ring : ring[k].id < next_id)
    /\ index \subseteq Entries /\ out_index \subseteq Sent
    /\ sim \subseteq Msgs /\ owed \subseteq Msgs
    /\ client \in [stream : 0 .. streams, last : Nat, seen : SUBSET Msgs, on : BOOLEAN]
    /\ (client.on => pc # "dead")

\* The worker deletes a message from the SIM as soon as publish has returned
\* (or failed): from then on the SIM does not count as holding it.
Doomed == IF pc = "delete" THEN {msg} ELSE {}
OnSim == sim \ Doomed
Texts(files) == {e.msg : e \in files}
Missing(files) == Cardinality(Msgs \ (OnSim \union Texts(files)))

\* Messages that neither the SIM nor the given files hold are as many as failed
\* saves, in the files as they are and as they were before the last rename.
\* The message being offered is in both: the rename of stream.json has
\* committed the one of its own file.
Held ==
    /\ Missing(inbox) <= disk_faults
    /\ \A f \in undo : Missing(f.inbox) <= disk_faults
    /\ pc = "persist" => msg \in Texts(inbox)
    /\ pc = "offer" => msg \in Texts(inbox) /\ \A f \in undo : msg \in Texts(f.inbox)

\* Ids below Top can have been offered: the counter runs ahead of the offer by
\* the message in hand.
Top == IF pc = "offer" THEN stream_file.next - 1 ELSE stream_file.next

\* Where a replay turns from the files to the ring (store.py replay_after).
Oldest == IF ring = <<>> THEN next_id ELSE ring[1].id
InRing(e) == \E k \in DOMAIN ring : ring[k] = e

\* The next replay brings message m: its file has an id above the cursor, and if
\* that id is within the ring's range then the ring has it.
Findable(m) == \E e \in inbox : /\ e.msg = m /\ client.last < e.id /\ e.id < Top
                                /\ pc # "dead" /\ Oldest <= e.id => InRing(e)

\* A process works on the files as they are, is ahead of the durable counter by
\* the message in hand, and its ring is in order.
Serving ==
    /\ stream = stream_file.stream /\ index = inbox
    /\ next_id = IF pc = "persist" THEN stream_file.next + 1 ELSE stream_file.next
    /\ pc \in {"persist", "offer"} => Entry(next_id - 1, msg) \in inbox
    /\ \A k \in DOMAIN ring : ring[k].id < Top
    /\ \A j, k \in DOMAIN ring : j < k => ring[j].id < ring[k].id
Told(m) == m \in client.seen \union OnSim

\* What the client is owed it has been told, or the SIM still holds, or the next
\* replay brings; and no id it knows is at or above Top, so that none is given
\* twice.
Behind ==
    /\ client.on => client.stream = stream
    /\ client.last # 0 => client.stream # 0
    /\ owed # {} => client.last # 0
    /\ client.on => \A m \in owed : Told(m)
    /\ client.stream = stream_file.stream /\ client.stream # 0 =>
         /\ client.last < Top
         /\ \A m \in owed : Told(m) \/ Findable(m)

\* While the disk works the process and the client rely on each other.
Cursors == disk_faults = 0 /\ power_losses = 0 => (pc # "dead" => Serving) /\ Behind

\* A set of numbers with a bound has a greatest member, and Max names it.
LEMMA MaxExists ==
    ASSUME NEW S \in SUBSET Nat, NEW n \in Nat, \A x \in S : x < n, S # {}
    PROVE  Max(S) \in S
<1> DEFINE Below == {n - x : x \in S}
           Less == OpToRel(<, Nat)
<1>1. Below \subseteq Nat /\ Below # {}
  <2>1. \A x \in S : x \in Nat /\ x < n
    OBVIOUS
  <2>2. \A x \in S : n - x \in Nat
    BY <2>1
  <2> QED BY <2>2
<1>2. PICK d \in Below : \A e \in Below : ~(<<e, d>> \in Less)
  <2> HIDE DEF Below, Less
  <2>1. IsWellFoundedOn(Less, Nat)
    BY NatLessThanWellFounded DEF Less
  <2> QED BY <1>1, <2>1, WFMin
<1>3. \A e \in Below : ~(e < d)
  BY <1>1, <1>2 DEF OpToRel
<1>4. PICK x \in S : d = n - x
  OBVIOUS
<1>5. \A y \in S : x >= y
  <2> SUFFICES ASSUME NEW y \in S PROVE x >= y
    OBVIOUS
  <2>1. n - y \in Below /\ x \in Nat /\ y \in Nat
    OBVIOUS
  <2> HIDE DEF Below
  <2>2. ~(n - y < n - x)
    BY <1>3, <1>4, <2>1
  <2> QED BY <2>1, <2>2
<1> QED BY <1>4, <1>5 DEF Max

\* The first process finds no files.
LEMMA TypesInit == Init => Types
<1> SUFFICES ASSUME Init PROVE Types
  OBVIOUS
<1> USE StoreAssumption DEF Init
<1>1. ring \in Seq(Entries) /\ Len(ring) <= RingSize
  OBVIOUS
<1>2. client \in [stream : 0 .. streams, last : Nat, seen : SUBSET Msgs, on : BOOLEAN]
  OBVIOUS
<1>3. Sound(inbox, outbox, stream_file)
  BY DEF Sound, StreamFiles
<1> QED BY <1>1, <1>2, <1>3 DEF Types, NoMsg

\* Files stay well formed while processes and streams are counted up.
LEMMA SoundStays ==
    ASSUME Types, run' \in Nat, run' >= run, streams' \in Nat, streams' >= streams
    PROVE  /\ Sent \subseteq Sent' /\ StreamFiles \subseteq StreamFiles'
           /\ \A i, o, s : Sound(i, o, s) => Sound(i, o, s)'
<1>1. 1 .. run \subseteq 1 .. run' /\ 0 .. streams \subseteq 0 .. streams'
  BY DEF Types
<1>2. Sent \subseteq Sent' /\ StreamFiles \subseteq StreamFiles'
  BY <1>1 DEF Sent, StreamFiles
<1> QED BY <1>2 DEF Sound

\* A rename leaves one state of the files that a power loss can bring back, and
\* it is well formed.
LEMMA RenamedOnce ==
    ASSUME Types, Renamed, run' = run, streams' \in Nat, streams' >= streams
    PROVE  /\ \A f \in undo' : Sound(f.inbox, f.outbox, f.stream_file)'
           /\ \A f, g \in undo' : f = g
<1>1. \A f \in undo' : f.inbox = inbox /\ f.outbox = outbox /\ f.stream_file = stream_file
  BY DEF Renamed, Files
<1>2. Sound(inbox, outbox, stream_file)
  BY DEF Types
<1>3. \A i, o, s : Sound(i, o, s) => Sound(i, o, s)'
  BY SoundStays DEF Types
<1>4. \A f, g \in undo' : f = g
  BY DEF Renamed
<1>5. ASSUME NEW f \in undo'
      PROVE  Sound(f.inbox, f.outbox, f.stream_file)'
  <2>1. Sound(f.inbox, f.outbox, f.stream_file)
    BY <1>1, <1>2
  <2> QED BY <1>3, <2>1
<1> QED BY <1>4, <1>5

\* deque(maxlen=RingSize).append: the entry comes last, and what was there stays
\* in order, without the oldest one if the ring was full.
LEMMA PushedIs ==
    ASSUME NEW e \in Entries, ring \in Seq(Entries), Len(ring) <= RingSize
    PROVE  /\ Pushed(e) \in Seq(Entries) /\ Len(Pushed(e)) <= RingSize
           /\ \E d \in {0, 1} : /\ Len(Pushed(e)) = Len(ring) + 1 - d /\ Len(Pushed(e)) > 0
                              /\ \A k \in DOMAIN Pushed(e) :
                                    IF k + d = Len(ring) + 1 THEN Pushed(e)[k] = e
                                    ELSE k + d \in DOMAIN ring /\ Pushed(e)[k] = ring[k + d]
<1> HIDE DEF Entries
<1> DEFINE longer == Append(ring, e)
<1>1. longer \in Seq(Entries) /\ Len(longer) = Len(ring) + 1
      /\ \A k \in DOMAIN longer : IF k = Len(ring) + 1 THEN longer[k] = e
                                   ELSE k \in DOMAIN ring /\ longer[k] = ring[k]
  OBVIOUS
<1>2. Len(ring) \in Nat /\ RingSize \in Nat \ {0}
  BY StoreAssumption
<1> HIDE DEF longer
<1>3. CASE Len(longer) > RingSize
  <2>1. longer # <<>>
    BY <1>1, <1>2
  <2>2. Tail(longer) \in Seq(Entries) /\ Len(Tail(longer)) = Len(ring)
        /\ \A k \in DOMAIN Tail(longer) : k + 1 \in DOMAIN longer /\ Tail(longer)[k] = longer[k + 1]
    BY <1>1, <2>1
  <2>3. Pushed(e) = Tail(longer) /\ Len(ring) > 0
    BY <1>1, <1>2, <1>3 DEF Pushed, longer
  <2>4. Len(Pushed(e)) = Len(ring) + 1 - 1
    BY <1>2, <2>2, <2>3
  <2> QED BY <1>1, <1>2, <2>2, <2>3, <2>4
<1>4. CASE ~(Len(longer) > RingSize)
  <2>1. Pushed(e) = longer
    BY <1>4 DEF Pushed, longer
  <2> QED BY <1>1, <1>2, <1>4, <2>1
<1> QED BY <1>3, <1>4

\* Hub.subscribe: the cursor only moves forward within a stream, to an id that
\* was given out, and a client with a valid cursor is told all that is replayed.
LEMMA ReplayedIs ==
    ASSUME Types, Subscribe
    PROVE  LET replay == {e \in index : client.last < e.id /\ e.id < Oldest}
                         \union {ring[k] : k \in {j \in DOMAIN ring : client.last < ring[j].id}}
           IN  /\ client' \in [stream : 0 .. streams, last : Nat, seen : SUBSET Msgs, on : BOOLEAN]
               /\ client'.stream = stream /\ client'.on
               /\ client.stream # stream => client'.last = 0
               /\ client.stream = stream => client'.last = client.last \/ client'.last < next_id
               /\ client.stream = stream /\ client.last # 0 => client'.last # 0
               /\ client.seen \subseteq client'.seen
               /\ ValidCursor => \A e \in replay : e.msg \in client'.seen
<1> DEFINE replay == {e \in index : client.last < e.id /\ e.id < Oldest}
                     \union {ring[k] : k \in {j \in DOMAIN ring : client.last < ring[j].id}}
           told == IF ValidCursor THEN replay ELSE {}
<1>1. client' = [stream |-> stream,
                 last |-> IF told # {} THEN Max({e.id : e \in told})
                          ELSE IF client.stream = stream THEN client.last ELSE 0,
                 seen |-> client.seen \union {e.msg : e \in told},
                 on |-> TRUE]
  <2>1. {ring[k] : k \in {j \in DOMAIN ring : client.last < ring[j].id}}
        = {e \in {ring[k] : k \in DOMAIN ring} : client.last < e.id}
    OBVIOUS
  <2> QED BY <2>1 DEF Subscribe, Oldest
<1>2. \A e \in told : e \in Entries /\ client.last < e.id /\ e.id < next_id
  <2>1. Oldest <= next_id /\ Oldest \in Nat
    <3>1. next_id \in Nat /\ pc # "dead"
      BY DEF Types, Subscribe
    <3>2. ring # <<>> => ring[1] \in Entries /\ ring[1].id < next_id
      <4>1. ring \in Seq(Entries) /\ (\A k \in DOMAIN ring : ring[k].id < next_id)
        BY <3>1 DEF Types
      <4> HIDE DEF Types
      <4> QED BY <4>1
    <3> QED BY <3>1, <3>2 DEF Oldest, Entries
  <2>2. \A k \in DOMAIN ring : ring[k] \in Entries /\ ring[k].id < next_id
    BY DEF Types, Subscribe
  <2> QED BY <2>1, <2>2 DEF Types, Entries
<1>3. told # {} => LET top == Max({e.id : e \in told})
                   IN  top \in Nat /\ client.last < top /\ top < next_id
  <2> SUFFICES ASSUME told # {} PROVE LET top == Max({e.id : e \in told})
                   IN  top \in Nat /\ client.last < top /\ top < next_id
    OBVIOUS
  <2> DEFINE ids == {e.id : e \in told}
  <2> HIDE DEF told
  <2>1. ids \in SUBSET Nat /\ ids # {} /\ \A x \in ids : x < next_id /\ client.last < x
    BY <1>2 DEF Entries
  <2>2. next_id \in Nat
    BY DEF Types
  <2> HIDE DEF ids
  <2>3. Max(ids) \in ids
    BY <2>1, <2>2, MaxExists
  <2>4. Max(ids) \in Nat /\ client.last < Max(ids) /\ Max(ids) < next_id
    BY <2>1, <2>3
  <2> QED BY <2>4 DEF ids
<1>4. {e.msg : e \in told} \subseteq Msgs
  BY <1>2 DEF Entries
<1>5. stream \in 0 .. streams /\ client.last \in Nat /\ client.seen \subseteq Msgs
  BY DEF Types
<1>6. ValidCursor => told = replay
  OBVIOUS
<1>7. client.stream # stream => told = {}
  BY DEF ValidCursor
<1> HIDE DEF told, replay
<1> DEFINE top == Max({e.id : e \in told})
<1>8. told # {} => top \in Nat /\ client.last < top /\ top < next_id
  BY <1>3
<1>9. client' = [stream |-> stream,
                 last |-> IF told # {} THEN top
                          ELSE IF client.stream = stream THEN client.last ELSE 0,
                 seen |-> client.seen \union {e.msg : e \in told}, on |-> TRUE]
  BY <1>1
<1> HIDE DEF top
<1>10. /\ client' \in [stream : 0 .. streams, last : Nat, seen : SUBSET Msgs, on : BOOLEAN]
       /\ client'.stream = stream /\ client'.on
       /\ client.stream # stream => client'.last = 0
       /\ client.stream = stream => client'.last = client.last \/ client'.last < next_id
       /\ client.stream = stream /\ client.last # 0 => client'.last # 0
       /\ client'.seen = client.seen \union {e.msg : e \in told}
  BY <1>4, <1>5, <1>7, <1>8, <1>9
<1>11. ValidCursor => \A e \in replay : e.msg \in client'.seen
  BY <1>6, <1>10
<1> QED BY <1>10, <1>11 DEF replay

\* Every step keeps the types.
LEMMA TypesStep ==
    ASSUME Types, [Next]_vars
    PROVE  Types'
<1>1. CASE Start
  <2>1. /\ run' = run + 1 /\ run' \in Nat /\ run' >= run
        /\ streams' \in Nat /\ streams' >= streams
    BY <1>1 DEF Start, Types
  <2>2. \A i, o, s : Sound(i, o, s) => Sound(i, o, s)'
    BY <2>1, SoundStays
  <2>3. Sent \subseteq Sent'
    BY <2>1, SoundStays
  <2>4. /\ Sound(inbox, outbox, stream_file)' /\ \A f, g \in undo' : f = g
        /\ \A f \in undo' : Sound(f.inbox, f.outbox, f.stream_file)'
        /\ stream' \in 1 .. streams' /\ next_id' \in Nat \ {0}
    <3>1. CASE stream_file.stream # 0
      <4>1. UNCHANGED <<inbox, outbox, stream_file, undo, streams>>
            /\ stream' = stream_file.stream /\ next_id' = stream_file.next
        BY <1>1, <3>1 DEF Start
      <4>2. stream' \in 1 .. streams' /\ next_id' \in Nat \ {0}
        BY <3>1, <4>1 DEF Types, Sound, StreamFiles
      <4>3. \A f \in undo : Sound(f.inbox, f.outbox, f.stream_file)'
        BY <2>2 DEF Types
      <4>4. Sound(inbox, outbox, stream_file)'
        <5>1. Sound(inbox, outbox, stream_file)
          BY DEF Types
        <5> QED BY <2>3, <4>1, <5>1 DEF Sound, StreamFiles
      <4> QED BY <4>1, <4>2, <4>3, <4>4 DEF Types
    <3>2. CASE ~(stream_file.stream # 0)
      <4>1. /\ stream_file' = [stream |-> streams', next |-> 1] /\ stream' = streams'
            /\ streams' = streams + 1 /\ next_id' = 1
            /\ undo' = {Files} /\ UNCHANGED <<inbox, outbox>>
        BY <1>1, <3>2 DEF Start, PersistStream, Renamed
      <4>2. Sound(inbox, outbox, stream_file)'
        BY <2>1, <2>3, <4>1 DEF Sound, StreamFiles, Types
      <4>3. \A f \in undo' : Sound(f.inbox, f.outbox, f.stream_file)
        BY <4>1 DEF Files, Types
      <4>4. \A f, g \in undo' : f = g
        BY <4>1
      <4>5. stream' \in 1 .. streams' /\ next_id' \in Nat \ {0}
        BY <4>1 DEF Types
      <4> QED BY <2>2, <4>2, <4>3, <4>4, <4>5
    <3> QED BY <3>1, <3>2
  <2>5. ring' \in Seq(Entries) /\ Len(ring') <= RingSize /\ DOMAIN ring' = {}
    BY <1>1, StoreAssumption DEF Start
  <2>6. index' \subseteq Entries /\ out_index' \subseteq Sent'
    BY <1>1, <2>3 DEF Start, Types, Sound
  <2>7. client' \in [stream : 0 .. streams', last : Nat, seen : SUBSET Msgs, on : BOOLEAN]
    BY <1>1, <2>1 DEF Start, Types, clientVars
  <2>8. pc' = "idle" /\ pc = "dead" /\ UNCHANGED <<msg, sim, owed, power_losses, disk_faults>>
    BY <1>1 DEF Start, clientVars
  <2> QED BY <2>1, <2>4, <2>5, <2>6, <2>7, <2>8 DEF Types
<1>2. CASE UNCHANGED <<run, streams>>
  <2>1. UNCHANGED <<Sent, StreamFiles>>
    BY <1>2 DEF Sent, StreamFiles
  <2>2. ASSUME NEW m \in Msgs, Read(m)
        PROVE  Types'
    BY <2>1, <2>2, StoreAssumption DEF Types, Read, diskVars, clientVars, boundVars, NoMsg, Sound
  <2>16. pc # "dead" => \A k \in DOMAIN ring : ring[k].id < next_id /\ ring[k].id < next_id + 1
    <3>1. \A k \in DOMAIN ring : ring[k].id \in Nat
      <4>1. ring \in Seq(Entries)
        BY DEF Types
      <4>2. \A k \in DOMAIN ring : ring[k] \in Entries
        BY <4>1
      <4> QED BY <4>2 DEF Entries
    <3>2. next_id \in Nat
      BY DEF Types
    <3> QED BY <3>1, <3>2 DEF Types
  <2>3. CASE WriteMessage
    <3>1. msg \in Msgs /\ next_id \in Nat \ {0} /\ Entry(next_id, msg) \in Entries
      BY <2>3 DEF Types, WriteMessage, Entry, Entries
    <3>2. Sound(inbox, outbox, stream_file)'
      BY <2>1, <2>3, <3>1 DEF Types, WriteMessage, Sound
    <3>3. /\ \A f \in undo' : Sound(f.inbox, f.outbox, f.stream_file)'
          /\ \A f, g \in undo' : f = g
      BY <1>2, <2>3, RenamedOnce DEF WriteMessage, Types
    <3>4. \A k \in DOMAIN ring' : ring'[k].id < next_id'
      BY <2>3, <2>16 DEF WriteMessage
    <3> QED BY <1>2, <2>1, <2>3, <3>1, <3>2, <3>3, <3>4 DEF Types, WriteMessage, clientVars, boundVars
  <2>4. CASE Persist
    <3>1. Sound(inbox, outbox, stream_file)'
      BY <2>1, <2>4 DEF Types, Persist, PersistStream, Sound, StreamFiles
    <3>2. /\ \A f \in undo' : Sound(f.inbox, f.outbox, f.stream_file)'
          /\ \A f, g \in undo' : f = g
      BY <1>2, <2>4, RenamedOnce DEF Persist, Types
    <3> QED BY <1>2, <2>1, <2>4, <3>1, <3>2 DEF Types, Persist, hubVars, clientVars, boundVars
  <2>5. ASSUME UNCHANGED diskVars
        PROVE  /\ Sound(inbox, outbox, stream_file)' /\ \A f, g \in undo' : f = g
               /\ \A f \in undo' : Sound(f.inbox, f.outbox, f.stream_file)'
    BY <2>1, <2>5 DEF Types, diskVars, Sound
  <2>6. CASE SaveFails
    <3>1. \A k \in DOMAIN ring' : ring'[k].id < next_id'
      BY <2>6, <2>16 DEF SaveFails
    <3> QED BY <1>2, <2>1, <2>5, <2>6, <3>1 DEF SaveFails, Types, clientVars
  <2>7. CASE Offer
    <3> DEFINE e == Entry(next_id - 1, msg)
    <3>1. e \in Entries
      <4>1. next_id - 1 \in Nat \ {0} /\ msg \in Msgs
        BY <2>7 DEF Types, Offer
      <4> QED BY <4>1 DEF Entry, Entries
    <3>2. ring' \in Seq(Entries) /\ Len(ring') <= RingSize
      <4> HIDE DEF e
      <4> QED BY <2>7, <3>1, PushedIs DEF Types, Offer, e
    <3>3. client' \in [stream : 0 .. streams', last : Nat, seen : SUBSET Msgs, on : BOOLEAN]
          /\ client'.on = client.on
      <4>1. client' = client \/ client' = Handled(e)
        BY <2>7 DEF Offer
      <4>2. e.id \in Nat /\ e.msg \in Msgs
        BY <3>1 DEF Entries
      <4> HIDE DEF e
      <4>3. client \in [stream : 0 .. streams', last : Nat, seen : SUBSET Msgs, on : BOOLEAN]
        BY <1>2 DEF Types
      <4> QED BY <4>1, <4>2, <4>3 DEF Handled
    <3>4. owed' \subseteq Msgs
      BY <2>7 DEF Offer, Types
    <3>5. \A k \in DOMAIN ring' : ring'[k].id < next_id
      <4>1. \A k \in DOMAIN ring' : ring'[k] = e \/ \E j \in DOMAIN ring : ring'[k] = ring[j]
        <5> HIDE DEF e
        <5>1. ring' = Pushed(e)
          BY <2>7 DEF Offer, e
        <5>2. ring \in Seq(Entries) /\ Len(ring) <= RingSize
          BY DEF Types
        <5> QED BY <3>1, <5>1, <5>2, PushedIs
      <4>2. e.id < next_id
        BY DEF Entry, Types
      <4>3. \A j \in DOMAIN ring : ring[j].id < next_id
        BY <2>7 DEF Offer, Types
      <4> QED BY <4>1, <4>2, <4>3
    <3> QED BY <1>2, <2>1, <2>5, <2>7, <3>2, <3>3, <3>4, <3>5 DEF Offer, Types, boundVars
  <2>8. CASE DeleteFromSim
    BY <1>2, <2>1, <2>5, <2>8 DEF DeleteFromSim, Types, hubVars, clientVars, boundVars
  <2>9. ASSUME NEW k \in 1 .. Outgoing, NEW state \in {"sending", "final"}, SaveOutbound(k, state)
        PROVE  Types'
    <3> DEFINE r == [run |-> run, id |-> k, state |-> state]
    <3>1. r \in Sent
      BY <2>9 DEF SaveOutbound, Sent, Types
    <3>2. Sound(inbox, outbox, stream_file)' /\ out_index' \subseteq Sent
      BY <2>1, <2>9, <3>1 DEF Types, SaveOutbound, Sound, OutIndexed
    <3>3. /\ \A f \in undo' : Sound(f.inbox, f.outbox, f.stream_file)'
          /\ \A f, g \in undo' : f = g
      BY <1>2, <2>9, RenamedOnce DEF SaveOutbound, Types
    <3> QED BY <1>2, <2>1, <2>9, <3>2, <3>3 DEF Types, SaveOutbound, clientVars, boundVars
  <2>10. CASE Subscribe
    <3>1. client' \in [stream : 0 .. streams, last : Nat, seen : SUBSET Msgs, on : BOOLEAN]
      BY <2>10, ReplayedIs DEF Types
    <3>2. pc' = pc /\ pc # "dead" /\ owed' \in {owed, {}}
      BY <2>10 DEF Subscribe
    <3> QED BY <1>2, <2>1, <2>5, <2>10, <3>1, <3>2 DEF Subscribe, Types, hubVars, boundVars
  <2>11. CASE Break
    <3>1. client' \in [stream : 0 .. streams', last : Nat, seen : SUBSET Msgs, on : BOOLEAN]
          /\ ~client'.on
      BY <1>2, <2>11 DEF Break, Types
    <3> QED BY <1>2, <2>1, <2>5, <2>11, <3>1 DEF Break, Types, hubVars, boundVars
  <2>12. CASE Crash
    <3>1. client' \in [stream : 0 .. streams', last : Nat, seen : SUBSET Msgs, on : BOOLEAN]
          /\ ~client'.on
      BY <1>2, <2>12 DEF Crash, Die, Types
    <3> QED BY <1>2, <2>1, <2>5, <2>12, <3>1 DEF Crash, Die, Types, hubVars
  <2>13. CASE PowerLoss
    <3>1. Sound(inbox, outbox, stream_file)' /\ undo' = {}
      <4>1. PICK f \in undo \union {Files} : inbox' = f.inbox /\ outbox' = f.outbox /\ stream_file' = f.stream_file
        BY <2>13 DEF PowerLoss
      <4>2. Sound(f.inbox, f.outbox, f.stream_file)
        BY DEF Files, Types
      <4> QED BY <2>1, <2>13, <4>1, <4>2 DEF PowerLoss, Sound
    <3>2. client' \in [stream : 0 .. streams', last : Nat, seen : SUBSET Msgs, on : BOOLEAN]
          /\ ~client'.on
      BY <1>2, <2>13 DEF PowerLoss, Die, Types
    <3> QED BY <1>2, <2>1, <2>13, <3>1, <3>2 DEF PowerLoss, Die, Types, hubVars
  <2>14. CASE Damage
    <3>1. Sound(inbox, outbox, stream_file)' /\ undo' = {}
      BY <2>1, <2>14 DEF Damage, Types, Sound, StreamFiles
    <3> QED BY <1>2, <2>1, <2>14, <3>1 DEF Damage, Types, hubVars, clientVars
  <2>15. CASE UNCHANGED vars
    BY <2>1, <2>5, <2>15 DEF vars, Types, hubVars, clientVars, boundVars
  <2> QED BY <1>1, <2>2, <2>3, <2>4, <2>6, <2>7, <2>8, <2>9, <2>10, <2>11, <2>12, <2>13, <2>14, <2>15 DEF Next
<1>3. Start \/ UNCHANGED <<run, streams>>
  BY DEF Next, Read, WriteMessage, Persist, SaveFails, Offer, DeleteFromSim, SaveOutbound, Subscribe,
         Break, Crash, PowerLoss, Damage, vars, boundVars
<1> QED BY <1>1, <1>2, <1>3

\* Every step keeps the outbox history: save_outbound replaces the entry with the
\* record's id, and a process that starts reads a history without its own ids.
LEMMA HistoryStep ==
    ASSUME Types, Types', OutboxHistory, [Next]_vars
    PROVE  OutboxHistory'
<1> USE DEF OutboxHistory
<1>1. CASE Start
  <2>1. outbox' = outbox /\ run' = run + 1
    BY <1>1 DEF Start
  <2>3. run \in Nat /\ outbox \subseteq Sent
    BY DEF Types, Sound
  <2>2. \A f \in outbox : f.run <= run /\ f.run \in Nat
    BY <2>3 DEF Sent
  <2> QED BY <2>1, <2>2, <2>3
<1>2. ASSUME NEW k \in 1 .. Outgoing, NEW state \in {"sending", "final"}, SaveOutbound(k, state)
      PROVE  OutboxHistory'
  <2> DEFINE r == [run |-> run, id |-> k, state |-> state]
  <2>1. outbox' = {f \in outbox : f.run # run \/ f.id # k} \union {r}
        /\ out_index' = {e \in out_index : e.id # r.id} \union {r} /\ UNCHANGED <<pc, run>>
    BY <1>2 DEF SaveOutbound, OutIndexed, boundVars
  <2>2. r.id = k
    OBVIOUS
  <2> HIDE DEF r
  <2>3. ASSUME NEW f \in outbox', pc # "dead", f.run = run
        PROVE  {e \in out_index' : e.id = f.id} = {f}
    <3>1. CASE f = r
      BY <2>1, <2>2, <3>1
    <3>2. CASE f # r
      <4>1. f \in outbox /\ f.id # k
        BY <2>1, <2>3, <3>2
      <4>2. {e \in out_index : e.id = f.id} = {f}
        BY <2>3, <4>1
      <4> QED BY <2>1, <2>2, <4>1, <4>2
    <3> QED BY <3>1, <3>2
  <2> QED BY <2>1, <2>3
<1>3. CASE pc' = "dead"
  BY <1>3
<1>4. CASE UNCHANGED <<pc, run, outbox, out_index>> \/ (pc # "dead" /\ UNCHANGED <<run, outbox, out_index>>)
  BY <1>4
<1>5. \/ Start \/ pc' = "dead"
      \/ UNCHANGED <<pc, run, outbox, out_index>> \/ (pc # "dead" /\ UNCHANGED <<run, outbox, out_index>>)
      \/ \E k \in 1 .. Outgoing, state \in {"sending", "final"} : SaveOutbound(k, state)
  BY DEF Next, Read, WriteMessage, Persist, SaveFails, Offer, DeleteFromSim, Subscribe, Break, Crash,
         PowerLoss, Die, Damage, vars, boundVars, hubVars, diskVars
<1> QED BY <1>1, <1>2, <1>3, <1>4, <1>5

\* Fewer messages are missing when more are held.
LEMMA Fewer ==
    ASSUME NEW S, NEW T, Msgs \intersect S \subseteq T
    PROVE  /\ Cardinality(Msgs \ S) \in Nat /\ Cardinality(Msgs \ T) \in Nat
           /\ Cardinality(Msgs \ T) <= Cardinality(Msgs \ S)
<1>1. IsFiniteSet(Msgs \ S) /\ IsFiniteSet(Msgs \ T)
  BY StoreAssumption, FS_Difference
<1>2. Msgs \ T \in SUBSET (Msgs \ S)
  OBVIOUS
<1> QED BY <1>1, <1>2, FS_CardinalityType, FS_Subset

\* One message less held is at most one more missing.
LEMMA OneMore ==
    ASSUME NEW S, NEW T, NEW m, Msgs \intersect S \subseteq T \union {m}
    PROVE  Cardinality(Msgs \ T) <= Cardinality(Msgs \ S) + 1
<1>1. IsFiniteSet(Msgs \ S) /\ IsFiniteSet((Msgs \ S) \union {m})
  BY StoreAssumption, FS_Difference, FS_AddElement
<1>2. Msgs \ T \in SUBSET ((Msgs \ S) \union {m})
  OBVIOUS
<1>3. Cardinality((Msgs \ S) \union {m}) <= Cardinality(Msgs \ S) + 1
  BY <1>1, FS_AddElement, FS_CardinalityType
<1>4. Cardinality(Msgs \ T) <= Cardinality((Msgs \ S) \union {m})
  BY <1>1, <1>2, FS_Subset
<1>5. Cardinality(Msgs \ T) \in Nat /\ Cardinality((Msgs \ S) \union {m}) \in Nat
      /\ Cardinality(Msgs \ S) \in Nat
  BY <1>1, <1>2, FS_CardinalityType, FS_Subset
<1> QED BY <1>3, <1>4, <1>5

\* Every step keeps the messages: deleted from the SIM is only what two renames
\* hold, or what a failed save has cost.
LEMMA HeldStep ==
    ASSUME Types, Held, [Next]_vars
    PROVE  Held'
<1> USE DEF Held
<1> DEFINE Saved(i) == i = inbox \/ \E f \in undo : i = f.inbox
           NewOnes == /\ \E i : Saved(i) /\ Texts(i) \subseteq Texts(inbox')
                      /\ \A f \in undo' : Saved(f.inbox)
<1>1. \A i : Saved(i) => Missing(i) <= disk_faults
  OBVIOUS
<1>2. ASSUME NewOnes, OnSim \subseteq OnSim', disk_faults' = disk_faults
      PROVE  Missing(inbox)' <= disk_faults' /\ \A f \in undo' : Missing(f.inbox)' <= disk_faults'
  <2>1. \A i, j : Texts(i) \subseteq Texts(j) =>
            Missing(i) \in Nat /\ Missing(j)' \in Nat /\ Missing(j)' <= Missing(i)
    BY <1>2, Fewer DEF Missing
  <2>2. disk_faults \in Nat
    BY DEF Types
  <2>3. \A i, j : Saved(i) /\ Texts(i) \subseteq Texts(j) => Missing(j)' <= disk_faults'
    BY <1>1, <1>2, <2>1, <2>2
  <2> QED BY <1>2, <2>3
<1>3. CASE Start
  <2>1. /\ UNCHANGED <<inbox, sim, disk_faults>> /\ pc = "dead" /\ pc' = "idle"
        /\ \A f \in undo' : f \in undo \/ f.inbox = inbox
    BY <1>3 DEF Start, Renamed, Files
  <2>2. OnSim \subseteq OnSim'
    BY <2>1 DEF OnSim, Doomed
  <2> QED BY <1>2, <2>1, <2>2
<1>4. ASSUME NEW m, Read(m)
      PROVE  Held'
  <2>1. UNCHANGED <<inbox, undo, sim, disk_faults>> /\ pc' = "write"
    BY <1>4 DEF Read, diskVars, boundVars
  <2>2. OnSim \subseteq OnSim'
    BY <2>1 DEF OnSim, Doomed
  <2> QED BY <1>2, <2>1, <2>2
<1>5. CASE WriteMessage
  <2>1. /\ UNCHANGED <<sim, disk_faults, msg>> /\ pc' = "persist" /\ inbox \subseteq inbox'
        /\ Entry(next_id, msg) \in inbox' /\ \A f \in undo' : f.inbox = inbox
    BY <1>5 DEF WriteMessage, Renamed, Files, boundVars
  <2>2. OnSim \subseteq OnSim'
    BY <2>1 DEF OnSim, Doomed
  <2>3. msg \in Texts(inbox') /\ Texts(inbox) \subseteq Texts(inbox')
    BY <2>1 DEF Texts, Entry
  <2> QED BY <1>2, <2>1, <2>2, <2>3
<1>6. CASE Persist
  <2>1. /\ UNCHANGED <<inbox, sim, disk_faults, msg>> /\ pc = "persist" /\ pc' = "offer"
        /\ \A f \in undo' : f.inbox = inbox
    BY <1>6 DEF Persist, Renamed, Files, boundVars
  <2>2. OnSim \subseteq OnSim'
    BY <2>1 DEF OnSim, Doomed
  <2> QED BY <1>2, <2>1, <2>2
<1>7. CASE SaveFails
  <2>1. UNCHANGED <<inbox, undo, sim, msg>> /\ disk_faults' = disk_faults + 1
        /\ pc' = "delete" /\ pc # "delete"
    BY <1>7 DEF SaveFails, diskVars
  <2>2. OnSim \subseteq OnSim' \union {msg}
    BY <2>1 DEF OnSim, Doomed
  <2>3. \A i : Missing(i)' <= Missing(i) + 1 /\ Missing(i) \in Nat /\ Missing(i)' \in Nat
    BY <2>1, <2>2, Fewer, OneMore DEF Missing
  <2>4. disk_faults \in Nat
    BY DEF Types
  <2>5. \A i : Saved(i) => Missing(i)' <= disk_faults'
    BY <1>1, <2>1, <2>3, <2>4
  <2> QED BY <2>1, <2>5
<1>8. CASE Offer
  <2>1. UNCHANGED <<inbox, undo, sim, msg, disk_faults>> /\ pc = "offer" /\ pc' = "delete"
    BY <1>8 DEF Offer, diskVars, boundVars
  <2>2. OnSim \subseteq OnSim' \union {msg}
    BY <2>1 DEF OnSim, Doomed
  <2>3. \A i : Saved(i) => msg \in Texts(i)
    BY <2>1
  <2>4. \A i : Saved(i) => Missing(i)' <= Missing(i) /\ Missing(i) \in Nat /\ Missing(i)' \in Nat
    BY <2>2, <2>3, Fewer DEF Missing
  <2>5. disk_faults \in Nat
    BY DEF Types
  <2>6. \A i : Saved(i) => Missing(i)' <= disk_faults'
    BY <1>1, <2>1, <2>4, <2>5
  <2> QED BY <2>1, <2>6
<1>9. CASE DeleteFromSim
  <2>1. UNCHANGED <<inbox, undo, disk_faults>> /\ pc = "delete" /\ pc' = "idle" /\ sim' = sim \ {msg}
    BY <1>9 DEF DeleteFromSim, diskVars, boundVars
  <2>2. OnSim \subseteq OnSim'
    BY <2>1 DEF OnSim, Doomed
  <2> QED BY <1>2, <2>1, <2>2
<1>10. ASSUME NEW k, NEW state, SaveOutbound(k, state)
       PROVE  Held'
  <2>1. UNCHANGED <<inbox, sim, disk_faults, pc, msg>> /\ pc = "idle" /\ \A f \in undo' : f.inbox = inbox
    BY <1>10 DEF SaveOutbound, Renamed, Files, boundVars
  <2>2. OnSim \subseteq OnSim'
    BY <2>1 DEF OnSim, Doomed
  <2> QED BY <1>2, <2>1, <2>2
<1>11. CASE Subscribe \/ Break \/ UNCHANGED vars
  <2>1. UNCHANGED <<inbox, undo, sim, disk_faults, pc, msg>>
    BY <1>11 DEF Subscribe, Break, vars, diskVars, boundVars
  <2>2. OnSim \subseteq OnSim'
    BY <2>1 DEF OnSim, Doomed
  <2> QED BY <1>2, <2>1, <2>2
<1>12. CASE Crash \/ PowerLoss \/ Damage
  <2>1. /\ UNCHANGED <<sim, disk_faults>> /\ pc' = "dead"
        /\ Saved(inbox') /\ \A f \in undo' : f \in undo
    BY <1>12 DEF Crash, PowerLoss, Damage, Die, Files, diskVars
  <2>2. OnSim \subseteq OnSim'
    BY <2>1 DEF OnSim, Doomed
  <2> QED BY <1>2, <2>1, <2>2
<1> QED BY <1>3, <1>4, <1>5, <1>6, <1>7, <1>8, <1>9, <1>10, <1>11, <1>12 DEF Next

\* What the client is owed stays told or findable in a step that leaves the
\* client's cursor alone and takes nothing from the files, the SIM and the ring.
LEMMA BehindStays ==
    ASSUME Types, Types', Behind,
           client'.stream = client.stream, client'.last = client.last, client'.seen = client.seen,
           client'.on => client.on /\ stream' = stream, owed' = owed, OnSim \subseteq OnSim',
           stream_file'.stream \in {stream_file.stream, 0} \/ stream_file'.stream # client.stream,
           inbox \subseteq inbox',
           stream_file'.stream # 0 => Top <= Top',
           pc' # "dead" => \A e \in inbox : e.id < Top /\ Oldest' <= e.id =>
                              pc # "dead" /\ Oldest <= e.id /\ (InRing(e) => InRing(e)')
    PROVE  Behind'
<1>1. Top \in Int /\ Top' \in Int /\ client.last \in Nat /\ \A e \in inbox : e.id \in Nat
  <2>1. stream_file.next \in Nat /\ stream_file'.next \in Nat
    BY DEF Types, Sound, StreamFiles
  <2>2. inbox \subseteq Entries
    BY DEF Types, Sound
  <2>3. client.last \in Nat
    BY DEF Types
  <2> QED BY <2>1, <2>2, <2>3 DEF Top, Entries
<1>2. \A m : Told(m) => Told(m)'
  BY DEF Told
<1>3. ASSUME NEW m, Findable(m), stream_file'.stream # 0
      PROVE  Findable(m)'
  <2>1. PICK e \in inbox : /\ e.msg = m /\ client.last < e.id /\ e.id < Top
                           /\ pc # "dead" /\ Oldest <= e.id => InRing(e)
    BY <1>3 DEF Findable
  <2>2. e \in inbox' /\ client'.last < e.id /\ e.id < Top'
    BY <1>1, <1>3, <2>1
  <2>3. (pc # "dead" /\ Oldest <= e.id => InRing(e))'
    BY <2>1
  <2> QED BY <2>1, <2>2, <2>3 DEF Findable
<1>4. client.stream = stream_file'.stream /\ client.stream # 0 =>
         client.stream = stream_file.stream /\ client.last < Top'
  BY <1>1 DEF Behind
<1> QED BY <1>2, <1>3, <1>4 DEF Behind

\* Every step keeps the process and the client in agreement.
LEMMA CursorsStep ==
    ASSUME Types, Types', Cursors, [Next]_vars
    PROVE  Cursors'
<1> DEFINE Fine == disk_faults = 0 /\ power_losses = 0
<1>0. SUFFICES ASSUME Fine' PROVE ((pc # "dead" => Serving) /\ Behind)'
  BY DEF Cursors
<1>1. disk_faults \in Nat /\ power_losses \in Nat
  BY DEF Types
<1>2. Fine
  <2>1. disk_faults' \in {disk_faults, disk_faults + 1}
    BY DEF Next, Start, Read, WriteMessage, Persist, SaveFails, Offer, DeleteFromSim, SaveOutbound,
           Subscribe, Break, Crash, PowerLoss, Damage, vars, boundVars
  <2>2. power_losses' \in {power_losses, power_losses + 1}
    BY DEF Next, Start, Read, WriteMessage, Persist, SaveFails, Offer, DeleteFromSim, SaveOutbound,
           Subscribe, Break, Crash, PowerLoss, Damage, vars, boundVars
  <2> QED BY <1>0, <1>1, <2>1, <2>2
<1>3. (pc # "dead" => Serving) /\ Behind
  BY <1>2 DEF Cursors
<1> HIDE DEF Fine
<1>4. stream_file.next \in Nat /\ next_id \in Nat /\ next_id' \in Nat /\ stream_file'.next \in Nat
  BY DEF Types, Sound, StreamFiles
<1>5. inbox \subseteq Entries /\ \A e \in inbox : e.id \in Nat \ {0}
  BY DEF Types, Sound, Entries
<1>7. CASE Start
  <2>1. /\ pc = "dead" /\ pc' = "idle" /\ ring' = <<>> /\ UNCHANGED <<inbox, sim, client, owed>>
        /\ index' = inbox /\ stream' = stream_file'.stream /\ next_id' = stream_file'.next
        /\ \/ UNCHANGED stream_file
           \/ stream_file'.stream = streams + 1
    BY <1>7 DEF Start, PersistStream, clientVars
  <2>2. Serving'
    BY <2>1 DEF Serving
  <2>3. ~client.on /\ client.stream # streams + 1
    BY <2>1 DEF Types
  <2>4. OnSim \subseteq OnSim'
    BY <2>1 DEF OnSim, Doomed
  <2>5. CASE UNCHANGED stream_file
    <3>1. Top' = Top
      BY <2>1, <2>5 DEF Top
    <3>2. \A e \in inbox : e.id < Top => ~(Oldest' <= e.id)
      BY <1>4, <1>5, <2>1, <2>5 DEF Top, Oldest
    <3> QED BY <1>3, <1>4, <2>1, <2>2, <2>3, <2>4, <2>5, <3>1, <3>2, BehindStays DEF Top
  <2>6. CASE stream_file'.stream = streams + 1
    <3>1. Behind'
      BY <1>3, <2>1, <2>3, <2>4, <2>6 DEF Behind, Told
    <3> QED BY <2>2, <3>1
  <2> QED BY <2>1, <2>5, <2>6
<1>8. ASSUME NEW m, Read(m)
      PROVE  (Serving /\ Behind)'
  <2>1. /\ UNCHANGED <<inbox, stream_file, stream, next_id, ring, index, sim, client, owed>>
        /\ pc = "idle" /\ pc' = "write"
    BY <1>8 DEF Read, diskVars, clientVars
  <2>2. OnSim \subseteq OnSim' /\ Top' = Top /\ Oldest' = Oldest /\ \A e : InRing(e) => InRing(e)'
    BY <2>1 DEF OnSim, Doomed, Top, Oldest, InRing
  <2>3. Serving'
    BY <1>3, <2>1, <2>2 DEF Serving
  <2> QED BY <1>3, <1>4, <2>1, <2>2, <2>3, BehindStays DEF Top
<1>9. CASE WriteMessage
  <2>1. /\ UNCHANGED <<stream_file, stream, ring, sim, client, owed, msg>>
        /\ inbox' = inbox \union {Entry(next_id, msg)} /\ index' = index \union {Entry(next_id, msg)}
        /\ next_id' = next_id + 1 /\ pc = "write" /\ pc' = "persist"
    BY <1>9 DEF WriteMessage, clientVars
  <2>2. OnSim \subseteq OnSim' /\ Top' = Top /\ \A e : InRing(e) => InRing(e)'
    BY <2>1 DEF OnSim, Doomed, Top, InRing
  <2>3. next_id = stream_file.next
    BY <1>3, <2>1 DEF Serving
  <2>4. \A e \in inbox : e.id < Top /\ Oldest' <= e.id => Oldest <= e.id
    BY <1>4, <1>5, <2>1, <2>3 DEF Top, Oldest
  <2>5. Entry(next_id' - 1, msg') \in inbox'
    BY <1>4, <2>1
  <2>6. Serving'
    BY <1>3, <2>1, <2>2, <2>5 DEF Serving
  <2> QED BY <1>3, <1>4, <2>1, <2>2, <2>4, <2>6, BehindStays DEF Top
<1>10. CASE Persist
  <2>1. /\ UNCHANGED <<inbox, stream, next_id, ring, index, sim, client, owed, msg>>
        /\ stream_file'.stream = stream /\ stream_file'.next = next_id
        /\ pc = "persist" /\ pc' = "offer"
    BY <1>10 DEF Persist, PersistStream, hubVars, clientVars
  <2>2. next_id = stream_file.next + 1 /\ stream = stream_file.stream
    BY <1>3, <2>1 DEF Serving
  <2>3. Top' = Top
    BY <1>4, <2>1, <2>2 DEF Top
  <2>4. OnSim \subseteq OnSim' /\ Oldest' = Oldest /\ \A e : InRing(e) => InRing(e)'
    BY <2>1 DEF OnSim, Doomed, Oldest, InRing
  <2>5. Serving'
    BY <1>3, <2>1, <2>3 DEF Serving
  <2> QED BY <1>3, <1>4, <2>1, <2>2, <2>3, <2>4, <2>5, BehindStays DEF Top
<1>11. CASE Offer
  <2> PICK e : e = Entry(next_id - 1, msg)
    OBVIOUS
  <2>1. /\ UNCHANGED <<inbox, stream_file, stream, next_id, index, sim, msg>>
        /\ ring' = Pushed(e) /\ client' = (IF client.on THEN Handled(e) ELSE client)
        /\ owed' = IF client.stream = stream /\ client'.last # 0 THEN owed \union {msg} ELSE owed
        /\ pc = "offer" /\ pc' = "delete"
    BY <1>11 DEF Offer, diskVars
  <2>2. /\ stream = stream_file.stream /\ index = inbox /\ next_id = stream_file.next
        /\ e \in inbox /\ e.id = next_id - 1 /\ e.msg = msg /\ Top = e.id /\ Top' = next_id
        /\ stream > 0 /\ e \in Entries
    BY <1>3, <1>5, <2>1 DEF Serving, Top, Entry, Types
  <2>3. /\ \A k \in DOMAIN ring : ring[k].id < Top /\ ring[k].id \in Nat
        /\ \A j, k \in DOMAIN ring : j < k => ring[j].id < ring[k].id
        /\ Len(ring) \in Nat /\ DOMAIN ring = 1 .. Len(ring)
    <3>1. ring \in Seq(Entries)
      BY DEF Types
    <3>2. \A k \in DOMAIN ring : ring[k] \in Entries
      BY <3>1
    <3> QED BY <1>3, <2>1, <3>1, <3>2 DEF Serving, Entries
  <2>4. PICK d \in {0, 1} :
              /\ Len(ring') = Len(ring) + 1 - d /\ Len(ring') > 0 /\ DOMAIN ring' = 1 .. Len(ring')
              /\ \A k \in DOMAIN ring' : IF k + d = Len(ring) + 1 THEN ring'[k] = e
                                         ELSE k + d \in DOMAIN ring /\ ring'[k] = ring[k + d]
    <3>1. ring \in Seq(Entries) /\ Len(ring) <= RingSize
      BY DEF Types
    <3>2. /\ ring' \in Seq(Entries)
          /\ \E d \in {0, 1} : /\ Len(ring') = Len(ring) + 1 - d /\ Len(ring') > 0
                             /\ \A k \in DOMAIN ring' :
                                   IF k + d = Len(ring) + 1 THEN ring'[k] = e
                                   ELSE k + d \in DOMAIN ring /\ ring'[k] = ring[k + d]
      <4>1. ring' = Pushed(e) /\ e \in Entries
        BY <2>1, <2>2
      <4> QED BY <3>1, <4>1, PushedIs
    <3>3. DOMAIN ring' = 1 .. Len(ring')
      BY <3>2
    <3> QED BY <3>2, <3>3
  <2>5. /\ \A k \in DOMAIN ring' : ring'[k].id < Top'
        /\ \A j, k \in DOMAIN ring' : j < k => ring'[j].id < ring'[k].id
    <3>1. e.id \in Nat /\ Top' = e.id + 1 /\ Top = e.id
      BY <1>4, <1>5, <2>2
    <3>2. \A k \in DOMAIN ring' : /\ k \in Nat /\ k + d <= Len(ring) + 1
                                /\ (k + d # Len(ring) + 1 => k + d \in DOMAIN ring)
      BY <2>3, <2>4
    <3>3. \A k \in DOMAIN ring' : ring'[k].id \in Nat /\ ring'[k].id < Top'
      BY <2>3, <2>4, <3>1, <3>2
    <3>4. ASSUME NEW j \in DOMAIN ring', NEW k \in DOMAIN ring', j < k
          PROVE  ring'[j].id < ring'[k].id
      <4>1. j + d < k + d /\ j + d # Len(ring) + 1 /\ j + d \in DOMAIN ring /\ ring'[j] = ring[j + d]
        BY <2>3, <2>4, <3>2, <3>4
      <4>2. CASE k + d = Len(ring) + 1
        BY <2>3, <2>4, <3>1, <4>1, <4>2
      <4>3. CASE k + d # Len(ring) + 1
        BY <2>3, <2>4, <3>2, <4>1, <4>3
      <4> QED BY <4>2, <4>3
    <3> QED BY <3>3, <3>4
  <2>6. Serving'
    BY <1>3, <2>1, <2>2, <2>5 DEF Serving
  <2>7. InRing(e)'
    <3>1. Len(ring') \in DOMAIN ring' /\ Len(ring') + d = Len(ring) + 1
      BY <2>3, <2>4
    <3> QED BY <2>4, <3>1 DEF InRing
  <2>8. ASSUME NEW f \in inbox, f.id < Top, Oldest' <= f.id
        PROVE  Oldest <= f.id /\ (InRing(f) => InRing(f)')
    <3>1. f.id \in Nat /\ e.id \in Nat /\ f.id < e.id
      BY <1>5, <2>2, <2>8
    <3>2. Oldest' = ring'[1].id /\ 1 \in DOMAIN ring'
      <4>1. ring' # <<>> /\ 1 \in DOMAIN ring'
        BY <2>4
      <4> QED BY <4>1 DEF Oldest
    <3>3. 1 + d # Len(ring) + 1
      BY <2>4, <2>8, <3>1, <3>2
    <3>4. 1 + d \in DOMAIN ring /\ ring'[1] = ring[1 + d]
      BY <2>4, <3>2, <3>3
    <3>5. Oldest = ring[1].id /\ 1 \in DOMAIN ring
      BY <2>3, <3>4 DEF Oldest
    <3>6. Oldest <= f.id
      BY <2>3, <2>8, <3>1, <3>2, <3>4, <3>5
    <3>7. ASSUME NEW k \in DOMAIN ring, ring[k] = f
          PROVE  InRing(f)'
      <4>1. k >= 1 + d
        BY <2>3, <2>8, <3>1, <3>2, <3>4, <3>7
      <4>2. k - d \in DOMAIN ring' /\ (k - d) + d = k /\ k # Len(ring) + 1
        BY <2>3, <2>4, <4>1
      <4>3. ring'[k - d] = f
        BY <2>4, <3>7, <4>2
      <4> QED BY <4>2, <4>3 DEF InRing
    <3> QED BY <3>6, <3>7 DEF InRing
  <2>9. OnSim' = OnSim \ {msg}
    BY <2>1 DEF OnSim, Doomed
  <2>10. CASE client.on
    <3>1. /\ client'.stream = stream /\ client'.last = e.id /\ client'.seen = client.seen \union {msg}
          /\ client'.on /\ client.stream = stream
      BY <1>3, <2>1, <2>2, <2>10 DEF Handled, Behind, Types
    <3>2. \A m \in owed' : Told(m)'
      BY <1>3, <2>1, <2>9, <2>10, <3>1 DEF Told, Behind
    <3>3. e.id # 0 /\ e.id < Top'
      BY <1>4, <1>5, <2>2
    <3> QED BY <2>1, <2>2, <2>6, <3>1, <3>2, <3>3 DEF Behind
  <2>11. CASE ~client.on
    <3>1. client' = client
      BY <2>1, <2>11
    <3>2. ASSUME client.stream = stream
          PROVE  client.last < Top' /\ \A m \in owed' : (Told(m) \/ Findable(m))'
      <4>1. client.last < Top /\ \A m \in owed : Told(m) \/ Findable(m)
        BY <1>3, <2>2, <3>2 DEF Behind
      <4>2. client.last < Top'
        BY <1>4, <2>2, <4>1 DEF Types
      <4>3. Findable(msg)'
        BY <1>4, <2>1, <2>2, <2>7, <3>1, <4>1 DEF Findable
      <4>4. \A m : Told(m) => Told(m)' \/ m = msg
        BY <2>9, <3>1 DEF Told
      <4>5. \A m : Findable(m) => Findable(m)'
        BY <1>4, <1>5, <2>1, <2>2, <2>8, <3>1 DEF Findable
      <4> QED BY <2>1, <4>1, <4>2, <4>3, <4>4, <4>5
    <3>3. owed' # {} => client.last # 0
      BY <1>3, <2>1, <3>1 DEF Behind
    <3> QED BY <1>3, <2>1, <2>2, <2>6, <2>11, <3>1, <3>2, <3>3 DEF Behind
  <2> QED BY <2>10, <2>11
<1>12. CASE DeleteFromSim \/ \E k \in 1 .. Outgoing, state \in {"sending", "final"} : SaveOutbound(k, state)
  <2>1. /\ UNCHANGED <<inbox, stream_file, stream, next_id, ring, index, client, owed>>
        /\ pc \in {"delete", "idle"} /\ pc' = "idle"
        /\ sim' = IF pc = "delete" THEN sim \ {msg} ELSE sim
    BY <1>12 DEF DeleteFromSim, SaveOutbound, diskVars, hubVars, clientVars
  <2>2. OnSim \subseteq OnSim' /\ Top' = Top /\ Oldest' = Oldest /\ \A e : InRing(e) => InRing(e)'
    BY <2>1 DEF OnSim, Doomed, Top, Oldest, InRing
  <2>3. Serving'
    BY <1>3, <2>1, <2>2 DEF Serving
  <2> QED BY <1>3, <1>4, <2>1, <2>2, <2>3, BehindStays DEF Top
<1>13. CASE Subscribe
  <2>1. /\ UNCHANGED <<inbox, stream_file, stream, next_id, ring, index, sim, pc, msg>>
        /\ pc \in {"idle", "delete"} /\ ~client.on
        /\ owed' = IF client.stream = stream THEN owed ELSE {}
    BY <1>13 DEF Subscribe, diskVars, hubVars
  <2>2. OnSim' = OnSim /\ Top' = Top
    BY <2>1 DEF OnSim, Doomed, Top
  <2>3. Serving'
    BY <1>3, <2>1, <2>2 DEF Serving
  <2>4. stream = stream_file.stream /\ Top = next_id /\ stream > 0 /\ next_id > 0 /\ index = inbox
    BY <1>3, <2>1 DEF Serving, Top, Types
  <2>5. /\ client'.stream = stream /\ client'.on
        /\ client.stream # stream => client'.last = 0
        /\ client.stream = stream => client'.last = client.last \/ client'.last < next_id
        /\ client.stream = stream /\ client.last # 0 => client'.last # 0
        /\ client.seen \subseteq client'.seen
    BY <1>13, ReplayedIs
  <2>6. ASSUME NEW m \in owed'
        PROVE  Told(m)'
    <3>1. client.stream = stream /\ m \in owed /\ client.last # 0 /\ client.last < next_id
      BY <1>3, <2>1, <2>4, <2>6 DEF Behind
    <3>2. Told(m) \/ Findable(m)
      BY <1>3, <2>4, <3>1 DEF Behind
    <3>3. ASSUME NEW e \in inbox, e.msg = m, client.last < e.id, Oldest <= e.id => InRing(e)
          PROVE  m \in client'.seen
      <4>1. ValidCursor
        BY <3>1 DEF ValidCursor
      <4>2. e \in {x \in index : client.last < x.id /\ x.id < Oldest}
                 \union {ring[k] : k \in {j \in DOMAIN ring : client.last < ring[j].id}}
        <5>1. Oldest \in Nat
          <6>1. ring \in Seq(Entries)
            BY DEF Types
          <6>2. ring # <<>> => ring[1] \in Entries
            BY <6>1
          <6> QED BY <1>4, <6>2 DEF Oldest, Entries
        <5>2. CASE Oldest <= e.id
          BY <3>3, <5>2 DEF InRing
        <5>3. CASE ~(Oldest <= e.id)
          BY <1>5, <2>4, <3>3, <5>1, <5>3
        <5> QED BY <5>2, <5>3
      <4> QED BY <1>13, <3>3, <4>1, <4>2, ReplayedIs
    <3> QED BY <2>1, <2>2, <2>5, <3>2, <3>3 DEF Told, Findable
  <2>7. client'.last < Top'
    BY <1>3, <1>4, <2>2, <2>4, <2>5 DEF Behind
  <2>8. owed' # {} => client'.last # 0
    BY <1>3, <2>1, <2>5 DEF Behind
  <2>9. Behind'
    BY <1>4, <2>1, <2>4, <2>5, <2>6, <2>7, <2>8 DEF Behind
  <2> QED BY <2>3, <2>9
<1>14. CASE Break \/ UNCHANGED vars
  <2>1. /\ UNCHANGED <<inbox, stream_file, stream, next_id, ring, index, sim, owed, pc, msg>>
        /\ client'.stream = client.stream /\ client'.last = client.last
        /\ client'.seen = client.seen /\ (client'.on => client.on)
    BY <1>14 DEF Break, vars, diskVars, hubVars, clientVars, Types
  <2>2. OnSim \subseteq OnSim' /\ Top' = Top /\ Oldest' = Oldest /\ \A e : InRing(e) => InRing(e)'
    BY <2>1 DEF OnSim, Doomed, Top, Oldest, InRing
  <2>3. pc # "dead" => Serving'
    BY <1>3, <2>1, <2>2 DEF Serving
  <2> QED BY <1>3, <1>4, <2>1, <2>2, <2>3, BehindStays DEF Top
<1>15. CASE Crash \/ Damage
  <2>1. /\ UNCHANGED <<inbox, sim, owed>> /\ pc' = "dead"
        /\ client'.stream = client.stream /\ client'.last = client.last
        /\ client'.seen = client.seen /\ ~client'.on
        /\ stream_file' = stream_file \/ stream_file'.stream = 0
    BY <1>15 DEF Crash, Damage, Die, diskVars, clientVars, Types
  <2>2. OnSim \subseteq OnSim'
    BY <2>1 DEF OnSim, Doomed
  <2>3. stream_file'.stream # 0 => Top <= Top'
    BY <1>4, <2>1 DEF Top
  <2> QED BY <1>3, <2>1, <2>2, <2>3, BehindStays
<1>16. ~SaveFails /\ ~PowerLoss
  BY <1>0, <1>1 DEF Fine, SaveFails, PowerLoss
<1> QED BY <1>7, <1>8, <1>9, <1>10, <1>11, <1>12, <1>13, <1>14, <1>15, <1>16 DEF Next

\* Without files, processes and clients there is nothing to agree about.
LEMMA OthersInit ==
    ASSUME Init
    PROVE  Held /\ Cursors /\ OutboxHistory
<1>1. Missing(inbox) = 0
  <2>1. Msgs \ (OnSim \union Texts(inbox)) = {}
    BY DEF Init, OnSim, Doomed
  <2> QED BY <2>1, FS_EmptySet DEF Missing
<1>2. Held
  BY <1>1 DEF Init, Held
<1>3. Behind
  BY DEF Init, Behind
<1> QED BY <1>2, <1>3 DEF Init, Cursors, OutboxHistory

\* The inductive invariant.
Inv == Types /\ Held /\ Cursors /\ OutboxHistory

\* The inductive invariant holds in every reachable state.
LEMMA Always == Spec => []Inv
<1>1. Init => Inv
  BY TypesInit, OthersInit DEF Inv
<1>2. ASSUME Inv, [Next]_vars
      PROVE  Inv'
  <2>1. Types'
    BY <1>2, TypesStep DEF Inv
  <2> QED BY <1>2, <2>1, HeldStep, CursorsStep, HistoryStep DEF Inv
<1> QED BY <1>1, <1>2, PTL DEF Spec

\* TypeOK: files, indexes and program points are well formed, and at most one
\* rename can be undone (store.py _write).
THEOREM TypeInvariant == Spec => []TypeOK
<1>1. ASSUME Inv
      PROVE  TypeOK
  <2>1. Cardinality(undo) <= 1
    <3>1. \A f, g \in undo : f = g
      BY <1>1 DEF Inv, Types
    <3>2. CASE undo = {}
      BY <3>2, FS_EmptySet
    <3>3. CASE undo # {}
      <4>1. PICK f \in undo : undo = {f}
        BY <3>1, <3>3
      <4> QED BY <4>1, FS_Singleton
    <3> QED BY <3>2, <3>3
  <2>2. Types
    BY <1>1 DEF Inv
  <2>3. /\ inbox \subseteq [id : Nat \ {0}, msg : Msgs]
        /\ index \subseteq [id : Nat \ {0}, msg : Msgs]
        /\ out_index \subseteq [run : 1 .. run, id : 1 .. Outgoing, state : {"sending", "final"}]
        /\ stream_file \in [stream : 0 .. streams, next : Nat]
    BY <2>2 DEF Types, Sound, Entries, Sent, StreamFiles
  <2>4. /\ pc \in {"dead", "idle", "write", "persist", "offer", "delete"}
        /\ (msg = NoMsg) = (pc \in {"dead", "idle"})
        /\ Len(ring) <= RingSize /\ sim \subseteq Msgs /\ owed \subseteq Msgs
    BY <2>2 DEF Types
  <2> QED BY <2>1, <2>3, <2>4 DEF TypeOK
<1> QED BY <1>1, Always, PTL

\* SavedBeforeDeleted: "delete-from-SIM then happens after the file is fsynced"
\* (PLAN.md:255).  Every message is on the SIM or in a file that survives any
\* crash and power loss, but for those whose save failed (worker.py:380-387).
THEOREM MessagesAreSaved == Spec => []SavedBeforeDeleted
<1>1. ASSUME Inv
      PROVE  SavedBeforeDeleted
  <2> SUFFICES ASSUME NEW f \in undo \union {Files}
               PROVE  Cardinality(Msgs \ (sim \union Durable(f))) <= disk_faults
    BY DEF SavedBeforeDeleted
  <2>1. Missing(f.inbox) <= disk_faults
    BY <1>1 DEF Inv, Held, Files
  <2>2. OnSim \union Texts(f.inbox) \subseteq sim \union Durable(f)
    BY DEF OnSim, Durable, Texts
  <2>3. /\ Cardinality(Msgs \ (sim \union Durable(f))) <= Missing(f.inbox)
        /\ Cardinality(Msgs \ (sim \union Durable(f))) \in Nat /\ Missing(f.inbox) \in Nat
    BY <2>2, Fewer DEF Missing
  <2>4. disk_faults \in Nat
    BY <1>1 DEF Inv, Types
  <2> QED BY <2>1, <2>3, <2>4
<1> QED BY <1>1, Always, PTL

\* CursorSkipsNothing: a client's cursor is never past a message that it was
\* owed and has not got, across crashes and lost streams (hub.py publish and
\* subscribe, store.py replay_after), while no save fails and no power is lost.
THEOREM NothingIsSkipped == Spec => []CursorSkipsNothing
<1>1. ASSUME Inv
      PROVE  CursorSkipsNothing
  <2> SUFFICES ASSUME disk_faults = 0, power_losses = 0, client.stream = stream,
                      client.last # 0, pc # "dead", NEW m \in owed
               PROVE  m \in client.seen \union sim \union Replayed
    BY DEF CursorSkipsNothing
  <2>1. Serving /\ Behind
    BY <1>1 DEF Inv, Cursors
  <2>2. Told(m) \/ Findable(m)
    BY <2>1 DEF Behind, Serving
  <2>3. Findable(m) => m \in Replayed
    <3>1. index = inbox /\ (\A e \in inbox : e.id \in Nat) /\ client.last \in Nat
      BY <1>1, <2>1 DEF Inv, Types, Sound, Entries, Serving
    <3> QED BY <3>1 DEF Findable, Replayed
  <2>4. Told(m) => m \in client.seen \union sim
    BY DEF Told, OnSim
  <2> QED BY <2>2, <2>3, <2>4
<1> QED BY <1>1, Always, PTL

\* CounterAhead: an id that a subscriber may know is not given to another message
\* of the stream after a crash (store.py save_inbound persists the counter
\* before hub.py publish offers the message).
THEOREM CounterIsAhead == Spec => []CounterAhead
<1>1. ASSUME Inv
      PROVE  CounterAhead
  <2> SUFFICES ASSUME disk_faults = 0, power_losses = 0, client.stream = stream_file.stream,
                      client.stream # 0
               PROVE  client.last < stream_file.next
    BY DEF CounterAhead
  <2>1. client.last < Top
    BY <1>1 DEF Inv, Cursors, Behind
  <2>2. stream_file.next \in Nat /\ client.last \in Nat
    BY <1>1 DEF Inv, Types, Sound, StreamFiles
  <2> QED BY <2>1, <2>2 DEF Top
<1> QED BY <1>1, Always, PTL

\* OutboxHistory: the outbox history shows each message of this process once, as
\* last saved (store.py save_outbound, whose ids begin at 1 in every process).
THEOREM HistoryIsOne == Spec => []OutboxHistory
<1>1. Inv => OutboxHistory
  BY DEF Inv
<1> QED BY <1>1, Always, PTL
=============================================================================
