---------------------------- MODULE RelayProofs ----------------------------
(***************************************************************************)
(* What the client makes of its sessions, for any messages, bounds and     *)
(* configurations: one fault drops one message at most, an SMS fires again *)
(* only through a reset of Home Assistant, and the cursor passes over what *)
(* a full queue dropped and nothing else.                                  *)
(***************************************************************************)
EXTENDS Relay, FiniteSetTheorems, FunctionTheorems, SequenceTheorems, TLAPS

\* What a session carries: messages, the hello that opens it, gap markers.
MessageEvents == [kind : {"message"}, id : Nat \ {0}, msg : Msgs]
HelloEvents == [kind : {"hello"}, id : Nat \ {0}]
Events == MessageEvents \cup HelloEvents \cup {Gap}

\* The variables are well formed.
Types ==
    /\ cfg \in Configs
    /\ stream \in Nat \ {0} /\ log \in Seq(Msgs)
    /\ pending \in SUBSET Ids /\ published \in SUBSET Msgs /\ sim \in SUBSET Msgs
    /\ deletable \in SUBSET published
    /\ conn \in BOOLEAN /\ wire \in Seq(Events) /\ lost \in SUBSET Ids
    /\ box \in [queue : Seq(MessageEvents \cup {Gap}), gapped : BOOLEAN]
    /\ st \in [stream_id : Nat, last_id : Nat, journal : Seq(Msgs)]
    /\ pc \in {"down", "reading", "firing", "fired"}
    /\ current \in {<<>>} \cup {<<e>> : e \in MessageEvents}
    /\ fired \in [Msgs -> Nat] /\ since \in Nat
    /\ resets \in Nat /\ faults \in Nat

\* Is a message that is on its way the one the log has under its id?
Matches(e) == e.kind = "message" => e.id \in Ids /\ e.msg = log[e.id]
Matching(q) == \A k \in DOMAIN q : Matches(q[k])

\* How they agree: pending ids are of published messages, no stream is
\* announced before it is there, the bounds are kept.
Agree ==
    /\ \A id \in pending : log[id] \in published
    /\ st.stream_id <= stream
    /\ \A k \in DOMAIN wire : wire[k].kind = "hello" => wire[k].id <= stream
    /\ Matching(box.queue)
    /\ Len(box.queue) <= cfg.queueMax /\ (~conn => box = NoBox)
    /\ Len(st.journal) <= cfg.journalKeep
    /\ (current = <<>>) <=> (pc \in {"down", "reading"})
    /\ resets <= faults
    /\ pc = "down" => ~conn /\ wire = <<>>

\* The message whose post to Home Assistant is under way, if any.
Posting(m) == pc = "firing" /\ current[1].msg = m

\* Messages in the journal that never arrived, the one under way left out.
Missing == {m \in Range(st.journal) : fired[m] = 0 /\ ~Posting(m)}
FaultsCover == IsFiniteSet(Missing) /\ Cardinality(Missing) <= faults

\* The journal keeps every message there is (state.py JOURNAL_KEEP): no
\* message is so old that it is forgotten while it may still be read again.
JournalHolds == IsFiniteSet(Msgs) /\ \A c \in Configs : Cardinality(Msgs) <= c.journalKeep

\* A message in hand is in the journal (mark-then-fire).
InHand == \A k \in DOMAIN current : Seen(current[k].msg)

\* The journal has no message twice, and has every message that was posted;
\* one whose post is under way has arrived by repetition only.
Once ==
    /\ \A j, k \in DOMAIN st.journal : j # k => st.journal[j] # st.journal[k]
    /\ \A m \in Msgs : /\ ~Seen(m) => fired[m] = 0
                       /\ Posting(m) => fired[m] <= resets
                       /\ fired[m] <= 1 + resets
    /\ InHand

Ordered(q) == \A j, k \in DOMAIN q :
    j < k /\ q[j].kind = "message" /\ q[k].kind = "message" => q[j].id < q[k].id
Done(k) == Seen(log[k]) \/ k \in lost

\* With a store there is one stream, and a client has a cursor of it or none.
OneStream ==
    /\ stream = 1 /\ pending = {}
    /\ st.last_id # 0 => st.stream_id = 1
    /\ st.last_id <= Len(log)
    /\ pc \in {"firing", "fired"} => st.stream_id = 1
    /\ pc = "reading" /\ st.stream_id = 0 /\ (conn \/ wire # <<>>) =>
            wire # <<>> /\ wire[1].kind = "hello"

\* Messages are on their way in ascending order, and are those of the log.
InOrder ==
    /\ Matching(wire) /\ Matching(current)
    /\ Ordered(wire) /\ Ordered(box.queue)
    /\ \A i \in IdsOf(wire), j \in IdsOf(box.queue) : i < j

\* A message ahead of the cursor and of the message in hand: it is on its way,
\* or it was published or left behind after all that is still on its way, in a
\* session that ended.
Ahead(k) ==
    /\ st.last_id < k
    /\ \A j \in DOMAIN current : current[j].id < k
    /\ \/ k \in IdsOf(wire) \cup IdsOf(box.queue)
       \/ ~conn /\ \A i \in IdsOf(wire) : i < k

\* What the client is owed is done or ahead of it.
Covered == \A k \in Ids : since <= k /\ ~Done(k) => Ahead(k)

Sessions == cfg.store => OneStream /\ InOrder /\ Covered
-----------------------------------------------------------------------------
(* Events, sequences and the journal.                                      *)

\* The events tell their kinds apart.
LEMMA EventFacts ==
    /\ Gap \in Events /\ Gap.kind = "gap" /\ Gap.id = 0
    /\ \A id \in Nat \ {0}, m \in Msgs :
          /\ Message(id, m) \in MessageEvents /\ Message(id, m).kind = "message"
          /\ Message(id, m).id = id /\ Message(id, m).msg = m
    /\ stream \in Nat \ {0} => Hello \in HelloEvents /\ Hello.kind = "hello" /\ Hello.id = stream
    /\ \A e \in MessageEvents : /\ e.kind = "message" /\ e.id \in Nat \ {0} /\ e.msg \in Msgs
                                /\ e # Gap
    /\ \A e \in HelloEvents : e.kind = "hello" /\ e.id \in Nat \ {0}
    /\ \A e \in Events : /\ e.kind = "message" => e \in MessageEvents
                         /\ e.kind = "hello" => e \in HelloEvents
BY DEF Events, MessageEvents, HelloEvents, Message, Hello, Gap

\* A sequence and its elements, and what Head, Tail and Append do.
LEMMA SeqFacts ==
    ASSUME NEW S, NEW q \in Seq(S)
    PROVE  /\ Len(q) \in Nat /\ DOMAIN q = 1 .. Len(q)
           /\ \A k \in DOMAIN q : q[k] \in S
           /\ (q = <<>>) <=> (Len(q) = 0)
BY LenProperties, EmptySeq, ElementOfSeq

\* What is read from a queue, and what is left of it.
LEMMA TailFacts ==
    ASSUME NEW S, NEW q \in Seq(S), q # <<>>
    PROVE  /\ Head(q) = q[1] /\ Head(q) \in S /\ Tail(q) \in Seq(S) /\ 1 \in DOMAIN q
           /\ Len(q) \in Nat \ {0} /\ Len(Tail(q)) = Len(q) - 1
           /\ \A k \in DOMAIN Tail(q) : k + 1 \in DOMAIN q /\ Tail(q)[k] = q[k + 1]
           /\ \A k \in DOMAIN q : k # 1 => k - 1 \in DOMAIN Tail(q) /\ q[k] = Tail(q)[k - 1]
<1>1. Len(q) \in Nat /\ Len(q) # 0 /\ DOMAIN q = 1 .. Len(q) /\ \A k \in DOMAIN q : q[k] \in S
  BY SeqFacts
<1>2. Head(q) = q[1]
  OBVIOUS
<1>3. /\ Tail(q) \in Seq(S) /\ Len(Tail(q)) = Len(q) - 1
      /\ \A k \in 1 .. Len(Tail(q)) : Tail(q)[k] = q[k + 1]
  BY HeadTailProperties
<1>4. DOMAIN Tail(q) = 1 .. Len(q) - 1
  BY <1>3, SeqFacts
<1> QED BY <1>1, <1>2, <1>3, <1>4

\* What is put at the end of a queue.
LEMMA AppendFacts ==
    ASSUME NEW S, NEW q \in Seq(S), NEW e \in S
    PROVE  /\ Append(q, e) \in Seq(S) /\ Len(Append(q, e)) = Len(q) + 1
           /\ Append(q, e) # <<>>
           /\ DOMAIN Append(q, e) = 1 .. Len(q) + 1
           /\ \A k \in DOMAIN q : k \in DOMAIN Append(q, e) /\ Append(q, e)[k] = q[k]
           /\ Append(q, e)[Len(q) + 1] = e /\ Len(q) + 1 \in DOMAIN Append(q, e)
           /\ \A k \in DOMAIN Append(q, e) : k \in DOMAIN q \/ k = Len(q) + 1
<1>1. Len(q) \in Nat /\ DOMAIN q = 1 .. Len(q)
  BY SeqFacts
<1>2. /\ Append(q, e) \in Seq(S) /\ Len(Append(q, e)) = Len(q) + 1 /\ Append(q, e) # <<>>
      /\ \A k \in 1 .. Len(q) : Append(q, e)[k] = q[k]
      /\ Append(q, e)[Len(q) + 1] = e
  BY AppendProperties
<1>3. DOMAIN Append(q, e) = 1 .. Len(q) + 1
  BY <1>1, <1>2, SeqFacts
<1> QED BY <1>1, <1>2, <1>3

\* The ids on their way when the oldest event is taken ...
LEMMA TailIds ==
    ASSUME NEW q \in Seq(Events), q # <<>>, Ordered(q)
    PROVE  /\ Ordered(Tail(q))
           /\ IdsOf(Tail(q)) \subseteq IdsOf(q)
           /\ Head(q).kind = "message" => /\ IdsOf(q) \subseteq {Head(q).id} \cup IdsOf(Tail(q))
                                          /\ Head(q).id \in IdsOf(q)
                                          /\ \A i \in IdsOf(Tail(q)) : Head(q).id < i
           /\ Head(q).kind # "message" => IdsOf(q) \subseteq IdsOf(Tail(q))
<1>1. /\ Head(q) = q[1] /\ Tail(q) \in Seq(Events) /\ 1 \in DOMAIN q
      /\ \A k \in DOMAIN Tail(q) : k + 1 \in DOMAIN q /\ Tail(q)[k] = q[k + 1]
      /\ \A k \in DOMAIN q : k # 1 => k - 1 \in DOMAIN Tail(q) /\ q[k] = Tail(q)[k - 1]
  BY TailFacts
<1>2. DOMAIN q \subseteq Nat \ {0} /\ DOMAIN Tail(q) \subseteq Nat \ {0}
  <2>1. /\ Len(q) \in Nat /\ DOMAIN q = 1 .. Len(q)
        /\ Len(Tail(q)) \in Nat /\ DOMAIN Tail(q) = 1 .. Len(Tail(q))
    BY <1>1, SeqFacts
  <2> QED BY <2>1
<1>3. Ordered(Tail(q))
  <2> SUFFICES ASSUME NEW j \in DOMAIN Tail(q), NEW k \in DOMAIN Tail(q), j < k,
                      Tail(q)[j].kind = "message", Tail(q)[k].kind = "message"
               PROVE  Tail(q)[j].id < Tail(q)[k].id
    BY DEF Ordered
  <2>1. j + 1 \in DOMAIN q /\ k + 1 \in DOMAIN q /\ j + 1 < k + 1
    BY <1>1, <1>2
  <2>2. Tail(q)[j] = q[j + 1] /\ Tail(q)[k] = q[k + 1]
    BY <1>1
  <2> QED BY <2>1, <2>2 DEF Ordered
<1>4. IdsOf(Tail(q)) \subseteq IdsOf(q)
  BY <1>1 DEF IdsOf
<1>7. ASSUME NEW i \in IdsOf(q)
      PROVE  i \in IdsOf(Tail(q)) \/ (Head(q).kind = "message" /\ i = Head(q).id)
  <2>1. PICK k \in DOMAIN q : q[k].kind = "message" /\ i = q[k].id
    BY DEF IdsOf
  <2>2. k = 1 => Head(q).kind = "message" /\ i = Head(q).id
    BY <1>1, <2>1
  <2>3. k # 1 => i \in IdsOf(Tail(q))
    BY <1>1, <2>1 DEF IdsOf
  <2> QED BY <2>2, <2>3
<1>5. ASSUME Head(q).kind = "message"
      PROVE  /\ IdsOf(q) \subseteq {Head(q).id} \cup IdsOf(Tail(q))
             /\ Head(q).id \in IdsOf(q)
             /\ \A i \in IdsOf(Tail(q)) : Head(q).id < i
  <2>1. IdsOf(q) \subseteq {Head(q).id} \cup IdsOf(Tail(q))
    BY <1>7
  <2>2. Head(q).id \in IdsOf(q)
    BY <1>1, <1>5 DEF IdsOf
  <2>3. ASSUME NEW i \in IdsOf(Tail(q)) PROVE Head(q).id < i
    <3>1. PICK k \in DOMAIN Tail(q) : Tail(q)[k].kind = "message" /\ i = Tail(q)[k].id
      BY DEF IdsOf
    <3>2. k + 1 \in DOMAIN q /\ 1 < k + 1 /\ Tail(q)[k] = q[k + 1]
      BY <1>1, <1>2
    <3> QED BY <1>1, <1>5, <3>1, <3>2 DEF Ordered
  <2> QED BY <2>1, <2>2, <2>3
<1>6. Head(q).kind # "message" => IdsOf(q) \subseteq IdsOf(Tail(q))
  BY <1>7
<1> QED BY <1>3, <1>4, <1>5, <1>6

\* ... and when one is appended.
LEMMA AppendIds ==
    ASSUME NEW q \in Seq(Events), NEW e \in Events
    PROVE  /\ IdsOf(q) \subseteq IdsOf(Append(q, e))
           /\ e.kind # "message" => IdsOf(Append(q, e)) \subseteq IdsOf(q)
           /\ e.kind = "message" => IdsOf(Append(q, e)) = IdsOf(q) \cup {e.id}
           /\ Ordered(q) /\ (e.kind = "message" => \A i \in IdsOf(q) : i < e.id) =>
                Ordered(Append(q, e))
<1>1. /\ \A k \in DOMAIN q : k \in DOMAIN Append(q, e) /\ Append(q, e)[k] = q[k]
      /\ Append(q, e)[Len(q) + 1] = e /\ Len(q) + 1 \in DOMAIN Append(q, e)
      /\ \A k \in DOMAIN Append(q, e) : k \in DOMAIN q \/ k = Len(q) + 1
  BY AppendFacts
<1>2. Len(q) \in Nat /\ DOMAIN q = 1 .. Len(q)
  BY SeqFacts
<1>3. IdsOf(q) \subseteq IdsOf(Append(q, e))
  BY <1>1 DEF IdsOf
<1>4. e.kind # "message" => IdsOf(Append(q, e)) \subseteq IdsOf(q)
  BY <1>1 DEF IdsOf
<1>5. e.kind = "message" => IdsOf(Append(q, e)) \subseteq IdsOf(q) \cup {e.id}
  BY <1>1 DEF IdsOf
<1>6. e.kind = "message" => e.id \in IdsOf(Append(q, e))
  BY <1>1 DEF IdsOf
<1>7. ASSUME Ordered(q), e.kind = "message" => \A i \in IdsOf(q) : i < e.id
      PROVE  Ordered(Append(q, e))
  <2> DEFINE r == Append(q, e)
  <2> SUFFICES ASSUME NEW j \in DOMAIN r, NEW k \in DOMAIN r, j < k,
                      r[j].kind = "message", r[k].kind = "message"
               PROVE  r[j].id < r[k].id
    BY DEF Ordered
  <2> HIDE DEF r
  <2>1. j \in DOMAIN q /\ r[j] = q[j]
    BY <1>1, <1>2 DEF r
  <2>2. r[j].id \in IdsOf(q)
    BY <2>1 DEF IdsOf
  <2>3. k \in DOMAIN q => r[j].id < r[k].id
    BY <1>1, <1>7, <2>1 DEF r, Ordered
  <2>4. k = Len(q) + 1 => r[j].id < r[k].id
    BY <1>1, <1>7, <2>2 DEF r
  <2> QED BY <1>1, <2>3, <2>4 DEF r
<1> QED BY <1>3, <1>4, <1>5, <1>6, <1>7

\* The sorted replay has exactly the ids to be replayed, in order.
LEMMA AscendingIs ==
    ASSUME log \in Seq(Msgs), NEW S \in SUBSET Ids, NEW q \in Ascending(S)
    PROVE  /\ q \in Seq(S) /\ \A i \in S : \E k \in DOMAIN q : q[k] = i
           /\ \A j, k \in DOMAIN q : j < k => q[j] < q[k]
<1>1. IsFiniteSet(S) /\ S \subseteq Nat
  <2>1. Len(log) \in Nat
    BY SeqFacts
  <2>2. IsFiniteSet(1 .. Len(log)) /\ 1 .. Len(log) \subseteq Nat
    BY <2>1, FS_Interval
  <2> QED BY <2>2, FS_Subset DEF Ids
<1> DEFINE n == Cardinality(S)
<1>2. n \in Nat
  BY <1>1, FS_CardinalityType
<1> HIDE DEF n
<1>3. q \in [1 .. n -> S] /\ \A j, k \in 1 .. n : j < k => q[j] < q[k]
  BY DEF Ascending, n
<1>4. q \in Injection(1 .. n, S)
  <2>1. \A j, k \in 1 .. n : q[j] = q[k] => j = k
    <3>1. \A k \in 1 .. n : q[k] \in Nat
      BY <1>1, <1>3
    <3> QED BY <1>2, <1>3, <3>1
  <2> QED BY <1>3, <2>1, Fun_IsInj
<1>5. Cardinality(1 .. n) = n
  BY <1>2, FS_Interval
<1>6. q \in Surjection(1 .. n, S)
  BY <1>1, <1>4, <1>5, FS_Injection DEF n
<1>7. \A i \in S : \E k \in DOMAIN q : q[k] = i
  BY <1>3, <1>6 DEF Surjection
<1>8. q \in Seq(S)
  BY <1>2, <1>3, SeqDef
<1> QED BY <1>3, <1>7, <1>8

\* A fresh Subscriber: what does not fit is lost with a gap marker, the rest
\* is queued in order.
LEMMA EnqueuedIs ==
    ASSUME log \in Seq(Msgs), cfg.queueMax \in Nat \ {0},
           NEW S \in SUBSET Ids, NEW q \in Ascending(S), NEW b, b = Enqueued(q)
    PROVE  /\ b \in [queue : Seq(MessageEvents \cup {Gap}), gapped : BOOLEAN]
           /\ Len(b.queue) <= cfg.queueMax
           /\ Ordered(b.queue) /\ Matching(b.queue)
           /\ IdsOf(b.queue) \subseteq S
           /\ S \subseteq IdsOf(b.queue) \cup Losing(S, b)
<1> DEFINE messages == [k \in DOMAIN q |-> Message(q[k], log[q[k]])]
           E == MessageEvents \cup {Gap}
           Q == cfg.queueMax
<1>1. /\ Len(q) \in Nat /\ DOMAIN q = 1 .. Len(q) /\ Q \in Nat \ {0}
      /\ \A k \in 1 .. Len(q) : q[k] \in S
      /\ \A i \in S : \E k \in 1 .. Len(q) : q[k] = i
      /\ \A j, k \in 1 .. Len(q) : j < k => q[j] < q[k]
  BY AscendingIs, SeqFacts
<1>2. \A i \in S : i \in Ids /\ i \in Nat \ {0} /\ log[i] \in Msgs
  <2>1. Len(log) \in Nat /\ DOMAIN log = 1 .. Len(log) /\ \A i \in DOMAIN log : log[i] \in Msgs
    BY SeqFacts
  <2> QED BY <2>1 DEF Ids
<1>3. /\ DOMAIN messages = 1 .. Len(q)
      /\ \A k \in 1 .. Len(q) : /\ messages[k] \in MessageEvents /\ messages[k].kind = "message"
                                /\ messages[k].id = q[k] /\ Matches(messages[k])
  BY <1>1, <1>2, EventFacts DEF Matches
<1>4. Gap \in E /\ Gap.kind = "gap" /\ E \subseteq Events
  BY EventFacts DEF Events
<1>7. b = [queue |-> IF Len(q) <= Q THEN messages ELSE Append(SubSeq(messages, 2, Q), Gap),
           gapped |-> Len(q) > Q]
  BY Zenon DEF Enqueued
<1> HIDE DEF messages, E
<1>5. CASE Len(q) <= Q
  <2>1. b = [queue |-> messages, gapped |-> FALSE]
    <3>1. (Len(q) > Q) = FALSE
      BY <1>1, <1>5
    <3> QED BY <1>5, <1>7, <3>1
  <2>2. messages \in Seq(E) /\ Len(messages) = Len(q)
    <3>1. messages = [k \in 1 .. Len(q) |-> messages[k]]
      BY <1>1 DEF messages
    <3>2. \A k \in 1 .. Len(q) : messages[k] \in E
      BY <1>3 DEF E
    <3> QED BY <1>1, <3>1, <3>2, IsASeq, LenProperties
  <2>3. b.queue = messages /\ b.gapped = FALSE /\ b \in [queue : Seq(E), gapped : BOOLEAN]
    BY <2>1, <2>2
  <2>4. Ordered(messages)
    BY <1>1, <1>3 DEF Ordered
  <2>5. IdsOf(messages) = S
    <3>1. IdsOf(messages) \subseteq S
      BY <1>1, <1>3 DEF IdsOf
    <3>2. S \subseteq IdsOf(messages)
      BY <1>1, <1>3 DEF IdsOf
    <3> QED BY <3>1, <3>2
  <2> QED BY <1>3, <1>5, <2>2, <2>3, <2>4, <2>5 DEF E, Matching
<1>6. CASE Len(q) > Q
  <2> DEFINE kept == SubSeq(messages, 2, Q)
             r == Append(kept, Gap)
  <2>1. b = [queue |-> r, gapped |-> TRUE]
    <3>1. ~(Len(q) <= Q) /\ (Len(q) > Q) = TRUE
      BY <1>1, <1>6
    <3> QED BY <1>7, <3>1
  <2>2. /\ kept \in Seq(E) /\ Len(kept) = Q - 1
        /\ \A k \in 1 .. Q - 1 : kept[k] = messages[k + 1]
    <3>1. 2 \in Int /\ Q \in Int /\ \A k \in 2 .. Q : messages[k] \in E
      BY <1>1, <1>3, <1>6 DEF E
    <3>2. /\ kept \in Seq(E) /\ Len(kept) = IF 2 <= Q THEN Q - 2 + 1 ELSE 0
          /\ \A k \in 1 .. Q - 2 + 1 : kept[k] = messages[2 + k - 1]
      BY <3>1, SubSeqProperties
    <3> QED BY <1>1, <3>2
  <2> HIDE DEF kept
  <2>3. DOMAIN kept = 1 .. Q - 1
    BY <2>2, SeqFacts
  <2>4. \A k \in 1 .. Q - 1 : /\ k + 1 \in 1 .. Len(q)
                              /\ kept[k].kind = "message" /\ kept[k].id = q[k + 1]
                              /\ Matches(kept[k])
    <3>1. \A k \in 1 .. Q - 1 : k + 1 \in 1 .. Len(q)
      BY <1>1, <1>6
    <3> QED BY <1>3, <2>2, <3>1
  <2>5. Ordered(kept)
    <3> SUFFICES ASSUME NEW j \in 1 .. Q - 1, NEW k \in 1 .. Q - 1, j < k
                 PROVE  kept[j].id < kept[k].id
      BY <2>3 DEF Ordered
    <3>1. q[j + 1] < q[k + 1]
      BY <1>1, <2>4
    <3> QED BY <2>4, <3>1
  <2>6. kept \in Seq(Events)
    BY <1>4, <2>2, SeqMonotonic
  <2>7. /\ r \in Seq(E) /\ Len(r) = Q
        /\ \A k \in DOMAIN r : Matches(r[k])
    <3>1. /\ r \in Seq(E) /\ Len(r) = Len(kept) + 1 /\ r[Len(kept) + 1] = Gap
          /\ \A k \in DOMAIN kept : r[k] = kept[k]
          /\ \A k \in DOMAIN r : k \in DOMAIN kept \/ k = Len(kept) + 1
      BY <1>4, <2>2, AppendFacts
    <3>2. Matches(Gap)
      BY <1>4 DEF Matches
    <3> QED BY <1>1, <2>2, <2>3, <2>4, <3>1, <3>2
  <2>8. Ordered(r) /\ IdsOf(r) = IdsOf(kept)
    <3>1. Gap \in Events /\ Gap.kind # "message"
      BY <1>4
    <3>2. /\ Ordered(r) /\ IdsOf(kept) \subseteq IdsOf(r)
          /\ IdsOf(r) \subseteq IdsOf(kept)
      BY <2>5, <2>6, <3>1, AppendIds
    <3> QED BY <3>2
  <2>9. IdsOf(kept) \subseteq S
    BY <1>1, <2>3, <2>4 DEF IdsOf
  <2> HIDE DEF r
  <2>10. b.queue = r /\ b.gapped = TRUE /\ b \in [queue : Seq(E), gapped : BOOLEAN]
    BY <2>1, <2>7
  <2>11. S \subseteq IdsOf(r) \cup Losing(S, b)
    BY <2>10 DEF Losing
  <2> QED BY <1>1, <2>7, <2>8, <2>9, <2>10, <2>11 DEF E, Matching
<1> QED BY <1>1, <1>5, <1>6

\* What a session's Subscriber holds after an offer (hub.py Subscriber.offer).
LEMMA OfferedIs ==
    ASSUME cfg.queueMax \in Nat \ {0}, NEW e \in MessageEvents,
           NEW b \in [queue : Seq(MessageEvents \cup {Gap}), gapped : BOOLEAN],
           Len(b.queue) <= cfg.queueMax
    PROVE  /\ Offered(b, e) \in [queue : Seq(MessageEvents \cup {Gap}), gapped : BOOLEAN]
           /\ Len(Offered(b, e).queue) <= cfg.queueMax
           /\ \A k \in DOMAIN Offered(b, e).queue :
                 \/ Offered(b, e).queue[k] = e \/ Offered(b, e).queue[k] = Gap
                 \/ \E j \in DOMAIN b.queue : Offered(b, e).queue[k] = b.queue[j]
           /\ IdsOf(Offered(b, e).queue) \subseteq IdsOf(b.queue) \cup {e.id}
           /\ IdsOf(b.queue) \cup {e.id} \subseteq IdsOf(Offered(b, e).queue)
                 \cup Losing(IdsOf(b.queue) \cup {e.id}, Offered(b, e))
           /\ Ordered(b.queue) /\ (\A i \in IdsOf(b.queue) : i < e.id) =>
                 Ordered(Offered(b, e).queue)
<1> DEFINE c == Offered(b, e)
<1> SUFFICES
    /\ c \in [queue : Seq(MessageEvents \cup {Gap}), gapped : BOOLEAN]
    /\ Len(c.queue) <= cfg.queueMax
    /\ \A k \in DOMAIN c.queue : \/ c.queue[k] = e \/ c.queue[k] = Gap
                                 \/ \E j \in DOMAIN b.queue : c.queue[k] = b.queue[j]
    /\ IdsOf(c.queue) \subseteq IdsOf(b.queue) \cup {e.id}
    /\ IdsOf(b.queue) \cup {e.id} \subseteq
         IdsOf(c.queue) \cup Losing(IdsOf(b.queue) \cup {e.id}, c)
    /\ Ordered(b.queue) /\ (\A i \in IdsOf(b.queue) : i < e.id) => Ordered(c.queue)
  OBVIOUS
<1>6. c = Offered(b, e)
  OBVIOUS
<1> HIDE DEF c
<1> DEFINE E == MessageEvents \cup {Gap}
           q == b.queue
<1>1. /\ q \in Seq(E) /\ e \in E /\ Gap \in E /\ e \in Events /\ e.kind = "message"
      /\ Gap \in Events /\ Gap.kind # "message" /\ q \in Seq(Events)
  <2>1. E \subseteq Events
    BY EventFacts DEF Events
  <2>2. q \in Seq(E)
    OBVIOUS
  <2>3. q \in Seq(Events)
    BY <2>1, <2>2, SeqMonotonic
  <2> QED BY <2>1, <2>2, <2>3, EventFacts
<1>2. Len(q) \in Nat /\ b = [queue |-> q, gapped |-> b.gapped] /\ b.gapped \in BOOLEAN
  BY <1>1, SeqFacts
<1> HIDE DEF E
<1>3. CASE Len(q) < cfg.queueMax
  <2> DEFINE r == Append(q, e)
  <2>1. c = [queue |-> r, gapped |-> b.gapped]
    BY <1>2, <1>3, <1>6 DEF Offered
  <2>2. /\ r \in Seq(E) /\ Len(r) = Len(q) + 1
        /\ \A k \in DOMAIN r : r[k] = e \/ \E j \in DOMAIN q : r[k] = q[j]
    BY <1>1, AppendFacts
  <2>3. /\ IdsOf(r) = IdsOf(q) \cup {e.id}
        /\ Ordered(q) /\ (\A i \in IdsOf(q) : i < e.id) => Ordered(r)
    BY <1>1, AppendIds
  <2> HIDE DEF r
  <2>4. c.queue = r /\ c \in [queue : Seq(E), gapped : BOOLEAN]
    BY <1>2, <2>1, <2>2
  <2>5. Len(c.queue) <= cfg.queueMax
    BY <1>2, <1>3, <2>2, <2>4
  <2> QED BY <2>2, <2>3, <2>4, <2>5 DEF E
<1>4. CASE ~(Len(q) < cfg.queueMax) /\ b.gapped
  <2>1. c = b
    BY <1>4, <1>6 DEF Offered
  <2> QED BY <1>4, <2>1 DEF Losing
<1>5. CASE ~(Len(q) < cfg.queueMax) /\ ~b.gapped
  <2> DEFINE t == Tail(q)
             r == Append(t, Gap)
  <2>1. c = [queue |-> r, gapped |-> TRUE]
    BY <1>5, <1>6 DEF Offered
  <2>2. q # <<>>
    BY <1>2, <1>5, EmptySeq, <1>1
  <2>3. /\ t \in Seq(E) /\ Len(t) = Len(q) - 1
        /\ \A k \in DOMAIN t : \E j \in DOMAIN q : t[k] = q[j]
    BY <1>1, <2>2, TailFacts
  <2>4. t \in Seq(Events)
    BY <1>1, <2>2, TailFacts
  <2>5. Ordered(q) => Ordered(t)
    BY <1>1, <2>2, TailIds
  <2>6. IdsOf(t) \subseteq IdsOf(q)
    <3>1. \A k \in DOMAIN t : k + 1 \in DOMAIN q /\ t[k] = q[k + 1]
      BY <1>1, <2>2, TailFacts
    <3> QED BY <3>1 DEF IdsOf
  <2> HIDE DEF t
  <2>7. /\ r \in Seq(E) /\ Len(r) = Len(t) + 1
        /\ \A k \in DOMAIN r : r[k] = Gap \/ \E j \in DOMAIN t : r[k] = t[j]
    BY <1>1, <2>3, AppendFacts
  <2>8. IdsOf(r) \subseteq IdsOf(t) /\ (Ordered(t) => Ordered(r))
    BY <1>1, <2>4, AppendIds
  <2> HIDE DEF r
  <2>9. c.queue = r /\ c.gapped /\ c \in [queue : Seq(E), gapped : BOOLEAN]
    BY <2>1, <2>7
  <2>10. Len(c.queue) <= cfg.queueMax
    BY <1>2, <2>3, <2>7, <2>9
  <2>11. \A k \in DOMAIN r : r[k] = Gap \/ \E j \in DOMAIN q : r[k] = q[j]
    BY <2>3, <2>7
  <2> QED BY <2>5, <2>6, <2>8, <2>9, <2>10, <2>11 DEF E, Losing
<1> QED BY <1>3, <1>4, <1>5

\* State.mark keeps the journal's newest entries and appends the message.
LEMMA MarkedIs ==
    ASSUME st.journal \in Seq(Msgs), cfg.journalKeep \in Nat \ {0}, NEW m \in Msgs,
           Len(st.journal) <= cfg.journalKeep
    PROVE  /\ Marked(m) \in Seq(Msgs) /\ Len(Marked(m)) <= cfg.journalKeep
           /\ Range(Marked(m)) \subseteq Range(st.journal) \cup {m}
           /\ Len(st.journal) < cfg.journalKeep => Marked(m) = Append(st.journal, m)
<1> DEFINE j == st.journal
           r == Append(j, m)
<1>1. /\ r \in Seq(Msgs) /\ Len(r) = Len(j) + 1 /\ r # <<>> /\ Len(j) \in Nat
      /\ \A k \in DOMAIN r : r[k] = m \/ \E i \in DOMAIN j : r[k] = j[i]
  BY AppendFacts, SeqFacts
<1>2. Marked(m) = IF Len(r) > cfg.journalKeep THEN Tail(r) ELSE r
  BY DEF Marked
<1> HIDE DEF r
<1>3. /\ Tail(r) \in Seq(Msgs) /\ Len(Tail(r)) = Len(r) - 1
      /\ \A k \in DOMAIN Tail(r) : \E i \in DOMAIN r : Tail(r)[k] = r[i]
  BY <1>1, TailFacts
<1>4. Range(r) \subseteq Range(j) \cup {m}
  BY <1>1 DEF Range
<1>5. Range(Tail(r)) \subseteq Range(r)
  BY <1>3 DEF Range
<1>6. Len(j) < cfg.journalKeep => Marked(m) = r
  BY <1>1, <1>2
<1>7. CASE Len(r) > cfg.journalKeep
  <2>1. Marked(m) = Tail(r)
    BY <1>2, <1>7
  <2> QED BY <1>1, <1>3, <1>4, <1>5, <1>6, <2>1 DEF r
<1>8. CASE ~(Len(r) > cfg.journalKeep)
  <2>1. Marked(m) = r
    BY <1>2, <1>8
  <2> QED BY <1>1, <1>4, <1>6, <1>8, <2>1 DEF r
<1> QED BY <1>7, <1>8
-----------------------------------------------------------------------------
(* The variables are well formed.                                          *)

\* The sizes of a configuration.
LEMMA CfgFacts ==
    ASSUME cfg \in Configs
    PROVE  /\ cfg.store \in BOOLEAN /\ cfg.queueMax \in Nat \ {0}
           /\ cfg.journalKeep \in Nat \ {0} /\ cfg.ringSize \in Nat \ {0}
BY RelayAssumption

\* The message in hand.
LEMMA CurrentIs ==
    ASSUME Types, Agree, pc \in {"firing", "fired"}
    PROVE  /\ current[1] \in MessageEvents /\ current = <<current[1]>> /\ DOMAIN current = {1}
           /\ current[1].id \in Nat \ {0} /\ current[1].msg \in Msgs
<1>1. current # <<>>
  BY DEF Agree
<1>2. PICK e \in MessageEvents : current = <<e>>
  BY <1>1 DEF Types
<1>3. current[1] = e /\ DOMAIN current = {1}
  BY <1>2
<1> QED BY <1>2, <1>3, EventFacts

\* Ids of a queue of this stream's messages are ids of its log.
LEMMA MatchedIds ==
    ASSUME NEW q, Matching(q)
    PROVE  IdsOf(q) \subseteq Ids
BY DEF IdsOf, Matching, Matches

\* The initial state, of either kind of client.
LEMMA InitIs ==
    ASSUME Init
    PROVE  /\ cfg \in Configs /\ log \in Seq(Msgs) /\ Len(log) \in {0, 1} /\ Range(log) \subseteq Msgs
           /\ stream = 1 /\ pending = {} /\ published = Range(log)
           /\ sim = Msgs /\ deletable = Range(log)
           /\ box = NoBox /\ conn = FALSE /\ wire = <<>> /\ lost = {}
           /\ st = [stream_id |-> Len(log), last_id |-> Len(log), journal |-> log]
           /\ pc = "down" /\ current = <<>>
           /\ fired = [m \in Msgs |-> IF m \in Range(log) THEN 1 ELSE 0]
           /\ since = Len(log) /\ resets = 0 /\ faults = 0
<1>1. PICK c \in Configs : cfg = c /\ \E old \in IF c.firstRun THEN {<<>>} ELSE {<<m>> : m \in Msgs} : log = old
  BY DEF Init
<1>2. log = <<>> \/ \E m \in Msgs : log = <<m>>
  BY <1>1
<1>3. log \in Seq(Msgs) /\ Len(log) \in {0, 1} /\ Range(log) \subseteq Msgs
  <2>1. CASE log = <<>>
    BY <2>1 DEF Range
  <2>2. CASE \E m \in Msgs : log = <<m>>
    BY <2>2 DEF Range
  <2> QED BY <1>2, <2>1, <2>2
<1>4. /\ stream = 1 /\ pending = {} /\ published = Range(log)
      /\ sim = Msgs /\ deletable = Range(log)
      /\ box = NoBox /\ conn = FALSE /\ wire = <<>> /\ lost = {}
      /\ st = [stream_id |-> Len(log), last_id |-> Len(log), journal |-> log]
      /\ pc = "down" /\ current = <<>>
      /\ fired = [m \in Msgs |-> IF m \in Range(log) THEN 1 ELSE 0]
      /\ since = Len(log) /\ resets = 0 /\ faults = 0
  BY DEF Init
<1> QED BY <1>1, <1>3, <1>4

\* The first state is well formed.
LEMMA InitTypes == Init => Types /\ Agree
<1> SUFFICES ASSUME Init PROVE Types /\ Agree
  OBVIOUS
<1>1. /\ box \in [queue : Seq(MessageEvents \cup {Gap}), gapped : BOOLEAN] /\ Len(box.queue) = 0
      /\ DOMAIN box.queue = {}
  <2>1. box = NoBox
    BY InitIs
  <2> QED BY <2>1 DEF NoBox
<1>2. conn \in BOOLEAN
  BY InitIs, Zenon
<1>3. Types
  <2>1. st \in [stream_id : Nat, last_id : Nat, journal : Seq(Msgs)]
    BY InitIs
  <2>2. fired \in [Msgs -> Nat] /\ wire \in Seq(Events)
    BY InitIs
  <2>3. /\ deletable \in SUBSET published /\ published \in SUBSET Msgs /\ sim \in SUBSET Msgs
        /\ pending \in SUBSET Ids /\ lost \in SUBSET Ids
    BY InitIs
  <2> QED BY <1>1, <1>2, <2>1, <2>2, <2>3, InitIs DEF Types
<1>4. Agree
  <2>1. cfg.queueMax \in Nat \ {0} /\ cfg.journalKeep \in Nat \ {0}
    BY InitIs, CfgFacts
  <2>2. Matching(box.queue)
    BY <1>1 DEF Matching
  <2> QED BY <1>1, <2>1, <2>2, InitIs DEF Agree
<1> QED BY <1>3, <1>4

\* Every step keeps the variables well formed.
LEMMA TypesStep == Types /\ Agree /\ [Next]_vars => Types' /\ Agree'
<1> SUFFICES ASSUME Types, Agree, [Next]_vars PROVE Types' /\ Agree'
  OBVIOUS
<1> USE DEF serverVars, sessionVars, clientVars, haVars
<1>0. /\ cfg.store \in BOOLEAN /\ cfg.queueMax \in Nat \ {0} /\ cfg.journalKeep \in Nat \ {0}
      /\ Len(log) \in Nat /\ DOMAIN log = 1 .. Len(log) /\ \A i \in DOMAIN log : log[i] \in Msgs
  BY CfgFacts, SeqFacts DEF Types
<1>00. ASSUME UNCHANGED <<log, box>> PROVE Matching(box.queue)'
  BY <1>00 DEF Agree, Matching, Matches, Ids
<1>1. ASSUME NEW m \in Msgs, Publish(m) PROVE Types' /\ Agree'
  <2>1. /\ log' = Append(log, m) /\ published' = published \cup {m}
        /\ UNCHANGED <<cfg, stream, sim, conn, wire, st, pc, current, since, fired, resets, faults>>
    BY <1>1 DEF Publish
  <2>2. /\ log' \in Seq(Msgs) /\ Len(log') = Len(log) + 1 /\ log'[Len(log) + 1] = m
        /\ \A i \in Ids : log'[i] = log[i]
    BY <1>0, <2>1, AppendFacts DEF Types, Ids
  <2>3. Ids' = 1 .. Len(log) + 1 /\ Ids \subseteq Ids' /\ Len(log) + 1 \in Ids'
    BY <1>0, <2>2 DEF Ids
  <2>4. /\ pending' \in SUBSET Ids' /\ deletable' \in SUBSET published'
        /\ \A id \in pending' : log'[id] \in published'
    <3>1. /\ pending' = pending \/ pending' = pending \cup {Len(log) + 1}
          /\ deletable' = deletable \/ deletable' = deletable \cup {m}
      BY <1>1, <2>2 DEF Publish
    <3>2. pending \in SUBSET Ids /\ deletable \in SUBSET published
      BY DEF Types
    <3>3. \A id \in pending : id \in Ids /\ log'[id] = log[id] /\ log'[id] \in published'
      BY <2>1, <2>2, <3>2 DEF Agree
    <3>4. \A id \in pending' : log'[id] \in published'
      BY <2>1, <2>2, <3>1, <3>3
    <3> QED BY <2>1, <2>3, <3>1, <3>2, <3>4
  <2> DEFINE e == Message(Len(log'), m)
  <2>5. e \in MessageEvents /\ e.id = Len(log) + 1 /\ e.msg = m
    BY <1>0, <2>2, EventFacts
  <2> HIDE DEF e
  <2>6. /\ box' \in [queue : Seq(MessageEvents \cup {Gap}), gapped : BOOLEAN]
        /\ Len(box'.queue) <= cfg.queueMax /\ (~conn => box' = NoBox)
        /\ \A k \in DOMAIN box'.queue : \/ box'.queue[k] = e \/ box'.queue[k] = Gap
                                        \/ \E j \in DOMAIN box.queue : box'.queue[k] = box.queue[j]
    <3>1. CASE conn
      <4>1. box' = Offered(box, e)
        BY <1>1, <3>1 DEF Publish, e
      <4>2. /\ box \in [queue : Seq(MessageEvents \cup {Gap}), gapped : BOOLEAN]
            /\ Len(box.queue) <= cfg.queueMax
        BY DEF Types, Agree
      <4>3. /\ box' \in [queue : Seq(MessageEvents \cup {Gap}), gapped : BOOLEAN]
            /\ Len(box'.queue) <= cfg.queueMax
            /\ \A k \in DOMAIN box'.queue :
                  \/ box'.queue[k] = e \/ box'.queue[k] = Gap
                  \/ \E j \in DOMAIN box.queue : box'.queue[k] = box.queue[j]
        <5>1. cfg.queueMax \in Nat \ {0} /\ e \in MessageEvents
          BY <1>0, <2>5
        <5>2. Offered(box, e) \in [queue : Seq(MessageEvents \cup {Gap}), gapped : BOOLEAN]
          BY <5>1, <4>2, OfferedIs
        <5>3. Len(Offered(box, e).queue) <= cfg.queueMax
          BY <5>1, <4>2, OfferedIs
        <5>4. \A k \in DOMAIN Offered(box, e).queue :
                  \/ Offered(box, e).queue[k] = e \/ Offered(box, e).queue[k] = Gap
                  \/ \E j \in DOMAIN box.queue : Offered(box, e).queue[k] = box.queue[j]
          BY <5>1, <4>2, OfferedIs
        <5> QED BY <4>1, <5>2, <5>3, <5>4
      <4> QED BY <3>1, <4>3
    <3>2. CASE ~conn
      <4>1. box' = box
        BY <1>1, <3>2 DEF Publish
      <4> QED BY <4>1, <3>2 DEF Types, Agree
    <3> QED BY <3>1, <3>2
  <2>7. Matching(box.queue)'
    <3> SUFFICES ASSUME NEW k \in DOMAIN box'.queue, box'.queue[k].kind = "message"
                 PROVE  box'.queue[k].id \in Ids' /\ box'.queue[k].msg = log'[box'.queue[k].id]
      BY DEF Matching, Matches
    <3>1. Gap.kind # "message"
      BY EventFacts
    <3>2. \A j \in DOMAIN box.queue : box.queue[j].kind = "message" =>
              box.queue[j].id \in Ids /\ box.queue[j].msg = log[box.queue[j].id]
      BY DEF Agree, Matching, Matches
    <3>3. CASE box'.queue[k] = e
      BY <2>2, <2>3, <2>5, <3>3
    <3>4. CASE \E j \in DOMAIN box.queue : box'.queue[k] = box.queue[j]
      BY <2>2, <2>3, <3>2, <3>4
    <3> QED BY <2>6, <3>1, <3>3, <3>4
  <2>8. lost' \in SUBSET Ids'
    <3>1. lost' = lost \cup Losing(IdsOf(box.queue) \cup {Len(log')}, box')
      BY <1>1 DEF Publish
    <3>2. IdsOf(box.queue) \subseteq Ids
      BY MatchedIds DEF Agree
    <3> QED BY <2>2, <2>3, <3>1, <3>2 DEF Types, Losing
  <2>9. Types'
    BY <2>1, <2>2, <2>4, <2>6, <2>8 DEF Types
  <2>10. Agree'
    BY <2>1, <2>4, <2>6, <2>7 DEF Agree
  <2> QED BY <2>9, <2>10
<1>2. ASSUME NEW m \in Msgs, Delete(m) PROVE Types' /\ Agree'
  <2>1. Types'
    BY <1>2 DEF Delete, Types, Ids
  <2>2. Agree'
    BY <1>00, <1>2 DEF Delete, Agree
  <2> QED BY <2>1, <2>2
<1>3. ASSUME NEW id \in Ids, OtherSubscriber(id) PROVE Types' /\ Agree'
  <2>1. Types'
    BY <1>3 DEF OtherSubscriber, Confirm, Types, Agree, Ids
  <2>2. Agree'
    BY <1>00, <1>3 DEF OtherSubscriber, Confirm, Agree
  <2> QED BY <2>1, <2>2
<1>4. ASSUME Break PROVE Types' /\ Agree'
  <2>1. box' = NoBox /\ conn' = FALSE /\ wire' \in {wire, <<>>} /\ conn' \in BOOLEAN
    BY <1>4, Zenon DEF Break, Disconnect
  <2>2. box' \in [queue : Seq(MessageEvents \cup {Gap}), gapped : BOOLEAN] /\ Len(box'.queue) = 0
        /\ Matching(box.queue)'
    BY <2>1 DEF NoBox, Matching
  <2>3. Types'
    BY <1>4, <2>1, <2>2 DEF Break, Types, Ids
  <2>4. Agree'
    BY <1>0, <1>4, <2>1, <2>2 DEF Break, Agree
  <2> QED BY <2>3, <2>4
<1>5. ASSUME ServerRestart PROVE Types' /\ Agree'
  <2>1. box' = NoBox /\ conn' = FALSE /\ wire' \in {wire, <<>>} /\ conn' \in BOOLEAN
    BY <1>5, Zenon DEF ServerRestart, Disconnect
  <2>2. box' \in [queue : Seq(MessageEvents \cup {Gap}), gapped : BOOLEAN] /\ Len(box'.queue) = 0
        /\ Matching(box.queue)'
    BY <2>1 DEF NoBox, Matching
  <2>3. /\ stream' \in Nat \ {0} /\ stream <= stream' /\ log' \in Seq(Msgs)
        /\ lost' \in SUBSET Ids'
    <3>1. CASE UNCHANGED <<stream, log, lost>>
      BY <3>1 DEF Types, Ids
    <3>2. CASE stream' = stream + 1 /\ log' = <<>> /\ lost' = {}
      BY <3>2 DEF Types
    <3> QED BY <1>5, <3>1, <3>2 DEF ServerRestart
  <2>6. /\ pending' = {} /\ published' = {} /\ deletable' = {}
        /\ UNCHANGED <<cfg, sim, st, pc, current, since, fired, resets, faults>>
    BY <1>5 DEF ServerRestart
  <2>4. Types'
    BY <2>1, <2>2, <2>3, <2>6 DEF Types
  <2>5. Agree'
    <3>1. st.stream_id <= stream' /\ \A k \in DOMAIN wire : wire[k].kind = "hello" => wire[k].id <= stream'
      <4>1. \A k \in DOMAIN wire : wire[k].kind = "hello" => wire[k].id \in Nat
        BY SeqFacts, EventFacts DEF Types
      <4> QED BY <2>3, <4>1 DEF Types, Agree
    <3> QED BY <1>0, <2>1, <2>2, <2>6, <3>1 DEF Agree
  <2> QED BY <2>4, <2>5
<1>6. ASSUME Write PROVE Types' /\ Agree'
  <2> DEFINE e == Head(box.queue)
             E == MessageEvents \cup {Gap}
  <2>1. /\ conn /\ box.queue # <<>> /\ wire' = Append(wire, e)
        /\ box' = [box EXCEPT !.queue = Tail(@)]
        /\ UNCHANGED <<cfg, stream, log, published, sim, conn, lost, st, pc, current, since,
                       fired, resets, faults>>
    BY <1>6 DEF Write
  <2>2. box.queue \in Seq(E) /\ E \subseteq Events /\ box.gapped \in BOOLEAN
    BY EventFacts DEF Types, Events
  <2> HIDE DEF E
  <2>3. /\ e \in E /\ e = box.queue[1] /\ 1 \in DOMAIN box.queue
        /\ Tail(box.queue) \in Seq(E) /\ Len(Tail(box.queue)) = Len(box.queue) - 1
        /\ \A k \in DOMAIN Tail(box.queue) : \E j \in DOMAIN box.queue : Tail(box.queue)[k] = box.queue[j]
    BY <2>1, <2>2, TailFacts
  <2> HIDE DEF e
  <2>4. box'.queue = Tail(box.queue) /\ box' \in [queue : Seq(E), gapped : BOOLEAN]
    BY <2>1, <2>2, <2>3 DEF Types, E
  <2>5. wire' \in Seq(Events) /\ \A k \in DOMAIN wire' : wire'[k] = e \/ \E j \in DOMAIN wire : wire'[k] = wire[j]
    BY <2>1, <2>2, <2>3, AppendFacts DEF Types
  <2>6. e.kind = "message" => e.id \in Ids
    BY <2>3 DEF Agree, Matching, Matches
  <2>7. /\ pending' \in SUBSET Ids /\ deletable' \in SUBSET published
        /\ \A id \in pending' : log[id] \in published
    <3>1. \/ Confirm(e.id) /\ e.id \in Ids
          \/ UNCHANGED <<pending, deletable>>
      BY <1>6, <2>6 DEF Write, e
    <3>2. CASE Confirm(e.id)
      BY <3>2 DEF Confirm, Types, Agree
    <3> QED BY <3>1, <3>2 DEF Types, Agree
  <2>8. Types'
    BY <2>1, <2>4, <2>5, <2>7 DEF Types, Ids, E
  <2>9. e.kind # "hello"
    BY <2>3, EventFacts DEF E
  <2>10. Len(box'.queue) <= cfg.queueMax
    <3>1. Len(box.queue) \in Nat
      BY <2>2, SeqFacts
    <3> QED BY <1>0, <2>3, <2>4, <3>1 DEF Agree
  <2>11. Matching(box.queue)'
    BY <2>1, <2>3, <2>4 DEF Agree, Matching, Matches, Ids
  <2>12. \A k \in DOMAIN wire' : wire'[k].kind = "hello" => wire'[k].id <= stream
    BY <2>5, <2>9 DEF Agree
  <2>13. Agree'
    BY <2>1, <2>7, <2>10, <2>11, <2>12 DEF Agree
  <2> QED BY <2>8, <2>13
<1>7. ASSUME Connect PROVE Types' /\ Agree'
  <2>1. PICK S \in SUBSET Ids :
            /\ \E q \in Ascending(S) : box' = Enqueued(q)
            /\ lost' = lost \cup Losing(S, box')
    <3> DEFINE valid == st.last_id # 0 /\ st.stream_id = stream /\ st.last_id <= Len(log)
               S == pending \cup (IF valid THEN Replay(st.last_id) ELSE {})
    <3>1. S \in SUBSET Ids
      BY DEF Types, Replay
    <3>2. /\ \E q \in Ascending(S) : box' = Enqueued(q)
          /\ lost' = lost \cup Losing(S, box')
      BY <1>7 DEF Connect
    <3> HIDE DEF S
    <3> QED BY <3>1, <3>2
  <2>2. /\ pc = "down" /\ pc' = "reading" /\ conn' = TRUE /\ wire' = <<Hello>>
        /\ since' \in Nat
        /\ UNCHANGED <<cfg, stream, log, pending, published, sim, deletable, st, current, fired,
                       resets, faults>>
    BY <1>0, <1>7 DEF Connect, Types
  <2>3. /\ box' \in [queue : Seq(MessageEvents \cup {Gap}), gapped : BOOLEAN]
        /\ Len(box'.queue) <= cfg.queueMax /\ Matching(box'.queue)
    <3>1. log \in Seq(Msgs)
      BY DEF Types
    <3> QED BY <1>0, <2>1, <3>1, EnqueuedIs
  <2>4. /\ wire' \in Seq(Events) /\ DOMAIN wire' = {1} /\ wire'[1] = Hello /\ Hello.id = stream
    <3>1. Hello \in Events /\ Hello.id = stream
      BY EventFacts DEF Types, Events
    <3> QED BY <2>2, <3>1
  <2>5. lost' \in SUBSET Ids
    BY <2>1 DEF Losing, Types
  <2>6. Types'
    BY <2>2, <2>3, <2>4, <2>5 DEF Types, Ids
  <2>7. Agree'
    BY <2>2, <2>3, <2>4 DEF Agree, Matching, Matches, Ids, Types
  <2> QED BY <2>6, <2>7
<1>8. ASSUME pc = "reading", wire # <<>>, wire' = Tail(wire)
      PROVE  /\ Head(wire) = wire[1] /\ Head(wire) \in Events /\ wire' \in Seq(Events)
             /\ Head(wire).kind = "hello" => Head(wire).id \in Nat \ {0} /\ Head(wire).id <= stream
             /\ \A k \in DOMAIN wire' : wire'[k].kind = "hello" => wire'[k].id <= stream
  <2>1. /\ Head(wire) = wire[1] /\ Head(wire) \in Events /\ wire' \in Seq(Events) /\ 1 \in DOMAIN wire
        /\ \A k \in DOMAIN wire' : \E j \in DOMAIN wire : wire'[k] = wire[j]
    BY <1>8, TailFacts DEF Types
  <2> QED BY <2>1, EventFacts DEF Agree
<1>9. ASSUME ReadHello PROVE Types' /\ Agree'
  <2>1. /\ pc = "reading" /\ wire # <<>> /\ wire' = Tail(wire) /\ Head(wire).kind = "hello"
        /\ UNCHANGED <<serverVars, box, conn, lost, pc, current, since, fired, resets, faults>>
        /\ st' = IF Head(wire).id = st.stream_id THEN st
                 ELSE [st EXCEPT !.stream_id = Head(wire).id, !.last_id = 0]
    BY <1>9 DEF ReadHello
  <2>2. /\ st' \in [stream_id : Nat, last_id : Nat, journal : Seq(Msgs)]
        /\ st'.stream_id <= stream /\ st'.journal = st.journal
    BY <1>8, <2>1 DEF Types, Agree
  <2>3. Types'
    BY <1>8, <2>1, <2>2 DEF Types, Ids
  <2>4. Agree'
    BY <1>00, <1>8, <2>1, <2>2 DEF Agree
  <2> QED BY <2>3, <2>4
<1>10. ASSUME ReadGap PROVE Types' /\ Agree'
  <2>1. /\ pc = "reading" /\ wire # <<>> /\ wire' = Tail(wire)
        /\ UNCHANGED <<serverVars, box, conn, lost, st, pc, current, since, fired, resets, faults>>
    BY <1>10 DEF ReadGap
  <2>2. Types'
    BY <1>8, <2>1 DEF Types, Ids
  <2>3. Agree'
    BY <1>00, <1>8, <2>1 DEF Agree
  <2> QED BY <2>2, <2>3
<1>11. ASSUME ReadMessage PROVE Types' /\ Agree'
  <2> DEFINE e == Head(wire)
  <2>1. /\ pc = "reading" /\ wire # <<>> /\ wire' = Tail(wire) /\ e.kind = "message"
        /\ UNCHANGED <<serverVars, box, conn, lost, since, fired, resets, faults>>
        /\ IF Seen(e.msg) THEN st' = [st EXCEPT !.last_id = e.id] /\ UNCHANGED <<pc, current>>
           ELSE /\ st' = [st EXCEPT !.journal = Marked(e.msg)]
                /\ pc' = "firing" /\ current' = <<e>>
    BY <1>11 DEF ReadMessage
  <2>2. e \in MessageEvents /\ e.id \in Nat /\ e.msg \in Msgs
    BY <1>8, <2>1, EventFacts
  <2> HIDE DEF e
  <2>3. Marked(e.msg) \in Seq(Msgs) /\ Len(Marked(e.msg)) <= cfg.journalKeep
    <3>1. /\ st.journal \in Seq(Msgs) /\ Len(st.journal) <= cfg.journalKeep
          /\ cfg.journalKeep \in Nat \ {0}
      BY <1>0 DEF Types, Agree
    <3> QED BY <2>2, <3>1, MarkedIs
  <2>4. /\ st' \in [stream_id : Nat, last_id : Nat, journal : Seq(Msgs)]
        /\ st'.stream_id = st.stream_id /\ Len(st'.journal) <= cfg.journalKeep
    BY <2>1, <2>2, <2>3 DEF Types, Agree
  <2>5. /\ current' \in {<<>>} \cup {<<x>> : x \in MessageEvents}
        /\ pc' \in {"reading", "firing"} /\ (current' = <<>>) <=> (pc' = "reading")
    <3>1. CASE Seen(e.msg)
      BY <2>1, <3>1 DEF Types, Agree
    <3>2. CASE ~Seen(e.msg)
      <4>1. pc' = "firing" /\ current' = <<e>> /\ <<e>> # <<>>
        BY <2>1, <3>2
      <4> QED BY <2>2, <4>1
    <3> QED BY <3>1, <3>2
  <2>6. Types'
    BY <1>8, <2>1, <2>4, <2>5 DEF Types, Ids
  <2>7. Agree'
    BY <1>00, <1>8, <2>1, <2>4, <2>5 DEF Agree
  <2> QED BY <2>6, <2>7
\* A post, and what becomes of it.
<1>12. ASSUME fired' = [fired EXCEPT ![current[1].msg] = @ + 1] \/ fired' = fired,
              pc \in {"firing", "fired"}
       PROVE  fired' \in [Msgs -> Nat]
  <2>1. current[1].msg \in Msgs
    BY <1>12, CurrentIs
  <2>2. fired \in [Msgs -> Nat] /\ fired[current[1].msg] + 1 \in Nat
    BY <2>1 DEF Types
  <2> QED BY <1>12, <2>1, <2>2
<1>13. ASSUME Fire PROVE Types' /\ Agree'
  <2>1. fired' \in [Msgs -> Nat]
    BY <1>12, <1>13 DEF Fire, Arrived
  <2>2. Types'
    BY <1>13, <2>1 DEF Fire, Arrived, Types, Ids
  <2>3. Agree'
    BY <1>00, <1>13 DEF Fire, Arrived, Agree
  <2> QED BY <2>2, <2>3
<1>14. ASSUME FireAmbiguous PROVE Types' /\ Agree'
  <2>1. fired' \in [Msgs -> Nat] /\ resets' = resets /\ faults' = faults + 1
    BY <1>12, <1>14 DEF FireAmbiguous, Arrived, Fault
  <2>2. Types'
    BY <1>14, <2>1 DEF FireAmbiguous, Types, Ids
  <2>3. resets' <= faults'
    BY <2>1 DEF Types, Agree
  <2>4. Agree'
    BY <1>00, <1>14, <2>3 DEF FireAmbiguous, Agree
  <2> QED BY <2>2, <2>4
<1>15. ASSUME FireReset PROVE Types' /\ Agree'
  <2>1. /\ fired' \in [Msgs -> Nat] /\ resets' = resets + 1 /\ faults' = faults + 1
        /\ UNCHANGED <<serverVars, sessionVars, clientVars>>
    BY <1>12, <1>15 DEF FireReset, Fault
  <2>2. Types'
    BY <2>1 DEF Types, Ids
  <2>3. resets' <= faults'
    BY <2>1 DEF Types, Agree
  <2>4. Agree'
    BY <1>00, <2>1, <2>3 DEF Agree
  <2> QED BY <2>2, <2>4
\* The client leaves its session.
<1>16. ASSUME Hangup
       PROVE  /\ conn' \in BOOLEAN /\ ~conn' /\ box' = NoBox /\ wire' = <<>> /\ wire' \in Seq(Events)
              /\ box' \in [queue : Seq(MessageEvents \cup {Gap}), gapped : BOOLEAN]
              /\ Len(box'.queue) = 0 /\ Matching(box.queue)' /\ DOMAIN wire' = {}
  <2>1. conn' \in BOOLEAN /\ ~conn' /\ box' = NoBox /\ wire' = <<>>
    BY <1>16, Zenon DEF Hangup
  <2> QED BY <2>1 DEF NoBox, Matching
<1>17. ASSUME FireRaises PROVE Types' /\ Agree'
  <2>1. Hangup
    BY <1>17 DEF FireRaises
  <2>2. /\ fired' \in [Msgs -> Nat] /\ resets' = resets /\ faults' = faults + 1
        /\ pc' = "down" /\ current' = <<>> /\ UNCHANGED <<serverVars, lost, st, since>>
    BY <1>12, <1>17 DEF FireRaises, Arrived, Fault
  <2>3. Types'
    BY <1>16, <2>1, <2>2 DEF Types, Ids
  <2>4. resets' <= faults'
    BY <2>2 DEF Types, Agree
  <2>5. Agree'
    BY <1>0, <1>16, <2>1, <2>2, <2>4 DEF Agree
  <2> QED BY <2>3, <2>5
<1>18. ASSUME ClientCrash PROVE Types' /\ Agree'
  <2>1. /\ Hangup /\ pc' = "down" /\ current' = <<>> /\ faults' = faults + 1
        /\ UNCHANGED <<serverVars, lost, st, since, fired, resets>>
    BY <1>18 DEF ClientCrash, Fault
  <2>2. Types'
    BY <1>16, <2>1 DEF Types, Ids
  <2>3. resets' <= faults'
    BY <2>1 DEF Types, Agree
  <2>4. Agree'
    BY <1>0, <1>16, <2>1, <2>3 DEF Agree
  <2> QED BY <2>2, <2>4
<1>19. ASSUME Advance PROVE Types' /\ Agree'
  <2>1. /\ pc = "fired" /\ st' = [st EXCEPT !.last_id = current[1].id]
        /\ pc' = "reading" /\ current' = <<>>
        /\ UNCHANGED <<serverVars, sessionVars, since, fired, resets, faults>>
    BY <1>19 DEF Advance
  <2>2. /\ st' \in [stream_id : Nat, last_id : Nat, journal : Seq(Msgs)]
        /\ st'.stream_id = st.stream_id /\ st'.journal = st.journal
    BY <2>1, CurrentIs DEF Types
  <2>3. Types'
    BY <2>1, <2>2 DEF Types, Ids
  <2>4. Agree'
    BY <1>00, <2>1, <2>2 DEF Agree
  <2> QED BY <2>3, <2>4
<1>20. ASSUME Notice PROVE Types' /\ Agree'
  <2>1. Types'
    BY <1>20 DEF Notice, Types, Ids
  <2>2. Agree'
    BY <1>00, <1>20 DEF Notice, Agree
  <2> QED BY <2>1, <2>2
<1>21. ASSUME UNCHANGED vars PROVE Types' /\ Agree'
  <2>1. Types'
    BY <1>21 DEF vars, Types, Ids
  <2>2. Agree'
    BY <1>00, <1>21 DEF vars, Agree
  <2> QED BY <2>1, <2>2
<1> QED BY <1>1, <1>2, <1>3, <1>4, <1>5, <1>6, <1>7, <1>9, <1>10, <1>11, <1>13, <1>14, <1>15,
           <1>17, <1>18, <1>19, <1>20, <1>21 DEF Next, Server, Client

\* Every state is.
LEMMA Wellformed == Spec => [](Types /\ Agree)
<1>1. Init => Types /\ Agree
  BY InitTypes
<1>2. Types /\ Agree /\ [Next]_vars => (Types /\ Agree)'
  BY TypesStep
<1> QED BY <1>1, <1>2, PTL DEF Spec

\* Session, queue, journal and cursor are well formed and keep their bounds
\* (hub.py Subscriber, state.py State).
THEOREM TypeInvariant == Spec => []TypeOK
<1>1. Types /\ Agree => TypeOK
  <2> SUFFICES ASSUME Types, Agree PROVE TypeOK
    OBVIOUS
  <2>1. /\ log \in Seq(Msgs) /\ pending \subseteq Ids /\ published \subseteq Msgs /\ sim \subseteq Msgs
        /\ deletable \subseteq published /\ Len(box.queue) <= cfg.queueMax /\ (~conn => box = NoBox)
    BY DEF Types, Agree
  <2>2. /\ st.stream_id \in 0 .. stream /\ st.last_id \in Nat
        /\ st.journal \in Seq(Msgs) /\ Len(st.journal) <= cfg.journalKeep
        /\ resets \in 0 .. faults
    BY DEF Types, Agree
  <2>3. /\ pc \in {"down", "reading", "firing", "fired"} /\ since \in Nat /\ lost \subseteq Ids
        /\ fired \in [Msgs -> Nat]
    BY DEF Types
  <2>4. (current = <<>>) <=> (pc \in {"down", "reading"})
    BY DEF Agree
  <2> QED BY <2>1, <2>2, <2>3, <2>4 DEF TypeOK
<1> QED BY <1>1, Wellformed, PTL

-----------------------------------------------------------------------------
(* One fault drops one message.                                            *)

\* A step that adds at most one message to the missing ones.
LEMMA MissingGrows ==
    ASSUME NEW A, IsFiniteSet(A), NEW B, NEW m, B \subseteq A \cup {m},
           NEW n \in Nat, Cardinality(A) <= n
    PROVE  /\ IsFiniteSet(B) /\ Cardinality(B) <= n + 1
           /\ m \notin B => Cardinality(B) <= n
<1>1. /\ IsFiniteSet(A \cup {m}) /\ Cardinality(A) \in Nat
      /\ Cardinality(A \cup {m}) <= Cardinality(A) + 1
  <2>1. Cardinality(A) \in Nat
    BY FS_CardinalityType
  <2> QED BY <2>1, FS_AddElement
<1>2. IsFiniteSet(B) /\ Cardinality(B) <= Cardinality(A \cup {m}) /\ Cardinality(B) \in Nat
      /\ Cardinality(A \cup {m}) \in Nat
  BY <1>1, FS_Subset, FS_CardinalityType
<1>3. m \notin B => B \subseteq A
  OBVIOUS
<1>4. m \notin B => Cardinality(B) <= Cardinality(A)
  BY <1>3, FS_Subset
<1> QED BY <1>1, <1>2, <1>4

\* At first nothing is journalled and not fired.
LEMMA FaultsInit == Init => FaultsCover
<1> SUFFICES ASSUME Init PROVE FaultsCover
  OBVIOUS
<1>3. \A m \in Range(log) : m \in Msgs
  BY InitIs
<1>4. Missing = {}
  BY <1>3, InitIs DEF Missing
<1> QED BY <1>4, InitIs, FS_EmptySet DEF FaultsCover

\* A step journals a message that will not be fired only if it is a fault.
LEMMA FaultsStep == Types /\ Agree /\ FaultsCover /\ [Next]_vars => FaultsCover'
<1> SUFFICES ASSUME Types, Agree, FaultsCover, [Next]_vars PROVE FaultsCover'
  OBVIOUS
<1> USE DEF serverVars, sessionVars, clientVars, haVars
<1> DEFINE m == current[1].msg
<1>0. IsFiniteSet(Missing) /\ Cardinality(Missing) <= faults /\ faults \in Nat
  BY DEF FaultsCover, Types
<1>1. ASSUME Missing' \subseteq Missing, faults' \in Nat, faults <= faults' PROVE FaultsCover'
  <2>1. IsFiniteSet(Missing') /\ Cardinality(Missing') <= Cardinality(Missing)
        /\ Cardinality(Missing') \in Nat /\ Cardinality(Missing) \in Nat
    BY <1>0, <1>1, FS_Subset, FS_CardinalityType
  <2> QED BY <1>0, <1>1, <2>1 DEF FaultsCover
<1>2. ASSUME NEW x, Missing' \subseteq Missing \cup {x}, faults' = faults + 1 PROVE FaultsCover'
  <2>1. IsFiniteSet(Missing') /\ Cardinality(Missing') <= faults + 1
    BY <1>0, <1>2, MissingGrows
  <2> QED BY <1>2, <2>1 DEF FaultsCover
<1>3. \A x \in Range(st.journal) : x \in Msgs
  BY SeqFacts DEF Types, Range
\* Steps that leave journal, posts and the message in hand alone.
<1>4. ASSUME UNCHANGED <<fired, faults>>, st'.journal = st.journal,
             pc # "firing" /\ pc' # "firing"
      PROVE  FaultsCover'
  <2>1. Missing' = Missing
    BY <1>4 DEF Missing, Posting
  <2> QED BY <1>0, <1>1, <1>4, <2>1
<1>5. ASSUME UNCHANGED <<fired, faults, st, pc, current>> PROVE FaultsCover'
  <2>1. Missing' = Missing
    BY <1>5 DEF Missing, Posting
  <2> QED BY <1>0, <1>1, <1>5, <2>1
<1>6. ASSUME Server PROVE FaultsCover'
  <2>1. UNCHANGED <<fired, faults, st, pc, current>>
    BY <1>6 DEF Server, Publish, Delete, OtherSubscriber, Break, ServerRestart
  <2> QED BY <1>5, <2>1
<1>7. ASSUME Write PROVE FaultsCover'
  BY <1>5, <1>7 DEF Write
<1>8. ASSUME Connect PROVE FaultsCover'
  <2>1. UNCHANGED <<fired, faults, st>> /\ pc = "down" /\ pc' = "reading"
    BY <1>8 DEF Connect
  <2> QED BY <1>4, <2>1
<1>9. ASSUME ReadHello PROVE FaultsCover'
  <2>1. UNCHANGED <<fired, faults>> /\ st'.journal = st.journal /\ pc = "reading" /\ pc' = "reading"
    BY <1>9 DEF ReadHello, Types
  <2> QED BY <1>4, <2>1
<1>10. ASSUME ReadGap PROVE FaultsCover'
  BY <1>5, <1>10 DEF ReadGap
<1>11. ASSUME ReadMessage PROVE FaultsCover'
  <2> DEFINE e == Head(wire)
  <2>1. /\ pc = "reading" /\ wire # <<>> /\ e.kind = "message"
        /\ UNCHANGED <<fired, faults>>
        /\ IF Seen(e.msg) THEN st' = [st EXCEPT !.last_id = e.id] /\ UNCHANGED <<pc, current>>
           ELSE /\ st' = [st EXCEPT !.journal = Marked(e.msg)]
                /\ pc' = "firing" /\ current' = <<e>>
    BY <1>11 DEF ReadMessage
  <2>2. e \in MessageEvents /\ e.msg \in Msgs
    BY <2>1, TailFacts, EventFacts DEF Types
  <2> HIDE DEF e
  <2>3. CASE Seen(e.msg)
    <3>1. st'.journal = st.journal /\ pc' = "reading"
      BY <2>1, <2>3 DEF Types
    <3> QED BY <1>4, <2>1, <3>1
  <2>4. CASE ~Seen(e.msg)
    <3>1. st'.journal = Marked(e.msg) /\ pc' = "firing" /\ current'[1] = e
      BY <2>1, <2>4 DEF Types
    <3>2. Range(Marked(e.msg)) \subseteq Range(st.journal) \cup {e.msg}
      <4>1. /\ st.journal \in Seq(Msgs) /\ Len(st.journal) <= cfg.journalKeep
            /\ cfg.journalKeep \in Nat \ {0}
        BY CfgFacts DEF Types, Agree
      <4> QED BY <2>2, <4>1, MarkedIs
    <3>3. Missing' \subseteq Missing
      <4> SUFFICES ASSUME NEW x \in Missing' PROVE x \in Missing
        OBVIOUS
      <4>1. x \in Range(st'.journal) /\ fired[x] = 0 /\ x # e.msg
        BY <2>1, <3>1 DEF Missing, Posting
      <4>2. x \in Range(st.journal)
        BY <3>1, <3>2, <4>1
      <4> QED BY <2>1, <4>1, <4>2 DEF Missing, Posting
    <3> QED BY <1>0, <1>1, <2>1, <3>3
  <2> QED BY <2>3, <2>4
\* A post that ends: the message in hand is missing at most then.
<1>12. ASSUME pc = "firing", st'.journal = st.journal, faults' \in Nat, faults <= faults',
              fired' = [fired EXCEPT ![m] = @ + 1]
       PROVE  Missing' \subseteq Missing /\ FaultsCover'
  <2>1. m \in Msgs /\ fired \in [Msgs -> Nat]
    BY <1>12, CurrentIs DEF Types
  <2> HIDE DEF m
  <2>2. \A x \in Msgs : fired'[x] = IF x = m THEN fired[x] + 1 ELSE fired[x]
    BY <1>12, <2>1
  <2>3. Missing' \subseteq Missing
    <3> SUFFICES ASSUME NEW x \in Missing' PROVE x \in Missing
      OBVIOUS
    <3>1. x \in Range(st.journal) /\ x \in Msgs /\ fired'[x] = 0
      BY <1>3, <1>12 DEF Missing
    <3>2. x # m /\ fired[x] = 0
      BY <2>1, <2>2, <3>1
    <3> QED BY <3>1, <3>2 DEF Missing, Posting, m
  <2> QED BY <1>1, <1>12, <2>3
<1>13. ASSUME pc = "firing", st'.journal = st.journal, faults' = faults + 1, fired' = fired,
              pc' # "firing"
       PROVE  FaultsCover'
  <2>1. Missing' \subseteq Missing \cup {m}
    BY <1>13 DEF Missing, Posting
  <2> QED BY <1>2, <1>13, <2>1
<1>14. ASSUME Fire PROVE FaultsCover'
  <2>1. /\ pc = "firing" /\ st' = st /\ faults' = faults /\ fired' = [fired EXCEPT ![m] = @ + 1]
    BY <1>14 DEF Fire, Arrived
  <2> QED BY <1>0, <1>12, <2>1
<1>15. ASSUME FireAmbiguous \/ FireRaises PROVE FaultsCover'
  <2>1. /\ pc = "firing" /\ pc' # "firing" /\ st' = st /\ faults' = faults + 1
        /\ fired' = [fired EXCEPT ![m] = @ + 1] \/ fired' = fired
    BY <1>15 DEF FireAmbiguous, FireRaises, Arrived, Fault
  <2> QED BY <1>0, <1>12, <1>13, <2>1
<1>16. ASSUME FireReset PROVE FaultsCover'
  <2>1. /\ pc = "firing" /\ st' = st /\ faults' = faults + 1 /\ fired' = [fired EXCEPT ![m] = @ + 1]
    BY <1>16 DEF FireReset, Fault
  <2> QED BY <1>0, <1>12, <2>1
<1>17. ASSUME ClientCrash PROVE FaultsCover'
  <2>1. pc' = "down" /\ st' = st /\ faults' = faults + 1 /\ fired' = fired
    BY <1>17 DEF ClientCrash, Fault
  <2>2. Missing' \subseteq Missing \cup {m}
    BY <2>1 DEF Missing, Posting
  <2> QED BY <1>2, <2>1, <2>2
<1>18. ASSUME Advance PROVE FaultsCover'
  <2>1. pc = "fired" /\ pc' = "reading" /\ UNCHANGED <<fired, faults>> /\ st'.journal = st.journal
    BY <1>18 DEF Advance, Types
  <2> QED BY <1>4, <2>1
<1>19. ASSUME Notice PROVE FaultsCover'
  <2>1. pc = "reading" /\ pc' = "down" /\ UNCHANGED <<fired, faults, st>>
    BY <1>19 DEF Notice
  <2> QED BY <1>4, <2>1
<1>20. ASSUME UNCHANGED vars PROVE FaultsCover'
  BY <1>5, <1>20 DEF vars
<1> QED BY <1>6, <1>7, <1>8, <1>9, <1>10, <1>11, <1>14, <1>15, <1>16, <1>17, <1>18, <1>19, <1>20
        DEF Next, Client

\* Mark-then-fire drops a message only through a crash or a failed post, and
\* one message each time (state.py:7-8, relay.py _handle_event).
THEOREM OneDrop == Spec => []OneDropPerFault
<1>1. Types /\ Agree /\ FaultsCover => OneDropPerFault
  <2> SUFFICES ASSUME Types, Agree, FaultsCover PROVE OneDropPerFault
    OBVIOUS
  <2>1. Dropped \subseteq Missing
    <3> SUFFICES ASSUME NEW x \in Dropped PROVE x \in Missing
      OBVIOUS
    <3>1. x \in Range(st.journal) /\ fired[x] = 0 /\ (current = <<>> \/ current[1].msg # x)
      BY DEF Dropped
    <3>2. pc = "firing" => current # <<>>
      BY DEF Agree
    <3> QED BY <3>1, <3>2 DEF Missing, Posting
  <2>2. Cardinality(Dropped) <= Cardinality(Missing) /\ IsFiniteSet(Dropped)
    BY <2>1, FS_Subset DEF FaultsCover
  <2>3. Cardinality(Dropped) \in Nat /\ Cardinality(Missing) \in Nat
    BY <2>2, FS_CardinalityType DEF FaultsCover
  <2> QED BY <2>2, <2>3 DEF FaultsCover, Types, OneDropPerFault
<1>2. Types /\ Agree /\ FaultsCover /\ [Next]_vars => FaultsCover'
  BY FaultsStep
<1> QED BY <1>1, <1>2, FaultsInit, Wellformed, PTL DEF Spec
-----------------------------------------------------------------------------
(* An SMS fires again only through a reset.                                *)

\* A journal without repetitions has room for another message.
LEMMA JournalRoom ==
    ASSUME JournalHolds, Types, Once, NEW m \in Msgs, ~Seen(m)
    PROVE  /\ Marked(m) = Append(st.journal, m)
           /\ \A j, k \in DOMAIN Marked(m) : j # k => Marked(m)[j] # Marked(m)[k]
           /\ \A x \in Msgs : (\E k \in DOMAIN Marked(m) : Marked(m)[k] = x) <=> Seen(x) \/ x = m
<1> DEFINE q == st.journal
           r == Append(q, m)
           n == Len(q)
<1>1. /\ n \in Nat /\ DOMAIN q = 1 .. n /\ q \in Seq(Msgs)
      /\ r \in Seq(Msgs) /\ DOMAIN r = 1 .. n + 1 /\ r[n + 1] = m /\ Len(r) = n + 1
      /\ \A k \in 1 .. n : r[k] = q[k]
  BY SeqFacts, AppendFacts DEF Types
<1>2. \A k \in 1 .. n : q[k] # m
  BY <1>1 DEF Seen
<1> HIDE DEF r, n
<1>3. \A j, k \in 1 .. n : j # k => q[j] # q[k]
  BY <1>1 DEF Once
<1>4. ASSUME NEW j \in 1 .. n + 1, NEW k \in 1 .. n + 1, j # k PROVE r[j] # r[k]
  <2>1. CASE j \in 1 .. n /\ k \in 1 .. n
    BY <1>1, <1>3, <1>4, <2>1
  <2>2. CASE j = n + 1
    <3>1. k \in 1 .. n
      BY <1>1, <1>4, <2>2
    <3> QED BY <1>1, <1>2, <2>2, <3>1
  <2>3. CASE k = n + 1
    <3>1. j \in 1 .. n
      BY <1>1, <1>4, <2>3
    <3> QED BY <1>1, <1>2, <2>3, <3>1
  <2> QED BY <1>1, <2>1, <2>2, <2>3
<1>5. n + 1 <= Cardinality(Msgs)
  <2>1. r \in [1 .. n + 1 -> Msgs]
    <3>1. \A k \in 1 .. n + 1 : r[k] \in Msgs
      BY <1>1, SeqFacts
    <3>2. r = [k \in 1 .. n + 1 |-> r[k]]
      BY <1>1, LenProperties
    <3> QED BY <3>1, <3>2
  <2>2. r \in Injection(1 .. n + 1, Msgs)
    BY <1>4, <2>1, Fun_IsInj
  <2>3. Cardinality(1 .. n + 1) = n + 1
    BY <1>1, FS_Interval
  <2> QED BY <2>2, <2>3, FS_Injection DEF JournalHolds
<1>6. n < cfg.journalKeep
  <2>1. Cardinality(Msgs) \in Nat /\ Cardinality(Msgs) <= cfg.journalKeep /\ cfg.journalKeep \in Nat
    BY FS_CardinalityType, CfgFacts DEF JournalHolds, Types
  <2> QED BY <1>1, <1>5, <2>1
<1>7. Marked(m) = r
  <2>1. cfg.journalKeep \in Nat \ {0} /\ Len(q) <= cfg.journalKeep
    BY <1>1, <1>6, CfgFacts DEF Types, n
  <2> QED BY <1>1, <1>6, <2>1, MarkedIs DEF r, n
<1>8. \A x \in Msgs : (\E k \in DOMAIN r : r[k] = x) <=> Seen(x) \/ x = m
  <2> TAKE x \in Msgs
  <2>1. Seen(x) => \E k \in DOMAIN r : r[k] = x
    <3>1. \A k \in 1 .. n : k \in 1 .. n + 1
      BY <1>1
    <3> QED BY <1>1, <3>1 DEF Seen
  <2>2. x = m => \E k \in DOMAIN r : r[k] = x
    <3>1. n + 1 \in 1 .. n + 1
      BY <1>1
    <3> QED BY <1>1, <3>1
  <2>3. ASSUME NEW k \in DOMAIN r, r[k] = x PROVE Seen(x) \/ x = m
    <3>1. k \in 1 .. n \/ k = n + 1
      BY <1>1
    <3> QED BY <1>1, <2>3, <3>1 DEF Seen
  <2> QED BY <2>1, <2>2, <2>3
<1> QED BY <1>1, <1>4, <1>7, <1>8 DEF r

\* A client that starts with a cursor has fired what is in its journal, once.
LEMMA OnceInit == Init => Once
<1> SUFFICES ASSUME Init PROVE Once
  OBVIOUS
<1>3. DOMAIN log = 1 .. Len(log)
  BY InitIs, SeqFacts
<1>4. \A j, k \in DOMAIN log : j = k
  BY <1>3, InitIs
<1>5. \A m \in Msgs : Seen(m) <=> m \in Range(log)
  BY InitIs DEF Seen, Range
<1>6. InHand /\ \A m \in Msgs : ~Posting(m)
  BY InitIs DEF InHand, Posting
<1> QED BY <1>4, <1>5, <1>6, InitIs DEF Once

\* No step journals a message again, and only a reset lets one be fired twice.
LEMMA OnceStep == JournalHolds /\ Types /\ Agree /\ Once /\ [Next]_vars => Once'
<1> SUFFICES ASSUME JournalHolds, Types, Agree, Once, [Next]_vars PROVE Once'
  OBVIOUS
<1> USE DEF serverVars, sessionVars, clientVars, haVars
<1> DEFINE m == current[1].msg
<1>0. resets \in Nat /\ \A x \in Msgs : fired[x] \in Nat
  BY DEF Types
\* Steps that change neither the journal nor what arrived.
<1>1. ASSUME UNCHANGED <<fired, resets>>, st'.journal = st.journal, current' = current \/ current' = <<>>,
             pc' = "firing" => pc = "firing" /\ current' = current
      PROVE  Once'
  <2>1. \A x \in Msgs : (Seen(x)' <=> Seen(x)) /\ (Posting(x)' => Posting(x))
    BY <1>1 DEF Seen, Posting
  <2>3. InHand'
    BY <1>1 DEF Once, InHand, Seen
  <2> QED BY <1>1, <2>1, <2>3 DEF Once
<1>2. ASSUME Server \/ Write \/ ReadGap \/ UNCHANGED vars PROVE Once'
  <2>1. UNCHANGED <<fired, resets, st, current, pc>>
    BY <1>2 DEF Server, Publish, Delete, OtherSubscriber, Break, ServerRestart, Write, ReadGap, vars
  <2> QED BY <1>1, <2>1
<1>3. ASSUME Connect \/ Notice \/ ClientCrash PROVE Once'
  <2>1. /\ UNCHANGED <<fired, resets, st>> /\ pc' \in {"reading", "down"}
        /\ (current' = current \/ current' = <<>>)
    BY <1>3 DEF Connect, Notice, ClientCrash, Hangup
  <2> QED BY <1>1, <2>1
<1>4. ASSUME ReadHello \/ Advance PROVE Once'
  <2>1. /\ UNCHANGED <<fired, resets>> /\ st'.journal = st.journal /\ pc' = "reading"
        /\ (current' = current \/ current' = <<>>)
    BY <1>4 DEF ReadHello, Advance, Types
  <2> QED BY <1>1, <2>1
<1>5. ASSUME ReadMessage PROVE Once'
  <2> DEFINE e == Head(wire)
  <2>1. /\ pc = "reading" /\ wire # <<>> /\ e.kind = "message"
        /\ UNCHANGED <<fired, resets>>
        /\ IF Seen(e.msg) THEN st' = [st EXCEPT !.last_id = e.id] /\ UNCHANGED <<pc, current>>
           ELSE /\ st' = [st EXCEPT !.journal = Marked(e.msg)]
                /\ pc' = "firing" /\ current' = <<e>>
    BY <1>5 DEF ReadMessage
  <2>2. e \in MessageEvents /\ e.msg \in Msgs
    BY <2>1, TailFacts, EventFacts DEF Types
  <2> HIDE DEF e
  <2>3. CASE Seen(e.msg)
    <3>1. st'.journal = st.journal /\ pc' = "reading" /\ current' = current
      BY <2>1, <2>3 DEF Types
    <3> QED BY <1>1, <2>1, <3>1
  <2>4. CASE ~Seen(e.msg)
    <3>1. /\ st'.journal = Marked(e.msg) /\ pc' = "firing"
          /\ current'[1] = e /\ DOMAIN current' = {1}
      BY <2>1, <2>4 DEF Types
    <3>2. /\ \A j, k \in DOMAIN st'.journal : j # k => st'.journal[j] # st'.journal[k]
          /\ \A x \in Msgs : Seen(x)' <=> Seen(x) \/ x = e.msg
      BY <2>2, <2>4, <3>1, JournalRoom DEF Seen
    <3>3. fired[e.msg] = 0
      BY <2>2, <2>4 DEF Once
    <3>4. \A x \in Msgs : /\ ~Seen(x)' => fired'[x] = 0
                          /\ Posting(x)' => fired'[x] <= resets'
                          /\ fired'[x] <= 1 + resets'
      BY <1>0, <2>1, <3>1, <3>2, <3>3 DEF Once, Posting
    <3>5. InHand'
      BY <2>2, <3>1, <3>2 DEF InHand, Seen
    <3> QED BY <3>2, <3>4, <3>5 DEF Once
  <2> QED BY <2>3, <2>4
\* A post: the message is in the journal, and arrived by repetition only.
<1>6. ASSUME pc = "firing", st' = st, current' = current \/ current' = <<>>,
             fired' = [fired EXCEPT ![m] = @ + 1],
             \/ resets' = resets /\ pc' # "firing"
             \/ resets' = resets + 1 /\ current' = current
      PROVE  Once'
  <2>1. m \in Msgs /\ fired \in [Msgs -> Nat] /\ Posting(m) /\ Seen(m)
    <3>1. m \in Msgs /\ fired \in [Msgs -> Nat] /\ 1 \in DOMAIN current
      BY <1>6, CurrentIs DEF Types
    <3> QED BY <1>6, <3>1 DEF Posting, Once, InHand
  <2>2. fired[m] <= resets
    BY <2>1 DEF Once
  <2>3. \A x \in Msgs : Posting(x) => x = m
    BY DEF Posting
  <2> HIDE DEF m
  <2>4. \A x \in Msgs : fired'[x] = IF x = m THEN fired[x] + 1 ELSE fired[x]
    BY <1>6, <2>1
  <2>5. \A x \in Msgs : (Seen(x)' <=> Seen(x)) /\ (Posting(x)' => Posting(x) /\ resets' = resets + 1)
    BY <1>6 DEF Seen, Posting
  <2>6. ASSUME NEW x \in Msgs
        PROVE  /\ ~Seen(x)' => fired'[x] = 0
               /\ Posting(x)' => fired'[x] <= resets'
               /\ fired'[x] <= 1 + resets'
    <3>1. fired[x] <= 1 + resets /\ (~Seen(x) => fired[x] = 0)
      BY DEF Once
    <3>2. resets' = resets \/ resets' = resets + 1
      BY <1>6
    <3> QED BY <1>0, <2>1, <2>2, <2>3, <2>4, <2>5, <3>1, <3>2
  <2>7. InHand'
    BY <1>6 DEF Once, InHand, Seen
  <2>8. \A j, k \in DOMAIN st'.journal : j # k => st'.journal[j] # st'.journal[k]
    BY <1>6 DEF Once
  <2> QED BY <2>6, <2>7, <2>8 DEF Once
<1>7. ASSUME Fire \/ FireAmbiguous \/ FireRaises PROVE Once'
  <2>1. /\ pc = "firing" /\ pc' # "firing" /\ st' = st /\ (current' = current \/ current' = <<>>)
        /\ resets' = resets
        /\ fired' = [fired EXCEPT ![m] = @ + 1] \/ fired' = fired
    BY <1>7 DEF Fire, FireAmbiguous, FireRaises, Arrived, Hangup
  <2> QED BY <1>1, <1>6, <2>1
<1>8. ASSUME FireReset PROVE Once'
  <2>1. /\ pc = "firing" /\ st' = st /\ current' = current /\ resets' = resets + 1
        /\ fired' = [fired EXCEPT ![m] = @ + 1]
    BY <1>8 DEF FireReset
  <2> QED BY <1>6, <2>1
<1> QED BY <1>2, <1>3, <1>4, <1>5, <1>7, <1>8 DEF Next, Client

\* An SMS triggers the automations again only as often as Home Assistant reset
\* a connection that had brought it the request (relay.py:86-87), whatever
\* restarts, breaks, crashes and repeated readings come between, as long as the
\* journal does not forget (JOURNAL_KEEP).
THEOREM FiredOnce == JournalHolds /\ Spec => []FiredOncePlusResets
<1> SUFFICES ASSUME JournalHolds PROVE Spec => []FiredOncePlusResets
  OBVIOUS
<1>1. Types /\ Agree /\ Once /\ [Next]_vars => Once'
  BY OnceStep
<1>2. Once => FiredOncePlusResets
  BY DEF Once, FiredOncePlusResets
<1> QED BY <1>1, <1>2, OnceInit, Wellformed, PTL DEF Spec
-----------------------------------------------------------------------------
(* With a store: what the cursor passes over.                              *)

\* The journal remembers, the stream's log only grows, and so what is done
\* stays done.
LEMMA SeenKept ==
    ASSUME JournalHolds, Types, Agree, Once, [Next]_vars
    PROVE  \A x \in Msgs : Seen(x) => Seen(x)'
<1> USE DEF serverVars, sessionVars, clientVars, haVars
<1>1. ASSUME st'.journal = st.journal PROVE \A x \in Msgs : Seen(x) => Seen(x)'
  BY <1>1 DEF Seen
<1>2. ASSUME ~ReadMessage PROVE st'.journal = st.journal
  <2>1. Server \/ Write \/ ReadGap \/ Connect \/ Notice \/ ClientCrash \/ UNCHANGED vars
          \/ Fire \/ FireAmbiguous \/ FireReset \/ FireRaises => st' = st
    BY DEF Server, Publish, Delete, OtherSubscriber, Break, ServerRestart, Write, ReadGap, Connect,
           Notice, ClientCrash, vars, Fire, FireAmbiguous, FireReset, FireRaises
  <2>2. ReadHello \/ Advance => st'.journal = st.journal
    BY DEF ReadHello, Advance, Types
  <2> QED BY <1>2, <2>1, <2>2 DEF Next, Client
<1>3. ASSUME ReadMessage PROVE \A x \in Msgs : Seen(x) => Seen(x)'
  <2> DEFINE e == Head(wire)
  <2>1. /\ wire # <<>> /\ e.kind = "message"
        /\ \/ Seen(e.msg) /\ st' = [st EXCEPT !.last_id = e.id]
           \/ ~Seen(e.msg) /\ st' = [st EXCEPT !.journal = Marked(e.msg)]
    BY <1>3 DEF ReadMessage
  <2>2. e.msg \in Msgs
    BY <2>1, TailFacts, EventFacts DEF Types
  <2> HIDE DEF e
  <2>3. CASE st' = [st EXCEPT !.last_id = e.id]
    <3>1. st'.journal = st.journal
      BY <2>3 DEF Types
    <3> QED BY <1>1, <3>1
  <2>4. CASE ~Seen(e.msg) /\ st' = [st EXCEPT !.journal = Marked(e.msg)]
    <3>1. st'.journal = Marked(e.msg)
      BY <2>4 DEF Types
    <3> QED BY <2>2, <2>4, <3>1, JournalRoom DEF Seen
  <2> QED BY <2>1, <2>3, <2>4
<1> QED BY <1>1, <1>2, <1>3

\* With a store nothing takes an id back: the log grows at its end.
LEMMA LogGrows ==
    ASSUME Types, [Next]_vars, cfg.store
    PROVE  /\ cfg' = cfg /\ stream' = stream /\ lost \subseteq lost'
           /\ log' \in Seq(Msgs) /\ Len(log') \in Nat
           /\ Ids = 1 .. Len(log) /\ Ids' = 1 .. Len(log') /\ Len(log) \in Nat
           /\ \/ log' = log
              \/ Len(log') = Len(log) + 1 /\ \E m \in Msgs : Publish(m)
           /\ \A k \in Ids : k \in Ids' /\ log'[k] = log[k] /\ log[k] \in Msgs
<1> USE DEF serverVars, sessionVars, clientVars, haVars
<1>1. /\ Len(log) \in Nat /\ DOMAIN log = 1 .. Len(log) /\ \A k \in DOMAIN log : log[k] \in Msgs
      /\ log \in Seq(Msgs)
  BY SeqFacts DEF Types
<1>2. ASSUME NEW m \in Msgs, Publish(m)
      PROVE  /\ cfg' = cfg /\ stream' = stream /\ lost \subseteq lost'
             /\ log' \in Seq(Msgs) /\ Len(log') = Len(log) + 1
             /\ \A k \in 1 .. Len(log) : log'[k] = log[k]
  <2>1. log' = Append(log, m)
    BY <1>2 DEF Publish
  <2>2. log' \in Seq(Msgs) /\ Len(log') = Len(log) + 1 /\ \A k \in 1 .. Len(log) : log'[k] = log[k]
    BY <1>1, <2>1, AppendFacts
  <2> QED BY <1>2, <2>2 DEF Publish
<1>3. ASSUME Connect PROVE UNCHANGED <<cfg, stream, log>> /\ lost \subseteq lost'
  BY <1>3 DEF Connect
<1>4. ASSUME ~Connect, ~\E m \in Msgs : Publish(m) PROVE UNCHANGED <<cfg, stream, log, lost>>
  <2>2. Server => UNCHANGED <<cfg, stream, log, lost>>
    BY <1>4 DEF Server, Delete, OtherSubscriber, Break, ServerRestart
  <2>3. Client => UNCHANGED <<cfg, stream, log, lost>>
    BY <1>4 DEF Client, ReadHello, ReadGap, ReadMessage, Fire, Advance, Notice
  <2>4. Write \/ FireAmbiguous \/ FireReset \/ FireRaises \/ ClientCrash \/ UNCHANGED vars
          => UNCHANGED <<cfg, stream, log, lost>>
    BY DEF Write, FireAmbiguous, FireReset, FireRaises, ClientCrash, vars
  <2> QED BY <2>2, <2>3, <2>4 DEF Next
<1>5. CASE \E m \in Msgs : Publish(m)
  BY <1>1, <1>2, <1>5 DEF Ids
<1>6. CASE ~\E m \in Msgs : Publish(m)
  <2>1. UNCHANGED <<cfg, stream, log>> /\ lost \subseteq lost'
    BY <1>3, <1>4, <1>6
  <2> QED BY <1>1, <2>1 DEF Ids
<1> QED BY <1>5, <1>6

\* What was handled, or dropped with a marker, stays so.
LEMMA DoneKept ==
    ASSUME JournalHolds, Types, Agree, Once, [Next]_vars, cfg.store, NEW k \in Ids, Done(k)
    PROVE  Done(k)'
<1>1. /\ log'[k] = log[k] /\ log[k] \in Msgs /\ lost \subseteq lost'
  BY LogGrows
<1>2. Seen(log[k]) => Seen(log[k])'
  BY <1>1, SeenKept DEF Seen
<1> QED BY <1>1, <1>2 DEF Done

\* At first nothing is on the wire.
LEMMA SessionsInit == Init => Sessions
<1> SUFFICES ASSUME Init PROVE OneStream /\ InOrder /\ Covered
  BY DEF Sessions
<1>1. /\ wire = <<>> /\ current = <<>> /\ box = NoBox /\ conn = FALSE
      /\ pc = "down" /\ st = [stream_id |-> Len(log), last_id |-> Len(log), journal |-> log]
      /\ since = Len(log) /\ stream = 1 /\ pending = {} /\ Len(log) \in {0, 1}
      /\ log \in Seq(Msgs)
  BY InitIs
<1>2. OneStream
  BY <1>1 DEF OneStream
<1>3. InOrder
  BY <1>1 DEF InOrder, Matching, Ordered, IdsOf, NoBox
<1>4. Covered
  <2> SUFFICES ASSUME NEW k \in Ids, since <= k PROVE Done(k)
    BY <1>1 DEF Covered
  <2>1. k \in DOMAIN log
    BY <1>1, SeqFacts DEF Ids
  <2> QED BY <1>1, <2>1 DEF Done, Seen
<1> QED BY <1>2, <1>3, <1>4

\* With a store no step changes the stream the client's cursor is of.
LEMMA OneStreamStep ==
    ASSUME Types, Agree, OneStream, InOrder, cfg.store, [Next]_vars
    PROVE  OneStream'
<1> USE DEF serverVars, sessionVars, clientVars, haVars
<1>1. /\ stream' = 1 /\ stream = 1 /\ pending = {} /\ Len(log) \in Nat /\ Len(log') \in Nat
      /\ Len(log) <= Len(log') /\ Ids = 1 .. Len(log)
  BY LogGrows DEF OneStream
<1>2. /\ st.stream_id \in {0, 1} /\ st.last_id \in Nat /\ st.last_id <= Len(log)
      /\ st \in [stream_id : Nat, last_id : Nat, journal : Seq(Msgs)]
  BY <1>1 DEF Types, Agree, OneStream
\* Steps of the server, and of the client but for Connect and its reading.
<1>3. ASSUME pending' = {}, UNCHANGED <<st, wire, conn>>, pc' = pc \/ (pc' = "fired" /\ pc = "firing")
             \/ pc' = "down"
      PROVE  OneStream'
  BY <1>1, <1>2, <1>3 DEF OneStream
<1>4. ASSUME NEW m \in Msgs, Publish(m) PROVE OneStream'
  BY <1>1, <1>3, <1>4 DEF Publish
<1>5. ASSUME NEW m \in Msgs, Delete(m) PROVE OneStream'
  BY <1>1, <1>3, <1>5 DEF Delete
<1>6. ASSUME NEW id \in Ids, OtherSubscriber(id) PROVE OneStream'
  BY <1>1, <1>6 DEF OtherSubscriber
<1>7. ASSUME Break \/ ServerRestart PROVE OneStream'
  <2>1. conn' = FALSE /\ wire' \in {wire, <<>>} /\ UNCHANGED <<st, pc>> /\ pending' = {}
    BY <1>1, <1>7 DEF Break, ServerRestart, Disconnect
  <2> QED BY <1>1, <1>2, <2>1 DEF OneStream
<1>8. ASSUME Write PROVE OneStream'
  <2>1. /\ conn /\ UNCHANGED <<st, pc>> /\ box.queue # <<>>
        /\ wire' = Append(wire, Head(box.queue))
    BY <1>8 DEF Write
  <2>2. pending' = {}
    BY <1>1, <1>8 DEF Write, Confirm
  <2>3. Head(box.queue) \in Events
    <3>1. Head(box.queue) \in MessageEvents \cup {Gap}
      BY <2>1, TailFacts DEF Types
    <3> QED BY <3>1 DEF Events
  <2>4. wire # <<>> => wire' # <<>> /\ wire'[1] = wire[1]
    <3>1. /\ Len(wire) \in Nat /\ DOMAIN wire = 1 .. Len(wire)
          /\ wire' # <<>> /\ \A k \in DOMAIN wire : wire'[k] = wire[k]
      BY <2>1, <2>3, SeqFacts, AppendFacts DEF Types
    <3>2. wire # <<>> => 1 \in DOMAIN wire
      BY <3>1, EmptySeq DEF Types
    <3> QED BY <3>1, <3>2
  <2>5. pc = "reading" /\ st.stream_id = 0 => wire' # <<>> /\ wire'[1].kind = "hello"
    BY <2>1, <2>4 DEF OneStream
  <2> QED BY <1>1, <1>2, <2>1, <2>2, <2>5 DEF OneStream
<1>9. ASSUME Connect PROVE OneStream'
  <2>1. wire' = <<Hello>> /\ UNCHANGED <<st, pending>> /\ pc' = "reading"
    BY <1>9 DEF Connect
  <2>2. wire' # <<>> /\ wire'[1].kind = "hello"
    BY <2>1, EventFacts DEF Hello
  <2> QED BY <1>1, <1>2, <2>1, <2>2 DEF OneStream
<1>10. ASSUME ReadHello PROVE OneStream'
  <2>1. /\ pc = "reading" /\ pc' = pc /\ pending' = pending /\ wire # <<>>
        /\ Head(wire).kind = "hello"
        /\ st' = IF Head(wire).id = st.stream_id THEN st
                 ELSE [st EXCEPT !.stream_id = Head(wire).id, !.last_id = 0]
    BY <1>10 DEF ReadHello
  <2>2. Head(wire).id = 1
    <3>1. Head(wire) = wire[1] /\ 1 \in DOMAIN wire /\ Head(wire) \in Events
      BY <2>1, TailFacts DEF Types
    <3>2. Head(wire).id \in Nat \ {0} /\ Head(wire).id <= 1
      BY <1>1, <2>1, <3>1, EventFacts DEF Agree
    <3> QED BY <3>2
  <2>3. st'.stream_id = 1 /\ st'.last_id \in {st.last_id, 0}
    BY <1>2, <2>1, <2>2
  <2> QED BY <1>1, <1>2, <2>1, <2>3 DEF OneStream
\* Behind the hello there is a cursor of this stream.
<1>11. ASSUME pc = "reading", wire # <<>>, Head(wire).kind # "hello" PROVE st.stream_id = 1
  <2>1. Head(wire) = wire[1]
    BY <1>11
  <2> QED BY <1>2, <1>11, <2>1 DEF OneStream
<1>12. ASSUME ReadGap PROVE OneStream'
  <2>1. st.stream_id = 1
    BY <1>11, <1>12 DEF ReadGap
  <2> QED BY <1>1, <1>2, <1>12, <2>1 DEF ReadGap, OneStream
<1>13. ASSUME ReadMessage PROVE OneStream'
  <2> DEFINE e == Head(wire)
  <2>1. /\ pc = "reading" /\ wire # <<>> /\ e.kind = "message" /\ pending' = pending
        /\ \/ st' = [st EXCEPT !.last_id = e.id]
           \/ st' = [st EXCEPT !.journal = Marked(e.msg)]
        /\ pc' \in {"reading", "firing"}
    BY <1>13 DEF ReadMessage
  <2>2. e.id \in Ids
    BY <2>1, TailFacts DEF InOrder, Matching, Matches, Types
  <2> HIDE DEF e
  <2>3. st.stream_id = 1
    BY <1>11, <2>1 DEF e
  <2>4. st'.stream_id = 1 /\ st'.last_id \in {st.last_id, e.id}
    BY <1>2, <2>1, <2>3
  <2> QED BY <1>1, <1>2, <2>1, <2>2, <2>4 DEF OneStream
<1>14. ASSUME Fire \/ FireAmbiguous \/ FireReset \/ Notice \/ UNCHANGED vars PROVE OneStream'
  <2>1. /\ UNCHANGED <<pending, st, wire, conn>>
        /\ pc' = pc \/ (pc' = "fired" /\ pc = "firing") \/ pc' = "down"
    BY <1>14 DEF Fire, FireAmbiguous, FireReset, Notice, vars
  <2> QED BY <1>1, <1>3, <2>1
<1>15. ASSUME FireRaises \/ ClientCrash PROVE OneStream'
  <2>1. pc' = "down" /\ UNCHANGED <<pending, st>>
    BY <1>15 DEF FireRaises, ClientCrash
  <2> QED BY <1>1, <1>2, <2>1 DEF OneStream
<1>16. ASSUME Advance PROVE OneStream'
  <2>1. /\ pc = "fired" /\ pc' = "reading" /\ pending' = pending
        /\ st' = [st EXCEPT !.last_id = current[1].id]
    BY <1>16 DEF Advance
  <2>2. current[1].id \in Ids
    BY <2>1, CurrentIs DEF InOrder, Matching, Matches, MessageEvents
  <2>3. st'.stream_id = 1 /\ st'.last_id = current[1].id
    BY <1>2, <2>1 DEF OneStream
  <2> QED BY <1>1, <1>2, <2>1, <2>2, <2>3 DEF OneStream
<1> QED BY <1>4, <1>5, <1>6, <1>7, <1>8, <1>9, <1>10, <1>12, <1>13, <1>14, <1>15, <1>16
        DEF Next, Server, Client

\* What matches the log matches it when it grew.
LEMMA MatchingKept ==
    ASSUME Types, [Next]_vars, cfg.store, NEW q, Matching(q)
    PROVE  Matching(q)'
BY LogGrows DEF Matching, Matches

\* Every step leaves wire and queue in the order of the log.
LEMMA InOrderStep ==
    ASSUME Types, Agree, InOrder, Agree', cfg.store, [Next]_vars
    PROVE  InOrder'
<1> USE DEF serverVars, sessionVars, clientVars, haVars
<1>1. /\ Len(log) \in Nat /\ Ids = 1 .. Len(log)
      /\ IdsOf(wire) \subseteq Ids /\ IdsOf(box.queue) \subseteq Ids
  BY LogGrows, MatchedIds DEF InOrder, Agree
<1>2. ASSUME Matching(wire'), Matching(current'),
             Ordered(wire'), Ordered(box'.queue),
             \A i \in IdsOf(wire'), j \in IdsOf(box'.queue) : i < j
      PROVE  InOrder'
  <2>1. Matching(wire)'
    <3> SUFFICES ASSUME NEW r, r = wire' PROVE Matching(r)'
      OBVIOUS
    <3> QED BY <1>2, MatchingKept
  <2>2. Matching(current)'
    <3> SUFFICES ASSUME NEW r, r = current' PROVE Matching(r)'
      OBVIOUS
    <3> QED BY <1>2, MatchingKept
  <2>3. Ordered(wire)' /\ Ordered(box.queue)'
    BY <1>2 DEF Ordered
  <2>4. (\A i \in IdsOf(wire), j \in IdsOf(box.queue) : i < j)'
    BY <1>2 DEF IdsOf
  <2> QED BY <2>1, <2>2, <2>3, <2>4 DEF InOrder
<1>3. ASSUME NEW q, q = <<>> PROVE Matching(q) /\ Ordered(q) /\ IdsOf(q) = {}
  BY <1>3 DEF Matching, Ordered, IdsOf
<1>4. ASSUME current' = current \/ current' = <<>> PROVE Matching(current')
  BY <1>3, <1>4 DEF InOrder
\* Steps that move nothing, and those that end the session.
<1>5. ASSUME UNCHANGED <<wire, box>>, current' = current \/ current' = <<>> PROVE InOrder'
  BY <1>2, <1>4, <1>5 DEF InOrder
<1>6. ASSUME wire' \in {wire, <<>>}, box' = NoBox, current' = current \/ current' = <<>> PROVE InOrder'
  <2>1. Matching(wire') /\ Ordered(wire')
    BY <1>3, <1>6 DEF InOrder
  <2>2. Ordered(box'.queue) /\ IdsOf(box'.queue) = {}
    BY <1>3, <1>6 DEF NoBox
  <2> QED BY <1>2, <1>4, <1>6, <2>1, <2>2
\* Reading takes the head.
<1>7. ASSUME wire # <<>>, wire' = Tail(wire), box' = box PROVE
        /\ Matching(wire') /\ Ordered(wire') /\ Matching(<<Head(wire)>>)
        /\ \A i \in IdsOf(wire'), j \in IdsOf(box'.queue) : i < j
  <2>1. /\ Head(wire) = wire[1] /\ 1 \in DOMAIN wire
        /\ \A k \in DOMAIN wire' : k + 1 \in DOMAIN wire /\ wire'[k] = wire[k + 1]
    BY <1>7, TailFacts DEF Types
  <2>2. Matching(wire') /\ Matching(<<Head(wire)>>)
    BY <2>1 DEF InOrder, Matching
  <2>3. Ordered(wire') /\ IdsOf(wire') \subseteq IdsOf(wire)
    BY <1>7, TailIds DEF Types, InOrder
  <2> QED BY <1>7, <2>2, <2>3 DEF InOrder
<1>8. ASSUME NEW m \in Msgs, Publish(m) PROVE InOrder'
  <2>1. UNCHANGED <<wire, current>>
    BY <1>8 DEF Publish
  <2>2. CASE ~conn
    BY <1>5, <1>8, <2>1, <2>2 DEF Publish
  <2>3. CASE conn
    <3> DEFINE e == Message(Len(log'), m)
    <3>1. box' = Offered(box, e)
      BY <1>8, <2>3 DEF Publish
    <3>2. log' = Append(log, m)
      BY <1>8 DEF Publish
    <3>3. Len(log') = Len(log) + 1
      BY <3>2, AppendFacts DEF Types
    <3>4. e \in MessageEvents /\ e.id = Len(log) + 1
      BY <1>1, <3>3, EventFacts
    <3> HIDE DEF e
    <3>5. /\ cfg.queueMax \in Nat \ {0} /\ Len(box.queue) <= cfg.queueMax
          /\ box \in [queue : Seq(MessageEvents \cup {Gap}), gapped : BOOLEAN]
      BY CfgFacts DEF Types, Agree
    <3>6. \A i \in IdsOf(wire) \cup IdsOf(box.queue) : i < e.id
      BY <1>1, <3>4
    <3>7. Ordered(Offered(box, e).queue) /\ IdsOf(Offered(box, e).queue) \subseteq IdsOf(box.queue) \cup {e.id}
      BY <3>4, <3>5, <3>6, OfferedIs DEF InOrder
    <3>8. Ordered(box'.queue) /\ \A i \in IdsOf(wire'), j \in IdsOf(box'.queue) : i < j
      BY <2>1, <3>1, <3>6, <3>7 DEF InOrder
    <3> QED BY <1>2, <1>4, <2>1, <3>8 DEF InOrder
  <2> QED BY <2>2, <2>3
<1>9. ASSUME Write PROVE InOrder'
  <2> DEFINE e == Head(box.queue)
             E == MessageEvents \cup {Gap}
  <2>1. /\ box.queue # <<>> /\ wire' = Append(wire, e) /\ box'.queue = Tail(box.queue)
        /\ current' = current
    BY <1>9 DEF Write, Types
  <2>2. box.queue \in Seq(E) /\ E \subseteq Events
    BY EventFacts DEF Types, Events
  <2> HIDE DEF E
  <2>3. box.queue \in Seq(Events)
    BY <2>2, SeqMonotonic
  <2>4. e = box.queue[1] /\ 1 \in DOMAIN box.queue /\ e \in Events
    BY <2>1, <2>3, TailFacts
  <2>5. /\ Ordered(Tail(box.queue)) /\ IdsOf(Tail(box.queue)) \subseteq IdsOf(box.queue)
        /\ e.kind = "message" => /\ e.id \in IdsOf(box.queue)
                                 /\ \A i \in IdsOf(Tail(box.queue)) : e.id < i
    BY <2>1, <2>3, TailIds DEF InOrder
  <2>6. Matches(e)
    BY <2>4 DEF Agree, Matching
  <2> HIDE DEF e
  <2>7. /\ IdsOf(wire') \subseteq IdsOf(wire) \cup (IF e.kind = "message" THEN {e.id} ELSE {})
        /\ Ordered(wire')
    BY <2>1, <2>4, <2>5, AppendIds DEF Types, InOrder
  <2>8. Matching(wire')
    <3>1. \A k \in DOMAIN wire' : wire'[k] = e \/ \E j \in DOMAIN wire : wire'[k] = wire[j]
      BY <2>1, <2>4, AppendFacts DEF Types
    <3> QED BY <2>6, <3>1 DEF Matching, InOrder
  <2>9. \A i \in IdsOf(wire'), j \in IdsOf(box'.queue) : i < j
    BY <2>1, <2>5, <2>7 DEF InOrder
  <2> QED BY <1>2, <1>4, <2>1, <2>5, <2>7, <2>8, <2>9
<1>10. ASSUME Connect PROVE InOrder'
  <2>1. PICK S \in SUBSET Ids : \E q \in Ascending(S) : box' = Enqueued(q)
    <3> DEFINE valid == st.last_id # 0 /\ st.stream_id = stream /\ st.last_id <= Len(log)
               S == pending \cup (IF valid THEN Replay(st.last_id) ELSE {})
    <3>1. S \in SUBSET Ids
      BY DEF Types, Replay
    <3>2. \E q \in Ascending(S) : box' = Enqueued(q)
      BY <1>10 DEF Connect
    <3> HIDE DEF S
    <3> QED BY <3>1, <3>2
  <2>2. Ordered(box'.queue)
    <3>1. log \in Seq(Msgs) /\ cfg.queueMax \in Nat \ {0}
      BY CfgFacts DEF Types
    <3> QED BY <2>1, <3>1, EnqueuedIs
  <2>3. wire' = <<Hello>> /\ current' = current
    BY <1>10 DEF Connect
  <2>4. Matching(wire') /\ Ordered(wire') /\ IdsOf(wire') = {}
    BY <2>3 DEF Matching, Matches, Ordered, IdsOf, Hello
  <2> QED BY <1>2, <1>4, <2>2, <2>3, <2>4
<1>11. ASSUME ReadHello \/ ReadGap \/ ReadMessage PROVE InOrder'
  <2>1. /\ wire # <<>> /\ wire' = Tail(wire) /\ box' = box
        /\ current' = current \/ current' = <<Head(wire)>>
    BY <1>11 DEF ReadHello, ReadGap, ReadMessage
  <2>2. Matching(current')
    BY <1>4, <1>7, <2>1
  <2> QED BY <1>2, <1>7, <2>1, <2>2 DEF InOrder
<1>12. ASSUME Server, ~\E m \in Msgs : Publish(m) PROVE InOrder'
  <2>1. /\ UNCHANGED <<wire, box>> \/ (wire' \in {wire, <<>>} /\ box' = NoBox)
        /\ current' = current
    BY <1>12 DEF Server, Delete, OtherSubscriber, Break, ServerRestart, Disconnect
  <2> QED BY <1>5, <1>6, <2>1
<1>13. ASSUME Fire \/ FireAmbiguous \/ FireReset \/ Advance \/ Notice \/ UNCHANGED vars PROVE InOrder'
  <2>1. UNCHANGED <<wire, box>> /\ (current' = current \/ current' = <<>>)
    BY <1>13 DEF Fire, FireAmbiguous, FireReset, Advance, Notice, vars
  <2> QED BY <1>5, <2>1
<1>14. ASSUME FireRaises \/ ClientCrash PROVE InOrder'
  <2>1. wire' = <<>> /\ box' = NoBox /\ current' = <<>>
    BY <1>14 DEF FireRaises, ClientCrash, Hangup
  <2> QED BY <1>6, <2>1
<1> QED BY <1>8, <1>9, <1>10, <1>11, <1>12, <1>13, <1>14 DEF Next, Client

\* A message the client is owed stays ahead of it until it is done: a step
\* hands it on, loses it with a gap marker or ends the session.
LEMMA CoveredStep ==
    ASSUME JournalHolds, Types, Agree, Once, OneStream, InOrder, Covered, cfg.store, [Next]_vars
    PROVE  Covered'
<1> USE DEF serverVars, sessionVars, clientVars, haVars
<1>1. /\ Len(log) \in Nat /\ Ids = 1 .. Len(log) /\ Ids' = 1 .. Len(log')
      /\ IdsOf(wire) \subseteq Ids /\ IdsOf(box.queue) \subseteq Ids
  BY LogGrows, MatchedIds DEF InOrder, Agree
<1>2. st.last_id \in Nat /\ since \in Nat /\ st \in [stream_id : Nat, last_id : Nat, journal : Seq(Msgs)]
  BY DEF Types
<1>3. ASSUME NEW k, st'.last_id < k, \A j \in DOMAIN current' : current'[j].id < k,
             \/ k \in IdsOf(wire') \cup IdsOf(box'.queue)
             \/ conn' = FALSE /\ \A i \in IdsOf(wire') : i < k
      PROVE  Ahead(k)'
  BY <1>3 DEF Ahead, IdsOf
<1>4. ASSUME NEW k \in Ids, since <= k, ~Done(k)' PROVE ~Done(k) /\ Ahead(k)
  BY <1>4, DoneKept DEF Covered
<1>5. ASSUME since' = since, log' = log, \A k \in Ids : Ahead(k) /\ ~Done(k)' => Ahead(k)' PROVE Covered'
  BY <1>1, <1>4, <1>5 DEF Covered
<1>6. ASSUME NEW q, q = <<>> PROVE IdsOf(q) = {}
  BY <1>6 DEF IdsOf
\* Steps that move nothing, and those that end the session.
<1>7. ASSUME UNCHANGED <<log, since, wire, box, conn>>, current' = current \/ current' = <<>>,
             st'.last_id = st.last_id
      PROVE  Covered'
  BY <1>3, <1>5, <1>7 DEF Ahead
<1>8. ASSUME UNCHANGED <<log, since>>, wire' \in {wire, <<>>}, conn' = FALSE,
             current' = current \/ current' = <<>>, st'.last_id = st.last_id
      PROVE  Covered'
  <2> SUFFICES ASSUME NEW k \in Ids, Ahead(k) PROVE Ahead(k)'
    BY <1>5, <1>8
  <2>1. st'.last_id < k /\ \A j \in DOMAIN current' : current'[j].id < k
    BY <1>8 DEF Ahead
  <2>2. k \in IdsOf(wire) \/ \A i \in IdsOf(wire) : i < k
    BY DEF Ahead, InOrder
  <2>3. k \in IdsOf(wire') \/ \A i \in IdsOf(wire') : i < k
    BY <1>6, <1>8, <2>2
  <2> QED BY <1>3, <1>8, <2>1, <2>3
\* Reading takes the head.
<1>9. ASSUME NEW k \in Ids, Ahead(k), wire # <<>>, wire' = Tail(wire), UNCHANGED <<box, conn>>,
             Head(wire).kind = "message" => k # Head(wire).id
      PROVE  /\ Head(wire).kind = "message" => Head(wire).id < k
             /\ \/ k \in IdsOf(wire') \cup IdsOf(box'.queue)
                \/ conn' = FALSE /\ \A i \in IdsOf(wire') : i < k
  <2>1. /\ IdsOf(wire') \subseteq IdsOf(wire)
        /\ Head(wire).kind = "message" => /\ IdsOf(wire) \subseteq {Head(wire).id} \cup IdsOf(wire')
                                          /\ Head(wire).id \in IdsOf(wire)
                                          /\ \A i \in IdsOf(wire') : Head(wire).id < i
        /\ Head(wire).kind # "message" => IdsOf(wire) \subseteq IdsOf(wire')
    BY <1>9, TailIds DEF Types, InOrder
  <2>2. k \in IdsOf(wire) => k \in IdsOf(wire')
    BY <1>9, <2>1
  <2>3. Head(wire).kind = "message" => Head(wire).id < k
    BY <1>9, <2>1, <2>2 DEF Ahead, InOrder
  <2>4. conn' = FALSE <=> ~conn
    BY <1>9 DEF Types
  <2> QED BY <1>9, <2>1, <2>2, <2>3, <2>4 DEF Ahead
<1>10. ASSUME NEW m \in Msgs, Publish(m) PROVE Covered'
  <2> DEFINE e == Message(Len(log'), m)
  <2>1. /\ UNCHANGED <<wire, current, st, conn, since>>
        /\ lost' = lost \cup Losing(IdsOf(box.queue) \cup {Len(log')}, box')
        /\ log' = Append(log, m)
        /\ box' = IF conn THEN Offered(box, e) ELSE box
    BY <1>10 DEF Publish
  <2>2. Len(log') = Len(log) + 1
    BY <2>1, AppendFacts DEF Types
  <2>3. e \in MessageEvents /\ e.id = Len(log')
    BY <1>1, <2>2, EventFacts
  <2> HIDE DEF e
  <2>4. ASSUME conn PROVE IdsOf(box.queue) \cup {Len(log')} \subseteq IdsOf(box'.queue) \cup lost'
    <3>1. /\ cfg.queueMax \in Nat \ {0} /\ Len(box.queue) <= cfg.queueMax
          /\ box \in [queue : Seq(MessageEvents \cup {Gap}), gapped : BOOLEAN]
      BY CfgFacts DEF Types, Agree
    <3>2. IdsOf(box.queue) \cup {e.id} \subseteq IdsOf(Offered(box, e).queue)
                 \cup Losing(IdsOf(box.queue) \cup {e.id}, Offered(box, e))
      BY <2>3, <3>1, OfferedIs
    <3>3. box' = Offered(box, e)
      BY <2>1, <2>4
    <3> QED BY <2>1, <2>3, <3>2, <3>3
  <2>5. ASSUME NEW k \in Ids, since <= k, ~Done(k)' PROVE Ahead(k)'
    <3>1. Ahead(k) /\ k \notin lost'
      BY <1>4, <2>5 DEF Done
    <3>2. st'.last_id < k /\ \A j \in DOMAIN current' : current'[j].id < k
      BY <2>1, <3>1 DEF Ahead
    <3>3. CASE conn
      BY <1>3, <2>1, <2>4, <3>1, <3>2, <3>3 DEF Ahead
    <3>4. CASE ~conn
      <4>1. box' = box /\ (conn' = FALSE <=> ~conn)
        BY <2>1, <3>4 DEF Types
      <4> QED BY <1>3, <2>1, <3>1, <3>2, <4>1 DEF Ahead
    <3> QED BY <3>3, <3>4
  <2>6. ASSUME NEW k, k = Len(log'), ~Done(k)' PROVE Ahead(k)'
    <3>1. k \notin lost' /\ k = Len(log) + 1
      BY <2>2, <2>6 DEF Done
    <3>2. st'.last_id < k /\ \A j \in DOMAIN current' : current'[j].id < k
      <4>1. \A j \in DOMAIN current : current[j].id \in Ids
        <5>1. \A j \in DOMAIN current : Matches(current[j]) /\ current[j].kind = "message"
          BY EventFacts DEF InOrder, Matching, Types
        <5> QED BY <5>1 DEF Matches
      <4>2. st.last_id <= Len(log)
        BY DEF OneStream
      <4>3. \A j \in DOMAIN current : current[j].id < k
        BY <1>1, <3>1, <4>1
      <4> QED BY <1>1, <1>2, <2>1, <3>1, <4>2, <4>3
    <3>3. CASE conn
      BY <1>3, <2>4, <2>6, <3>1, <3>2, <3>3
    <3>4. CASE ~conn
      <4>1. conn' = FALSE
        BY <2>1, <3>4 DEF Types
      <4>2. \A i \in IdsOf(wire') : i < k
        BY <1>1, <2>1, <3>1
      <4> QED BY <1>3, <3>2, <4>1, <4>2
    <3> QED BY <3>3, <3>4
  <2>7. \A k \in Ids' : k \in Ids \/ k = Len(log')
    BY <1>1, <2>2
  <2> QED BY <2>1, <2>5, <2>6, <2>7 DEF Covered
<1>11. ASSUME Write PROVE Covered'
  <2> DEFINE e == Head(box.queue)
             E == MessageEvents \cup {Gap}
  <2>1. /\ box.queue # <<>> /\ wire' = Append(wire, e) /\ box'.queue = Tail(box.queue)
        /\ UNCHANGED <<log, since, current, st>> /\ conn
    BY <1>11 DEF Write, Types
  <2>2. box.queue \in Seq(E) /\ E \subseteq Events
    BY EventFacts DEF Types, Events
  <2> HIDE DEF E
  <2>3. box.queue \in Seq(Events)
    BY <2>2, SeqMonotonic
  <2>4. e \in Events
    BY <2>1, <2>3, TailFacts
  <2>5. /\ e.kind = "message" => IdsOf(box.queue) \subseteq {e.id} \cup IdsOf(box'.queue)
        /\ e.kind # "message" => IdsOf(box.queue) \subseteq IdsOf(box'.queue)
    BY <2>1, <2>3, TailIds DEF InOrder
  <2> HIDE DEF e
  <2>6. /\ IdsOf(wire) \subseteq IdsOf(wire')
        /\ e.kind = "message" => e.id \in IdsOf(wire')
    BY <2>1, <2>4, AppendIds DEF Types
  <2>7. IdsOf(wire) \cup IdsOf(box.queue) \subseteq IdsOf(wire') \cup IdsOf(box'.queue)
    BY <2>5, <2>6
  <2>8. ASSUME NEW k \in Ids, Ahead(k) PROVE Ahead(k)'
    <3>1. /\ st'.last_id < k /\ \A j \in DOMAIN current' : current'[j].id < k
          /\ k \in IdsOf(wire') \cup IdsOf(box'.queue)
      BY <2>1, <2>7, <2>8 DEF Ahead
    <3> QED BY <1>3, <3>1
  <2> QED BY <1>5, <2>1, <2>8
<1>12. ASSUME Connect PROVE Covered'
  <2>1. /\ pc = "down" /\ UNCHANGED <<log, st, current>>
        /\ since' = IF st.last_id = 0 THEN Len(log) + 1 ELSE since
    BY <1>12 DEF Connect
  <2>2. current = <<>>
    BY <2>1 DEF Agree
  <2>3. CASE st.last_id = 0
    BY <1>1, <2>1, <2>3 DEF Covered
  <2>4. CASE st.last_id # 0
    <3> DEFINE S == Replay(st.last_id)
    <3>1. st.stream_id = stream /\ st.last_id <= Len(log) /\ pending = {}
      BY <2>4 DEF OneStream
    <3>2. (\E q \in Ascending(S) : box' = Enqueued(q)) /\ lost' = lost \cup Losing(S, box')
      <4>1. pending \cup S = S
        BY <3>1
      <4> QED BY <1>12, <2>4, <3>1, <4>1 DEF Connect
    <3>3. S \in SUBSET Ids /\ \A k \in Ids : k > st.last_id => k \in S
      BY DEF Replay
    <3> HIDE DEF S
    <3>4. S \subseteq IdsOf(box'.queue) \cup lost'
      <4>1. log \in Seq(Msgs) /\ cfg.queueMax \in Nat \ {0}
        BY CfgFacts DEF Types
      <4>2. S \subseteq IdsOf(box'.queue) \cup Losing(S, box')
        BY <3>2, <3>3, <4>1, EnqueuedIs
      <4> QED BY <3>2, <4>2
    <3>5. ASSUME NEW k \in Ids, Ahead(k), ~Done(k)' PROVE Ahead(k)'
      <4>1. st.last_id < k /\ k \notin lost' /\ k \in Int
        BY <1>1, <3>5 DEF Ahead, Done
      <4>2. k \in IdsOf(box'.queue)
        BY <1>2, <3>3, <3>4, <4>1
      <4>3. st'.last_id < k /\ \A j \in DOMAIN current' : current'[j].id < k
        BY <2>1, <2>2, <4>1
      <4> QED BY <1>3, <4>2, <4>3
    <3> QED BY <1>5, <2>1, <2>4, <3>5
  <2> QED BY <2>3, <2>4
<1>13. ASSUME ReadHello PROVE Covered'
  <2>1. /\ wire # <<>> /\ wire' = Tail(wire) /\ Head(wire).kind = "hello"
        /\ UNCHANGED <<log, since, box, conn, current>>
        /\ \/ st' = st
           \/ st' = [st EXCEPT !.stream_id = Head(wire).id, !.last_id = 0]
    BY <1>13 DEF ReadHello
  <2>2. st'.last_id \in {st.last_id, 0}
    BY <1>2, <2>1
  <2>3. ASSUME NEW k \in Ids, Ahead(k) PROVE Ahead(k)'
    <3>1. st'.last_id < k /\ \A j \in DOMAIN current' : current'[j].id < k
      BY <1>1, <2>1, <2>2, <2>3 DEF Ahead
    <3>2. \/ k \in IdsOf(wire') \cup IdsOf(box'.queue)
          \/ conn' = FALSE /\ \A i \in IdsOf(wire') : i < k
      BY <1>9, <2>1, <2>3
    <3> QED BY <1>3, <3>1, <3>2
  <2> QED BY <1>5, <2>1, <2>3
<1>14. ASSUME ReadGap PROVE Covered'
  <2>1. /\ wire # <<>> /\ wire' = Tail(wire) /\ Head(wire).kind = "gap"
        /\ UNCHANGED <<log, since, box, conn, current, st>>
    BY <1>14 DEF ReadGap
  <2>2. ASSUME NEW k \in Ids, Ahead(k) PROVE Ahead(k)'
    <3>1. st'.last_id < k /\ \A j \in DOMAIN current' : current'[j].id < k
      BY <2>1, <2>2 DEF Ahead
    <3>2. \/ k \in IdsOf(wire') \cup IdsOf(box'.queue)
          \/ conn' = FALSE /\ \A i \in IdsOf(wire') : i < k
      BY <1>9, <2>1, <2>2
    <3> QED BY <1>3, <3>1, <3>2
  <2> QED BY <1>5, <2>1, <2>2
<1>15. ASSUME ReadMessage PROVE Covered'
  <2> DEFINE e == Head(wire)
  <2>1. /\ pc = "reading" /\ wire # <<>> /\ wire' = Tail(wire) /\ e.kind = "message"
        /\ UNCHANGED <<log, since, box, conn>>
        /\ \/ Seen(e.msg) /\ st' = [st EXCEPT !.last_id = e.id] /\ current' = current
           \/ /\ ~Seen(e.msg) /\ st' = [st EXCEPT !.journal = Marked(e.msg)]
              /\ current' = <<e>>
    BY <1>15 DEF ReadMessage
  <2>2. e.id \in Ids /\ e.msg = log[e.id] /\ e.msg \in Msgs
    <3>1. Matches(e)
      BY <2>1, TailFacts DEF InOrder, Matching, Types
    <3>2. e.id \in Ids /\ e.msg = log[e.id]
      BY <2>1, <3>1 DEF Matches
    <3> QED BY <3>2, LogGrows
  <2>3. current = <<>>
    BY <2>1 DEF Agree
  <2>4. \E j \in DOMAIN st'.journal : st'.journal[j] = e.msg
    <3>1. CASE Seen(e.msg)
      BY <1>2, <2>1, <3>1 DEF Seen
    <3>2. CASE ~Seen(e.msg)
      <4>1. st'.journal = Marked(e.msg)
        BY <1>2, <2>1, <3>2
      <4>2. \E k \in DOMAIN Marked(e.msg) : Marked(e.msg)[k] = e.msg
        BY <2>2, <3>2, JournalRoom
      <4> QED BY <4>1, <4>2
    <3> QED BY <3>1, <3>2
  <2>5. ASSUME NEW k \in Ids, Ahead(k), ~Done(k)' PROVE Ahead(k)'
    <3>1. k # e.id
      <4>1. ~\E j \in DOMAIN st'.journal : st'.journal[j] = log'[k]
        BY <2>5 DEF Done, Seen
      <4> QED BY <2>1, <2>2, <2>4, <4>1
    <3>2. e.id < k /\ \/ k \in IdsOf(wire') \cup IdsOf(box'.queue)
                      \/ conn' = FALSE /\ \A i \in IdsOf(wire') : i < k
      BY <1>9, <2>1, <2>5, <3>1
    <3> HIDE DEF e
    <3>3. st'.last_id \in {st.last_id, e.id} /\ current' \in {<<>>, <<e>>}
      BY <1>2, <2>1, <2>3
    <3>4. st'.last_id < k /\ \A j \in DOMAIN current' : current'[j].id < k
      BY <2>5, <3>2, <3>3 DEF Ahead
    <3> QED BY <1>3, <3>2, <3>4
  <2> QED BY <1>5, <2>1, <2>5
<1>16. ASSUME Advance PROVE Covered'
  <2>1. /\ UNCHANGED <<log, since, wire, box, conn>> /\ pc = "fired" /\ current' = <<>>
        /\ st' = [st EXCEPT !.last_id = current[1].id]
    BY <1>16 DEF Advance
  <2>2. st'.last_id = current[1].id /\ 1 \in DOMAIN current
    BY <1>2, <2>1, CurrentIs
  <2>3. ASSUME NEW k \in Ids, Ahead(k) PROVE Ahead(k)'
    BY <1>3, <2>1, <2>2, <2>3 DEF Ahead
  <2> QED BY <1>5, <2>1, <2>3
<1>17. ASSUME Break \/ ServerRestart PROVE Covered'
  <2>1. /\ UNCHANGED <<log, since, current, st>> /\ wire' \in {wire, <<>>} /\ conn' = FALSE
    BY <1>17 DEF Break, ServerRestart, Disconnect
  <2> QED BY <1>8, <2>1
<1>18. ASSUME Server, ~\E m \in Msgs : Publish(m), ~(Break \/ ServerRestart) PROVE Covered'
  <2>1. UNCHANGED <<log, since, wire, box, conn, current, st>>
    BY <1>18 DEF Server, Delete, OtherSubscriber
  <2> QED BY <1>7, <2>1
<1>19. ASSUME Fire \/ FireAmbiguous \/ FireReset \/ Notice \/ UNCHANGED vars PROVE Covered'
  <2>1. UNCHANGED <<log, since, wire, box, conn, current, st>>
    BY <1>19 DEF Fire, FireAmbiguous, FireReset, Notice, vars
  <2> QED BY <1>7, <2>1
<1>20. ASSUME FireRaises \/ ClientCrash PROVE Covered'
  <2>1. UNCHANGED <<log, since, st>> /\ wire' = <<>> /\ conn' = FALSE /\ current' = <<>>
    BY <1>20 DEF FireRaises, ClientCrash, Hangup
  <2> QED BY <1>8, <2>1
<1> QED BY <1>10, <1>11, <1>12, <1>13, <1>14, <1>15, <1>16, <1>17, <1>18, <1>19, <1>20 DEF Next, Client

\* No step lets the cursor pass over a message that is neither done nor ahead.
LEMMA SessionsStep ==
    JournalHolds /\ Types /\ Agree /\ Once /\ Sessions /\ [Next]_vars => Sessions'
<1> SUFFICES ASSUME JournalHolds, Types, Agree, Once, Sessions, [Next]_vars PROVE Sessions'
  OBVIOUS
<1>1. cfg' = cfg
  <2> USE DEF serverVars
  <2>1. Server => cfg' = cfg
    BY DEF Server, Publish, Delete, OtherSubscriber, Break, ServerRestart
  <2>2. Client => cfg' = cfg
    BY DEF Client, Connect, ReadHello, ReadGap, ReadMessage, Fire, Advance, Notice
  <2>3. Write \/ FireAmbiguous \/ FireReset \/ FireRaises \/ ClientCrash \/ UNCHANGED vars => cfg' = cfg
    BY DEF Write, FireAmbiguous, FireReset, FireRaises, ClientCrash, vars
  <2> QED BY <2>1, <2>2, <2>3 DEF Next
<1>2. ASSUME cfg.store PROVE OneStream' /\ InOrder' /\ Covered'
  <2>1. OneStream /\ InOrder /\ Covered
    BY <1>2 DEF Sessions
  <2>2. Agree'
    BY TypesStep
  <2>3. OneStream'
    BY <1>2, <2>1, OneStreamStep
  <2>4. InOrder'
    BY <1>2, <2>1, <2>2, InOrderStep
  <2>5. Covered'
    BY <1>2, <2>1, CoveredStep
  <2> QED BY <2>3, <2>4, <2>5
<1> QED BY <1>1, <1>2 DEF Sessions

\* With a store the cursor passes over no message the client is owed, but for
\* those a full queue dropped (hub.py Subscriber.offer, subscribe; relay.py
\* _handle_event; state.py mark, advance, on_hello).
THEOREM NothingSkipped == JournalHolds /\ Spec => []CursorSkipsNothing
<1> SUFFICES ASSUME JournalHolds PROVE Spec => []CursorSkipsNothing
  OBVIOUS
<1>1. Types /\ Agree /\ Once /\ [Next]_vars => Once'
  BY OnceStep
<1>2. Types /\ Agree /\ Once /\ Sessions /\ [Next]_vars => Sessions'
  BY SessionsStep
<1>3. Types /\ Sessions => CursorSkipsNothing
  <2> SUFFICES ASSUME Types, Sessions, cfg.store, NEW k \in Ids, since <= k, k <= st.last_id
               PROVE  Done(k)
    BY DEF CursorSkipsNothing, Done
  <2>1. k \in Int /\ st.last_id \in Nat
    <3>1. Len(log) \in Nat
      BY SeqFacts DEF Types
    <3> QED BY <3>1 DEF Ids, Types
  <2>2. ~(st.last_id < k)
    BY <2>1
  <2> QED BY <2>2 DEF Sessions, Covered, Ahead
<1> QED BY <1>1, <1>2, <1>3, OnceInit, SessionsInit, Wellformed, PTL DEF Spec
=============================================================================
