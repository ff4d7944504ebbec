----------------------------- MODULE HubProofs -----------------------------
(***************************************************************************)
(* Theorems about Hub for any number of connections and any sizes.         *)
(***************************************************************************)
EXTENDS Hub, FiniteSetTheorems, FunctionTheorems, SequenceTheorems, TLAPS

USE HubAssumption

\* A full ring forgets its oldest entry and stays within its size.
LEMMA PushType ==
    ASSUME NEW S, NEW r \in Seq(S), Len(r) <= RingSize, NEW id \in S
    PROVE  Push(r, id) \in Seq(S) /\ Len(Push(r, id)) <= RingSize
<1> DEFINE longer == Append(r, id)
<1>1. longer \in Seq(S) /\ Len(longer) = Len(r) + 1
  BY AppendProperties
<1>2. CASE Len(longer) > RingSize
  <2>1. longer # <<>>
    BY <1>1, LenProperties, EmptySeq
  <2>2. Tail(longer) \in Seq(S) /\ Len(Tail(longer)) = Len(longer) - 1
    BY <1>1, <2>1, HeadTailProperties
  <2> QED BY <1>1, <1>2, <2>2, LenProperties DEF Push
<1>3. CASE ~(Len(longer) > RingSize)
  BY <1>1, <1>3, LenProperties DEF Push
<1> QED BY <1>2, <1>3

\* What a fresh queue holds after the replay is offered to it.
LEMMA EnqueuedType ==
    ASSUME NEW q \in Seq(Ids)
    PROVE  Enqueued(q) \in Seq(Event) /\ Len(Enqueued(q)) <= QueueMax
<1> DEFINE messages == [i \in DOMAIN q |-> Message(q[i])]
<1>1. Len(q) \in Nat /\ DOMAIN q = 1 .. Len(q) /\ \A i \in 1 .. Len(q) : q[i] \in Ids
  BY LenProperties, ElementOfSeq
<1>2. messages \in Seq(Event) /\ Len(messages) = Len(q)
  <2>1. \A i \in 1 .. Len(q) : Message(q[i]) \in Event
    BY <1>1 DEF Message, Event
  <2>2. messages \in [1 .. Len(q) -> Event]
    BY <1>1, <2>1
  <2> QED BY <1>1, <2>2, SeqDef, LenProperties
<1>3. CASE Len(q) <= QueueMax
  BY <1>2, <1>3 DEF Enqueued
<1>4. CASE ~(Len(q) <= QueueMax)
  <2> DEFINE kept == SubSeq(messages, 2, QueueMax)
  <2>1. kept \in Seq(Event)
    BY <1>1, <1>2, <1>4, SubSeqProperties
  <2>2. Len(kept) = QueueMax - 1
    BY <1>1, <1>2, <1>4, SubSeqProperties
  <2>3. Gap \in Event
    BY DEF Event
  <2>4. Append(kept, Gap) \in Seq(Event) /\ Len(Append(kept, Gap)) = QueueMax
    BY <2>1, <2>2, <2>3, AppendProperties
  <2> QED BY <1>4, <2>4 DEF Enqueued
<1> QED BY <1>3, <1>4

\* Only ids of this stream are ever replayed.
LEMMA ReplayType ==
    ASSUME TypeOK, NEW after \in Nat
    PROVE  Replay(after) \subseteq Ids
<1>1. Range(ring) \subseteq Ids
  BY LenProperties, ElementOfSeq DEF TypeOK, Range
<1>2. FromStore(after) \subseteq Ids
  BY DEF FromStore
<1> QED BY <1>1, <1>2 DEF Replay

\* Every ascending enumeration of a set of ids is a sequence of ids.
LEMMA AscendingType ==
    ASSUME next_id \in Nat, NEW S \in SUBSET Ids, NEW q \in Ascending(S)
    PROVE  q \in Seq(Ids)
<1>1. IsFiniteSet(S)
  <2>1. IsFiniteSet(1 .. next_id - 1)
    BY FS_Interval
  <2> QED BY <2>1, FS_Subset DEF Ids
<1>2. Cardinality(S) \in Nat
  BY <1>1, FS_CardinalityType
<1>3. q \in [1 .. Cardinality(S) -> Ids]
  BY DEF Ascending
<1> QED BY <1>2, <1>3, SeqDef

-----------------------------------------------------------------------------
\* Which events there are, and what their fields are.
LEMMA EventFacts ==
    /\ Gap \in Event /\ Health \in Event
    /\ \A e \in Event : e.kind = "message" => e = Message(e.id) /\ e.id \in Ids
    /\ \A id \in Ids : Message(id) \in Event
BY DEF Event, Gap, Health, Message

\* One element more at the end of one of the sequences of a function.
LEMMA AppendAt ==
    ASSUME NEW S, NEW f \in [Subs -> Seq(S)], NEW s \in Subs, NEW e \in S
    PROVE  /\ [f EXCEPT ![s] = Append(@, e)] \in [Subs -> Seq(S)]
           /\ Len(Append(f[s], e)) = Len(f[s]) + 1
BY AppendProperties

\* Types (TypeOK): every id the hub, a queue or a thread holds was assigned
\* by the current stream, and the ring and the queues respect their bounds.
THEOREM TypeInvariant == Spec => []TypeOK
<1>1. Init => TypeOK
  BY HubAssumption, EmptySeq, EventFacts DEF Init, TypeOK, PCs, Ids
<1>2. TypeOK /\ [Next]_vars => TypeOK'
  <2> SUFFICES ASSUME TypeOK, [Next]_vars PROVE TypeOK'
    OBVIOUS
  <2> USE HubAssumption
  <2>0. ASSUME next_id' = next_id PROVE Ids' = Ids /\ Event' = Event
    BY <2>0 DEF Ids, Event
  <2>1. CASE Publish
    <3>1. next_id \in Ids' /\ Ids \subseteq Ids'
      BY <2>1 DEF Publish, Ids, TypeOK
    <3>2. Event \subseteq Event' /\ event' \in Event'
      BY <2>1, <3>1 DEF Publish, Event, Message
    <3>3. ring' \in Seq(Ids') /\ Len(ring') <= RingSize
      <4>1. ring \in Seq(Ids') /\ Len(ring) <= RingSize
        BY <3>1, SeqMonotonic DEF TypeOK
      <4> QED BY <2>1, <3>1, <4>1, PushType DEF Publish
    <3>4. /\ queue' \in [Subs -> Seq(Event')] /\ hand' \in [Subs -> Seq(Event')]
          /\ got' \in [Subs -> Seq(Event')]
      <4>1. \A q \in Seq(Event) : q \in Seq(Event')
        BY <3>2, SeqMonotonic
      <4> QED BY <2>1, <4>1 DEF Publish, sessionVars, historyVars, TypeOK
    <3>5. delete_jobs' \in Seq(Ids')
      BY <2>1, <3>1, SeqMonotonic DEF Publish, TypeOK
    <3>6. pending' \in SUBSET Ids' /\ delivered' \in SUBSET Ids'
      BY <2>1, <3>1 DEF Publish, historyVars, TypeOK
    <3> QED BY <2>1, <3>2, <3>3, <3>4, <3>5, <3>6
            DEF Publish, sessionVars, historyVars, TypeOK
  <2>2. CASE Broadcast
    <3>1. Ids' = Ids /\ Event' = Event
      BY <2>0, <2>2 DEF Broadcast, hubVars
    <3> QED BY <2>2, <3>1, EventFacts
            DEF Broadcast, hubVars, sessionVars, historyVars, TypeOK
  <2>3. CASE Restart
    <3>1. next_id' \in Nat \ {0} /\ delivered' \in SUBSET Ids' /\ stream' \in Nat
      BY <2>3 DEF Restart, TypeOK, Ids
    <3>2. Health \in Event'
      BY DEF Event
    <3> QED BY <2>3, <3>1, <3>2, EmptySeq DEF Restart, TypeOK, PCs
  <2>4. ASSUME NEW s \in Subs, OfferPut(s) PROVE TypeOK'
    <3>1. Ids' = Ids /\ Event' = Event
      BY <2>0, <2>4 DEF OfferPut, hubVars
    <3>2. queue' \in [Subs -> Seq(Event)] /\ \A t \in Subs : Len(queue'[t]) <= QueueMax
      BY <2>4, AppendAt, LenProperties DEF OfferPut, Full, TypeOK
    <3> QED BY <2>4, <3>1, <3>2 DEF OfferPut, hubVars, historyVars, TypeOK
  <2>5. ASSUME NEW s \in Subs, OfferDiscard(s) PROVE TypeOK'
    <3>1. Ids' = Ids /\ Event' = Event
      BY <2>0, <2>5 DEF OfferDiscard, hubVars
    <3> QED BY <2>5, <3>1 DEF OfferDiscard, hubVars, sessionVars, historyVars, TypeOK
  <2>6. ASSUME NEW s \in Subs, OfferGap(s) PROVE TypeOK'
    <3>1. Ids' = Ids /\ Event' = Event
      BY <2>0, <2>6 DEF OfferGap, hubVars
    <3> QED BY <2>6, <3>1 DEF OfferGap, hubVars, historyVars, TypeOK
  <2>7. ASSUME NEW s \in Subs, OfferDrop(s) PROVE TypeOK'
    <3>1. Ids' = Ids /\ Event' = Event
      BY <2>0, <2>7 DEF OfferDrop, hubVars
    <3>2. queue' \in [Subs -> Seq(Event)] /\ \A t \in Subs : Len(queue'[t]) <= QueueMax
      <4>1. queue[s] # <<>> => /\ Tail(queue[s]) \in Seq(Event)
                               /\ Len(Tail(queue[s])) = Len(queue[s]) - 1
        BY HeadTailProperties DEF TypeOK
      <4>2. Len(queue[s]) \in Nat
        BY LenProperties DEF TypeOK
      <4> QED BY <2>7, <4>1, <4>2 DEF OfferDrop, TypeOK
    <3> QED BY <2>7, <3>1, <3>2 DEF OfferDrop, hubVars, historyVars, TypeOK
  <2>8. ASSUME NEW s \in Subs, OfferMark(s) PROVE TypeOK'
    <3>1. Ids' = Ids /\ Event' = Event
      BY <2>0, <2>8 DEF OfferMark, hubVars
    <3>2. queue' \in [Subs -> Seq(Event)] /\ \A t \in Subs : Len(queue'[t]) <= QueueMax
      BY <2>8, AppendAt, EventFacts, LenProperties DEF OfferMark, Full, TypeOK
    <3> QED BY <2>8, <3>1, <3>2 DEF OfferMark, hubVars, historyVars, TypeOK
  <2>9. ASSUME NEW s \in Subs, Admit(s) PROVE TypeOK'
    <3>1. Ids' = Ids /\ Event' = Event
      BY <2>0, <2>9 DEF Admit, hubVars
    <3> QED BY <2>9, <3>1
            DEF Admit, hubVars, workerVars, historyVars, TypeOK, PCs
  <2>10. ASSUME NEW s \in Subs, NEW str \in 0 .. stream, NEW after \in 0 .. MaxId,
                Subscribe(s, str, after)
         PROVE  TypeOK'
    <3> DEFINE valid == str = stream /\ after < next_id
               replay == pending \cup (IF valid THEN Replay(after) ELSE {})
    <3>1. Ids' = Ids /\ Event' = Event
      BY <2>0, <2>10 DEF Subscribe
    <3>2. replay \in SUBSET Ids
      BY ReplayType DEF TypeOK
    <3>3. queue' \in [Subs -> Seq(Event)] /\ \A t \in Subs : Len(queue'[t]) <= QueueMax
      <4>1. PICK q \in Ascending(replay) :
                queue' = [queue EXCEPT ![s] = Enqueued(q)]
        BY <2>10 DEF Subscribe
      <4>2. q \in Seq(Ids)
        BY <3>2, <4>1, AscendingType DEF TypeOK
      <4> QED BY <4>1, <4>2, EnqueuedType DEF TypeOK
    <3>4. gapped' \in [Subs -> BOOLEAN]
      BY <2>10 DEF Subscribe, TypeOK
    <3>5. base' \in [Subs -> Nat]
      <4>1. ring # <<>> => ring[1] \in Nat \ {0}
        BY EmptySeq, ElementOfSeq DEF TypeOK, Ids
      <4> QED BY <2>10, <4>1 DEF Subscribe, TypeOK
    <3>6. subs' \in SUBSET Subs /\ pc' \in [Subs -> PCs] /\ pc'[s] = "waiting"
      BY <2>10 DEF Subscribe, TypeOK, PCs
    <3>7. got' \in [Subs -> Seq(Event)]
      BY <2>10, EmptySeq DEF Subscribe, TypeOK
    <3>8. \A t \in Subs : Len(hand'[t]) = IF pc'[t] = "writing" THEN 1 ELSE 0
      BY <2>10 DEF Subscribe, TypeOK
    <3> QED BY <2>10, <3>1, <3>3, <3>4, <3>5, <3>6, <3>7, <3>8
            DEF Subscribe, workerVars, TypeOK
  <2>11. ASSUME NEW s \in Subs, Take(s) PROVE TypeOK'
    <3>1. Ids' = Ids /\ Event' = Event
      BY <2>0, <2>11 DEF Take, hubVars
    <3>2. /\ Head(queue[s]) \in Event /\ Tail(queue[s]) \in Seq(Event)
          /\ Len(Tail(queue[s])) = Len(queue[s]) - 1
      BY <2>11, HeadTailProperties DEF Take, TypeOK
    <3>3. Len(queue[s]) \in Nat
      BY LenProperties DEF TypeOK
    <3>4. queue' \in [Subs -> Seq(Event)] /\ \A t \in Subs : Len(queue'[t]) <= QueueMax
      BY <2>11, <3>2, <3>3 DEF Take, TypeOK
    <3>5. <<Head(queue[s])>> \in Seq(Event) /\ Len(<<Head(queue[s])>>) = 1
      BY <3>2
    <3> QED BY <2>11, <3>1, <3>4, <3>5
            DEF Take, hubVars, workerVars, historyVars, TypeOK, PCs
  <2>12. ASSUME NEW s \in Subs, WriteOk(s) PROVE TypeOK'
    <3>1. Ids' = Ids /\ Event' = Event
      BY <2>0, <2>12 DEF WriteOk, hubVars
    <3>2. hand[s][1] \in Event
      BY <2>12, ElementOfSeq DEF WriteOk, TypeOK
    <3>3. delivered' \in SUBSET Ids
      BY <2>12, <3>2, EventFacts DEF WriteOk, TypeOK
    <3>4. got' \in [Subs -> Seq(Event)]
      BY <2>12, <3>2, AppendAt DEF WriteOk, TypeOK
    <3>5. /\ hand' \in [Subs -> Seq(Event)] /\ pc' \in [Subs -> PCs]
          /\ \A t \in Subs : Len(hand'[t]) = IF pc'[t] = "writing" THEN 1 ELSE 0
      BY <2>12, EmptySeq DEF WriteOk, TypeOK, PCs
    <3> QED BY <2>12, <3>1, <3>3, <3>4, <3>5 DEF WriteOk, hubVars, workerVars, TypeOK
  <2>13. ASSUME NEW s \in Subs, Confirm(s) PROVE TypeOK'
    <3>1. Ids' = Ids /\ Event' = Event
      BY <2>0, <2>13 DEF Confirm
    <3>2. delete_jobs' \in Seq(Ids) /\ pending' \in SUBSET Ids
      BY <2>13, AppendProperties DEF Confirm, TypeOK
    <3> QED BY <2>13, <3>1, <3>2
            DEF Confirm, workerVars, historyVars, TypeOK, PCs
  <2>14. ASSUME NEW s \in Subs, ConnectionLost(s) PROVE TypeOK'
    <3>1. Ids' = Ids /\ Event' = Event
      BY <2>0, <2>14 DEF ConnectionLost, hubVars
    <3>2. /\ hand' \in [Subs -> Seq(Event)] /\ pc' \in [Subs -> PCs]
          /\ \A t \in Subs : Len(hand'[t]) = IF pc'[t] = "writing" THEN 1 ELSE 0
      BY <2>14, EmptySeq DEF ConnectionLost, TypeOK, PCs
    <3> QED BY <2>14, <3>1, <3>2
            DEF ConnectionLost, hubVars, workerVars, historyVars, TypeOK
  <2>15. ASSUME NEW s \in Subs, Unsubscribe(s) PROVE TypeOK'
    <3>1. Ids' = Ids /\ Event' = Event
      BY <2>0, <2>15 DEF Unsubscribe
    <3>2. /\ queue' \in [Subs -> Seq(Event)] /\ got' \in [Subs -> Seq(Event)]
          /\ \A t \in Subs : Len(queue'[t]) <= QueueMax
      <4>1. <<>> \in Seq(Event) /\ Len(<<>>) = 0 /\ QueueMax \in Nat
        BY EmptySeq
      <4> QED BY <2>15, <4>1 DEF Unsubscribe, TypeOK
    <3>3. /\ target' \in SUBSET todo' /\ todo' \in SUBSET subs'
          /\ (\A t, u \in target' : t = u)
          /\ (stage' = "offer" => target' = {})
          /\ stage' \in {"offer", "drop", "mark"}
      BY <2>15 DEF Unsubscribe, TypeOK
    <3>4. /\ pc' \in [Subs -> PCs]
          /\ \A t \in Subs : Len(hand'[t]) = IF pc'[t] = "writing" THEN 1 ELSE 0
      BY <2>15 DEF Unsubscribe, TypeOK, PCs
    <3> QED BY <2>15, <3>1, <3>2, <3>3, <3>4 DEF Unsubscribe, TypeOK
  <2>16. ASSUME NEW s \in Subs, Leave(s) PROVE TypeOK'
    <3>1. Ids' = Ids /\ Event' = Event
      BY <2>0, <2>16 DEF Leave, hubVars
    <3> QED BY <2>16, <3>1 DEF Leave, hubVars, workerVars, historyVars, TypeOK, PCs
  <2>17. CASE UNCHANGED vars
    <3>1. Ids' = Ids /\ Event' = Event
      BY <2>0, <2>17 DEF vars, hubVars
    <3> QED BY <2>17, <3>1
            DEF vars, hubVars, workerVars, sessionVars, historyVars, TypeOK
  <2> QED BY <2>1, <2>2, <2>3, <2>4, <2>5, <2>6, <2>7, <2>8, <2>9, <2>10, <2>11,
             <2>12, <2>13, <2>14, <2>15, <2>16, <2>17
          DEF Next, Offer, Connect, Handler
<1> QED BY <1>1, <1>2, PTL DEF Spec
-----------------------------------------------------------------------------
(* Release after delivery.  The invariant is inductive once it says what a *)
(* handler knows between the socket write and the confirmation.            *)

ConfirmingWasDelivered ==
    \A s \in Subs : pc[s] = "confirming" =>
        got[s] # <<>> /\ got[s][Len(got[s])].id \in delivered

ReleaseInv == /\ UndeliveredStaysPending
              /\ ReleaseOnceAfterDelivery
              /\ ConfirmingWasDelivered

\* The range of a sequence grows by the element appended.
LEMMA RangeAppend ==
    ASSUME NEW S, NEW q \in Seq(S), NEW e \in S
    PROVE  /\ Range(Append(q, e)) = Range(q) \cup {e}
           /\ DOMAIN Append(q, e) = 1 .. Len(q) + 1 /\ DOMAIN q = 1 .. Len(q)
           /\ Len(q) \in Nat
           /\ \A i \in 1 .. Len(q) : Append(q, e)[i] = q[i]
           /\ Append(q, e)[Len(q) + 1] = e
BY AppendProperties, LenProperties DEF Range

\* Steps that change none of the variables ReleaseInv speaks of, but maybe pc
\* between points other than "confirming" and got of such connections.
LEMMA ReleaseFrame ==
    ASSUME ReleaseInv, UNCHANGED <<next_id, pending, delete_jobs, delivered>>,
           \A s \in Subs : pc'[s] = "confirming" => pc[s] = "confirming" /\ got'[s] = got[s]
    PROVE  ReleaseInv'
BY DEF ReleaseInv, UndeliveredStaysPending, ReleaseOnceAfterDelivery,
       ConfirmingWasDelivered, Ids

\* The strengthened invariant holds of every reachable state.
LEMMA ReleaseInvariant == Spec => []ReleaseInv
<1>1. Init => ReleaseInv
  BY EmptySeq DEF Init, ReleaseInv, UndeliveredStaysPending, Ids, Range,
       ReleaseOnceAfterDelivery, ConfirmingWasDelivered
<1>2. TypeOK /\ TypeOK' /\ ReleaseInv /\ [Next]_vars => ReleaseInv'
  <2> SUFFICES ASSUME TypeOK, TypeOK', ReleaseInv, [Next]_vars PROVE ReleaseInv'
    OBVIOUS
  <2>1. CASE Publish
    <3>1. next_id \notin Ids /\ Ids' = Ids \cup {next_id} /\ Ids \subseteq Ids'
      <4>1. next_id \in Nat \ {0} /\ next_id' = next_id + 1
        BY <2>1 DEF Publish, TypeOK
      <4> QED BY <4>1 DEF Ids
    <3>2. Range(delete_jobs) \subseteq Ids
      BY LenProperties, ElementOfSeq DEF TypeOK, Range
    <3>3. UndeliveredStaysPending'
      BY <2>1, <3>1 DEF Publish, historyVars, ReleaseInv, UndeliveredStaysPending
    <3>4. ReleaseOnceAfterDelivery'
      BY <2>1, <3>1, <3>2 DEF Publish, historyVars, ReleaseInv, ReleaseOnceAfterDelivery
    <3>5. ConfirmingWasDelivered'
      BY <2>1 DEF Publish, historyVars, sessionVars, ReleaseInv, ConfirmingWasDelivered
    <3> QED BY <3>3, <3>4, <3>5 DEF ReleaseInv
  <2>2. CASE Restart
    <3>1. UndeliveredStaysPending'
      BY <2>2 DEF Restart, UndeliveredStaysPending, Ids
    <3>2. ReleaseOnceAfterDelivery' /\ ConfirmingWasDelivered'
      BY <2>2 DEF Restart, ReleaseOnceAfterDelivery, ConfirmingWasDelivered, Range
    <3> QED BY <3>1, <3>2 DEF ReleaseInv
  <2>3. ASSUME NEW s \in Subs, WriteOk(s) PROVE ReleaseInv'
    <3>1. delivered \subseteq delivered'
      BY <2>3 DEF WriteOk
    <3>2. UndeliveredStaysPending' /\ ReleaseOnceAfterDelivery'
      BY <2>3, <3>1 DEF WriteOk, hubVars, ReleaseInv, UndeliveredStaysPending,
                        ReleaseOnceAfterDelivery, Ids
    <3>3. ASSUME NEW t \in Subs, pc'[t] = "confirming"
          PROVE  got'[t] # <<>> /\ got'[t][Len(got'[t])].id \in delivered'
      <4>1. CASE t # s
        BY <2>3, <3>1, <3>3, <4>1
           DEF WriteOk, ReleaseInv, ConfirmingWasDelivered, TypeOK
      <4>2. CASE t = s
        <5>1. hand[s][1] \in Event
          BY <2>3, ElementOfSeq DEF WriteOk, TypeOK
        <5>2. hand[s][1].kind = "message" /\ hand[s][1].id \in delivered'
          BY <2>3, <3>3, <4>2 DEF WriteOk, TypeOK
        <5>3. got'[s] = Append(got[s], hand[s][1])
          BY <2>3, <5>2 DEF WriteOk, TypeOK
        <5>4. got[s] \in Seq(Event)
          BY DEF TypeOK
        <5>5. Len(got'[s]) = Len(got[s]) + 1 /\ got'[s][Len(got[s]) + 1] = hand[s][1]
          BY <5>1, <5>3, <5>4, AppendProperties
        <5>6. got'[s] # <<>>
          BY <5>4, <5>5, LenProperties, EmptySeq
        <5> QED BY <4>2, <5>2, <5>5, <5>6
      <4> QED BY <4>1, <4>2
    <3> QED BY <3>2, <3>3 DEF ReleaseInv, ConfirmingWasDelivered
  <2>4. ASSUME NEW s \in Subs, Confirm(s) PROVE ReleaseInv'
    <3> DEFINE id == got[s][Len(got[s])].id
    <3>1. id \in delivered
      BY <2>4 DEF Confirm, ReleaseInv, ConfirmingWasDelivered
    <3>2. /\ pending' = pending \ {id} /\ delivered' = delivered
          /\ Ids' = Ids /\ got' = got
      BY <2>4 DEF Confirm, historyVars, Ids
    <3>3. UndeliveredStaysPending'
      BY <3>1, <3>2 DEF ReleaseInv, UndeliveredStaysPending
    <3>4. ReleaseOnceAfterDelivery'
      <4>1. CASE id \notin pending
        <5>1. delete_jobs' = delete_jobs
          BY <2>4, <4>1 DEF Confirm
        <5> QED BY <3>2, <5>1 DEF ReleaseInv, ReleaseOnceAfterDelivery
      <4>2. CASE id \in pending
        <5>1. delete_jobs' = Append(delete_jobs, id)
          BY <2>4, <4>2 DEF Confirm
        <5>2. id \in Ids /\ delete_jobs \in Seq(Ids)
          BY <4>2 DEF TypeOK
        <5>3. /\ Range(delete_jobs') = Range(delete_jobs) \cup {id}
              /\ DOMAIN delete_jobs' = 1 .. Len(delete_jobs) + 1
              /\ DOMAIN delete_jobs = 1 .. Len(delete_jobs)
              /\ Len(delete_jobs) \in Nat
              /\ \A i \in 1 .. Len(delete_jobs) : delete_jobs'[i] = delete_jobs[i]
              /\ delete_jobs'[Len(delete_jobs) + 1] = id
          BY <5>1, <5>2, RangeAppend
        <5>4. \A i \in DOMAIN delete_jobs : delete_jobs[i] # id
          BY <4>2 DEF ReleaseInv, ReleaseOnceAfterDelivery, Range
        <5>5. \A i, j \in DOMAIN delete_jobs' :
                  delete_jobs'[i] = delete_jobs'[j] => i = j
          BY <5>3, <5>4 DEF ReleaseInv, ReleaseOnceAfterDelivery
        <5>6. Range(delete_jobs') \subseteq delivered' \ pending'
          BY <3>1, <3>2, <5>3 DEF ReleaseInv, ReleaseOnceAfterDelivery
        <5> QED BY <5>5, <5>6 DEF ReleaseOnceAfterDelivery
      <4> QED BY <4>1, <4>2
    <3>5. ConfirmingWasDelivered'
      BY <2>4, <3>2 DEF Confirm, ReleaseInv, ConfirmingWasDelivered, TypeOK
    <3> QED BY <3>3, <3>4, <3>5 DEF ReleaseInv
  <2>5. CASE Broadcast
    BY <2>5, ReleaseFrame DEF Broadcast, hubVars, sessionVars, historyVars
  <2>6. ASSUME NEW s \in Subs, Offer(s) PROVE ReleaseInv'
    BY <2>6, ReleaseFrame DEF Offer, OfferPut, OfferDiscard, OfferGap, OfferDrop,
       OfferMark, hubVars, sessionVars, historyVars
  <2>7. ASSUME NEW s \in Subs, Admit(s) \/ Connect(s) \/ Take(s) PROVE ReleaseInv'
    <3>1. UNCHANGED <<next_id, pending, delete_jobs, delivered>>
      BY <2>7 DEF Admit, Connect, Subscribe, Take, hubVars, historyVars
    <3>2. ASSUME NEW t \in Subs, pc'[t] = "confirming"
          PROVE  pc[t] = "confirming" /\ got'[t] = got[t]
      <4>1. CASE Admit(s)
        BY <3>2, <4>1 DEF Admit, historyVars, TypeOK
      <4>2. CASE Connect(s)
        BY <3>2, <4>2 DEF Connect, Subscribe, TypeOK
      <4>3. CASE Take(s)
        BY <3>2, <4>3 DEF Take, historyVars, TypeOK
      <4> QED BY <2>7, <4>1, <4>2, <4>3
    <3> QED BY <3>1, <3>2, ReleaseFrame
  <2>8. ASSUME NEW s \in Subs, ConnectionLost(s) \/ Unsubscribe(s) \/ Leave(s)
        PROVE  ReleaseInv'
    <3>1. UNCHANGED <<next_id, pending, delete_jobs, delivered>>
      BY <2>8 DEF ConnectionLost, Unsubscribe, Leave, hubVars, historyVars
    <3>2. ASSUME NEW t \in Subs, pc'[t] = "confirming"
          PROVE  pc[t] = "confirming" /\ got'[t] = got[t]
      <4>1. CASE ConnectionLost(s)
        BY <3>2, <4>1 DEF ConnectionLost, historyVars, TypeOK
      <4>2. CASE Unsubscribe(s)
        BY <3>2, <4>2 DEF Unsubscribe, TypeOK
      <4>3. CASE Leave(s)
        BY <3>2, <4>3 DEF Leave, historyVars, TypeOK
      <4> QED BY <2>8, <4>1, <4>2, <4>3
    <3> QED BY <3>1, <3>2, ReleaseFrame
  <2>9. CASE UNCHANGED vars
    BY <2>9, ReleaseFrame DEF vars, hubVars, sessionVars, historyVars
  <2> QED BY <2>1, <2>2, <2>3, <2>4, <2>5, <2>6, <2>7, <2>8, <2>9 DEF Next, Handler
<1> QED BY <1>1, <1>2, TypeInvariant, PTL DEF Spec

\* A message no subscriber was sent stays pending, and the SIM delete hook
\* runs at most once per message and only after a subscriber was sent it.
THEOREM ReleaseSafety ==
    Spec => [](UndeliveredStaysPending /\ ReleaseOnceAfterDelivery)
<1>1. ReleaseInv => UndeliveredStaysPending /\ ReleaseOnceAfterDelivery
  BY DEF ReleaseInv
<1> QED BY <1>1, ReleaseInvariant, PTL
-----------------------------------------------------------------------------
(* Admission.                                                              *)

\* The handlers that are counted are finitely many.
LEMMA AdmittedFinite ==
    /\ IsFiniteSet(Admitted) /\ Cardinality(Admitted) \in Nat
    /\ \A s \in Subs : /\ Cardinality(Admitted \cup {s}) =
                             Cardinality(Admitted) + (IF s \in Admitted THEN 0 ELSE 1)
                       /\ Cardinality(Admitted \ {s}) =
                             Cardinality(Admitted) - (IF s \in Admitted THEN 1 ELSE 0)
<1>1. IsFiniteSet(Admitted)
  BY HubAssumption, FS_Subset DEF Admitted
<1> QED BY <1>1, FS_CardinalityType, FS_AddElement, FS_RemoveElement

\* A step that moves no handler into or out of the counted section.
LEMMA AdmissionFrame ==
    ASSUME TypeOK, AdmissionAccounting, UNCHANGED <<subscriber_count, subs>>,
           \A s \in Subs : \/ pc'[s] = pc[s]
                           \/ /\ pc[s] \in {"waiting", "writing", "confirming"}
                              /\ pc'[s] \in {"waiting", "writing", "confirming", "closing"}
    PROVE  AdmissionAccounting'
<1>1. Admitted' = Admitted
  BY DEF Admitted
<1>2. subs' = {s \in Subs : Active(s)' \/ pc'[s] = "closing"}
  BY DEF AdmissionAccounting, Active
<1> QED BY <1>1, <1>2 DEF AdmissionAccounting

\* The subscriber count is exact, within the limit, and the registered
\* Subscribers are those of the handlers between subscribe and unsubscribe.
THEOREM Admission == Spec => []AdmissionAccounting
<1>1. Init => AdmissionAccounting
  <2> SUFFICES ASSUME Init PROVE AdmissionAccounting
    OBVIOUS
  <2>1. Admitted = {} /\ \A s \in Subs : ~Active(s) /\ pc[s] # "closing"
    BY DEF Init, Admitted, Active
  <2> QED BY <2>1, HubAssumption, FS_EmptySet DEF Init, AdmissionAccounting
<1>2. TypeOK /\ AdmissionAccounting /\ [Next]_vars => AdmissionAccounting'
  <2> SUFFICES ASSUME TypeOK, AdmissionAccounting, [Next]_vars
               PROVE  AdmissionAccounting'
    OBVIOUS
  <2>1. ASSUME NEW s \in Subs, Admit(s) PROVE AdmissionAccounting'
    <3>1. Admitted' = Admitted \cup {s} /\ s \notin Admitted
      BY <2>1 DEF Admit, Admitted, TypeOK
    <3>2. Cardinality(Admitted') = Cardinality(Admitted) + 1
      BY <3>1, AdmittedFinite
    <3>3. subs' = {t \in Subs : Active(t)' \/ pc'[t] = "closing"}
      BY <2>1 DEF Admit, hubVars, AdmissionAccounting, Active, TypeOK
    <3> QED BY <2>1, <3>2, <3>3, HubAssumption, AdmittedFinite
            DEF Admit, AdmissionAccounting
  <2>2. ASSUME NEW s \in Subs, Connect(s) PROVE AdmissionAccounting'
    <3>1. /\ pc[s] = "admitted" /\ pc' = [pc EXCEPT ![s] = "waiting"]
          /\ subs' = subs \cup {s} /\ subscriber_count' = subscriber_count
      BY <2>2 DEF Connect, Subscribe
    <3>2. Admitted' = Admitted
      BY <3>1 DEF Admitted, TypeOK
    <3>3. subs' = {t \in Subs : Active(t)' \/ pc'[t] = "closing"}
      BY <3>1 DEF AdmissionAccounting, Active, TypeOK
    <3> QED BY <3>1, <3>2, <3>3 DEF AdmissionAccounting
  <2>3. ASSUME NEW s \in Subs, Unsubscribe(s) PROVE AdmissionAccounting'
    <3>1. /\ pc[s] = "closing" /\ pc' = [pc EXCEPT ![s] = "leaving"]
          /\ subs' = subs \ {s} /\ subscriber_count' = subscriber_count
      BY <2>3 DEF Unsubscribe
    <3>2. Admitted' = Admitted
      BY <3>1 DEF Admitted, TypeOK
    <3>3. subs' = {t \in Subs : Active(t)' \/ pc'[t] = "closing"}
      BY <3>1 DEF AdmissionAccounting, Active, TypeOK
    <3> QED BY <3>1, <3>2, <3>3 DEF AdmissionAccounting
  <2>4. ASSUME NEW s \in Subs, Leave(s) PROVE AdmissionAccounting'
    <3>1. Admitted' = Admitted \ {s} /\ s \in Admitted
      BY <2>4 DEF Leave, Admitted, TypeOK
    <3>2. Cardinality(Admitted') = Cardinality(Admitted) - 1
      BY <3>1, AdmittedFinite
    <3>3. subs' = {t \in Subs : Active(t)' \/ pc'[t] = "closing"}
      BY <2>4 DEF Leave, hubVars, AdmissionAccounting, Active, TypeOK
    <3> QED BY <2>4, <3>2, <3>3, HubAssumption, AdmittedFinite
            DEF Leave, AdmissionAccounting
  <2>5. CASE Restart
    <3>1. Admitted' = {} /\ \A s \in Subs : ~Active(s)' /\ pc'[s] # "closing"
      BY <2>5 DEF Restart, Admitted, Active
    <3> QED BY <2>5, <3>1, HubAssumption, FS_EmptySet
            DEF Restart, AdmissionAccounting
  <2>6. CASE Publish \/ Broadcast
    BY <2>6, AdmissionFrame DEF Publish, Broadcast, hubVars, sessionVars
  <2>7. ASSUME NEW s \in Subs, Offer(s) PROVE AdmissionAccounting'
    BY <2>7, AdmissionFrame DEF Offer, OfferPut, OfferDiscard, OfferGap,
       OfferDrop, OfferMark, hubVars, sessionVars
  <2>8. ASSUME NEW s \in Subs, Take(s) \/ ConnectionLost(s) PROVE AdmissionAccounting'
    BY <2>8, AdmissionFrame DEF Take, ConnectionLost, hubVars, TypeOK
  <2>9. ASSUME NEW s \in Subs, WriteOk(s) \/ Confirm(s) PROVE AdmissionAccounting'
    BY <2>9, AdmissionFrame DEF WriteOk, Confirm, hubVars, TypeOK
  <2>10. CASE UNCHANGED vars
    BY <2>10, AdmissionFrame DEF vars, hubVars, sessionVars
  <2> QED BY <2>1, <2>2, <2>3, <2>4, <2>5, <2>6, <2>7, <2>8, <2>9, <2>10
          DEF Next, Handler
<1> QED BY <1>1, <1>2, TypeInvariant, PTL DEF Spec
-----------------------------------------------------------------------------
(* The delivery contract.                                                  *)

\* What the contract sees of a step.
LEMMA ContractStutter ==
    ASSUME UNCHANGED <<next_id, pending, delivered, delete_jobs>>
    PROVE  UNCHANGED Contract!vars
BY DEF Contract!vars, Ids

\* Without a store, the hub implements DeliveryContract: SIM slots are
\* released only for a delivered message and once, whatever the handler
\* threads, overflows, lost connections and restarts do.
THEOREM ImplementsContract == ~Store /\ Spec => ContractSpec
<1> SUFFICES ASSUME ~Store PROVE Spec => ContractSpec
  OBVIOUS
<1>1. Init => Contract!Init
  BY DEF Init, Contract!Init, Ids
<1>2. TypeOK /\ ReleaseInv /\ [Next]_vars => [Contract!Next]_(Contract!vars)
  <2> SUFFICES ASSUME TypeOK, ReleaseInv, [Next]_vars
               PROVE  Contract!Next \/ UNCHANGED Contract!vars
    OBVIOUS
  <2>1. CASE Publish
    <3>1. next_id \in 1 .. MaxId /\ next_id \notin Ids /\ Ids' = Ids \cup {next_id}
      <4>1. next_id \in Nat \ {0} /\ next_id' = next_id + 1 /\ next_id <= MaxId
        BY <2>1 DEF Publish, TypeOK
      <4> QED BY <4>1, HubAssumption DEF Ids
    <3>2. Contract!Publish(next_id)
      BY <2>1, <3>1 DEF Publish, historyVars, Contract!Publish
    <3> QED BY <3>1, <3>2 DEF Contract!Next
  <2>2. CASE Restart
    <3>1. Contract!Restart
      BY <2>2 DEF Restart, Contract!Restart, Ids
    <3> QED BY <3>1 DEF Contract!Next
  <2>3. ASSUME NEW s \in Subs, WriteOk(s)
        PROVE  Contract!Next \/ UNCHANGED Contract!vars
    <3> DEFINE e == hand[s][1]
    <3>1. e \in Event
      BY <2>3, ElementOfSeq DEF WriteOk, TypeOK
    <3>2. CASE e.kind = "message"
      <4>1. e.id \in Ids
        BY <3>1, <3>2, EventFacts
      <4>2. Contract!Deliver(e.id)
        BY <2>3, <3>2, <4>1 DEF WriteOk, hubVars, Contract!Deliver, Ids
      <4> QED BY <4>1, <4>2 DEF Contract!Next
    <3>3. CASE e.kind # "message"
      BY <2>3, <3>3, ContractStutter DEF WriteOk, hubVars
    <3> QED BY <3>2, <3>3
  <2>4. ASSUME NEW s \in Subs, Confirm(s)
        PROVE  Contract!Next \/ UNCHANGED Contract!vars
    <3> DEFINE id == got[s][Len(got[s])].id
    <3>1. /\ delivered' = delivered /\ next_id' = next_id /\ Ids' = Ids
          /\ pending' = pending \ {id}
          /\ delete_jobs' = IF id \in pending THEN Append(delete_jobs, id)
                            ELSE delete_jobs
      BY <2>4 DEF Confirm, historyVars, Ids
    <3>2. CASE id \notin pending
      <4>1. pending' = pending
        BY <3>1, <3>2
      <4> QED BY <3>1, <3>2, <4>1, ContractStutter
    <3>3. CASE id \in pending
      <4>1. id \in delivered /\ id \in Ids
        BY <2>4, <3>3 DEF Confirm, ReleaseInv, ConfirmingWasDelivered, TypeOK
      <4>2. Contract!Release(id)
        BY <3>1, <3>3, <4>1 DEF Contract!Release
      <4> QED BY <4>1, <4>2 DEF Contract!Next
    <3> QED BY <3>2, <3>3
  <2>5. ASSUME NEW s \in Subs, Offer(s) PROVE UNCHANGED Contract!vars
    BY <2>5, ContractStutter DEF Offer, OfferPut, OfferDiscard, OfferGap,
       OfferDrop, OfferMark, hubVars, historyVars
  <2>6. ASSUME NEW s \in Subs,
               Admit(s) \/ Connect(s) \/ Take(s) \/ ConnectionLost(s)
               \/ Unsubscribe(s) \/ Leave(s)
        PROVE  UNCHANGED Contract!vars
    BY <2>6, ContractStutter DEF Admit, Connect, Subscribe, Take, ConnectionLost,
       Unsubscribe, Leave, hubVars, historyVars
  <2>7. CASE Broadcast \/ UNCHANGED vars
    BY <2>7, ContractStutter DEF Broadcast, vars, hubVars, historyVars
  <2> QED BY <2>1, <2>2, <2>3, <2>4, <2>5, <2>6, <2>7 DEF Next, Handler
<1>3. Spec => []ReleaseInv
  BY ReleaseInvariant
<1> QED BY <1>1, <1>2, <1>3, TypeInvariant, PTL DEF Spec, ContractSpec, Contract!Spec
-----------------------------------------------------------------------------
(***************************************************************************)
(* What a subscriber session gets: it is in order, and nothing is missing  *)
(* without a gap marker.                                                   *)
(*                                                                         *)
(* A message travels from the worker's event to the session's queue, from  *)
(* there to the handler's hand and to the socket.  The invariant says, at  *)
(* every point of the fan-out, that these four places hold ascending ids   *)
(* (Ordered, Earlier) and, unless the queue overflowed, together hold      *)
(* every id after the base of the session.                                 *)
(***************************************************************************)

\* A stream with a store has no more messages than one replay returns
\* (store.py MAX_REPLAY); a longer one is replayed in part only.
WithinReplay == Store => MaxReplay >= MaxId

\* The messages of a sequence have ascending ids.
Ordered(q) == \A i, j \in DOMAIN q :
    i < j /\ q[i].kind = "message" /\ q[j].kind = "message" => q[i].id < q[j].id
\* Every message of A is older than every message of B.
Earlier(A, B) == \A x \in A, y \in B :
    x.kind = "message" /\ y.kind = "message" => x.id < y.id

\* The event the worker has still to offer to s (hub.py publish, the fan-out
\* after the lock is released), and what s was sent, is sending and has queued.
Offered(s) == IF s \in todo /\ s \notin target THEN {event} ELSE {}
Kept(s) == Range(got[s]) \cup Range(hand[s]) \cup Range(queue[s])
\* A session's events are ascending within and across the places they are in.
InOrder(s) ==
    /\ Ordered(got[s]) /\ Ordered(queue[s])
    /\ Earlier(Range(got[s]), Range(hand[s])) /\ Earlier(Range(got[s]), Range(queue[s]))
    /\ Earlier(Range(hand[s]), Range(queue[s]))
    /\ Earlier(Kept(s), Offered(s))
\* A session whose queue did not overflow has every id after its base; one
\* whose queue did has a gap marker, or the worker is about to queue it.
NoHoles(s) ==
    /\ WithinReplay /\ ~gapped[s] =>
         \A id \in Ids : id > base[s] => Message(id) \in Kept(s) \cup Offered(s)
    /\ gapped[s] => s \in target \/ Gap \in Kept(s)
\* What holds of a session between subscribe and unsubscribe.
Flow(s) == Active(s) => InOrder(s) /\ NoHoles(s)

\* The ring holds the newest ids without a hole, and is empty in a new stream
\* only; once Subscriber.offer dropped an item the queue has room for the gap
\* marker, since only the worker puts anything in it.
Publishing ==
    /\ next_id <= MaxId + 1
    /\ \A k \in DOMAIN ring : ring[k] = next_id - 1 - Len(ring) + k
    /\ ~Store /\ ring = <<>> => next_id = 1
    /\ \A s \in target : gapped[s] /\ (stage = "mark" => ~Full(s))

-----------------------------------------------------------------------------
\* The elements of a sequence over S are in S; the empty one has none.
LEMMA RangeType ==
    ASSUME NEW S, NEW q \in Seq(S)
    PROVE  Range(q) \subseteq S /\ (q = <<>> => Range(q) = {})
BY LenProperties, ElementOfSeq DEF Range

\* Taking the head of an ordered queue leaves newer messages in order.
LEMMA TailOrdered ==
    ASSUME NEW q \in Seq(Event), q # <<>>
    PROVE  /\ Head(q) \in Event /\ Tail(q) \in Seq(Event)
           /\ Range(q) = {Head(q)} \cup Range(Tail(q))
           /\ Range(<<Head(q)>>) = {Head(q)}
           /\ Ordered(q) => Ordered(Tail(q)) /\ Earlier({Head(q)}, Range(Tail(q)))
<1>1. /\ Len(q) \in Nat \ {0} /\ DOMAIN q = 1 .. Len(q) /\ Head(q) = q[1]
      /\ Head(q) \in Event /\ Tail(q) \in Seq(Event) /\ DOMAIN Tail(q) = 1 .. Len(q) - 1
      /\ \A i \in 1 .. Len(q) - 1 : Tail(q)[i] = q[i + 1]
  BY LenProperties, HeadTailProperties, EmptySeq
<1>2. Range(q) = {Head(q)} \cup Range(Tail(q))
  <2>1. \A i \in 1 .. Len(q) : i = 1 \/ (i - 1 \in 1 .. Len(q) - 1 /\ q[i] = Tail(q)[i - 1])
    BY <1>1
  <2>2. \A i \in 1 .. Len(q) - 1 : i + 1 \in 1 .. Len(q)
    BY <1>1
  <2>3. ASSUME NEW i \in 1 .. Len(q)
        PROVE  q[i] = Head(q) \/ \E j \in 1 .. Len(q) - 1 : q[i] = Tail(q)[j]
    BY <1>1, <2>1
  <2>4. Range(q) = {q[i] : i \in 1 .. Len(q)} /\ 1 \in 1 .. Len(q)
        /\ Range(Tail(q)) = {Tail(q)[i] : i \in 1 .. Len(q) - 1}
    <3>1. \A k \in Nat \ {0} : 1 \in 1 .. k
      OBVIOUS
    <3>2. Range(q) = {q[i] : i \in 1 .. Len(q)}
      BY <1>1 DEF Range
    <3>3. Range(Tail(q)) = {Tail(q)[i] : i \in 1 .. Len(q) - 1}
      BY <1>1 DEF Range
    <3> QED BY <1>1, <3>1, <3>2, <3>3
  <2>5. Range(q) \subseteq {Head(q)} \cup Range(Tail(q))
    BY <2>3, <2>4
  <2>6. {Head(q)} \cup Range(Tail(q)) \subseteq Range(q)
    BY <1>1, <2>2, <2>4
  <2> QED BY <2>5, <2>6
<1>3. Ordered(q) => Ordered(Tail(q)) /\ Earlier({Head(q)}, Range(Tail(q)))
  BY <1>1 DEF Ordered, Earlier, Range
<1>4. Range(<<Head(q)>>) = {Head(q)}
  BY DEF Range
<1> QED BY <1>1, <1>2, <1>3, <1>4

\* A queue stays ordered when a newer event is appended.
LEMMA AppendOrdered ==
    ASSUME NEW q \in Seq(Event), NEW e \in Event, Ordered(q), Earlier(Range(q), {e})
    PROVE  Ordered(Append(q, e)) /\ Range(Append(q, e)) = Range(q) \cup {e}
<1>1. /\ Range(Append(q, e)) = Range(q) \cup {e} /\ Len(q) \in Nat
      /\ DOMAIN Append(q, e) = 1 .. Len(q) + 1 /\ DOMAIN q = 1 .. Len(q)
      /\ \A i \in 1 .. Len(q) : Append(q, e)[i] = q[i]
      /\ Append(q, e)[Len(q) + 1] = e
  BY RangeAppend
<1>2. \A i \in 1 .. Len(q) : q[i] \in Range(q)
  BY <1>1 DEF Range
<1> QED BY <1>1, <1>2 DEF Ordered, Earlier

\* Two ordered sequences, one earlier than the other, are ordered end to end.
LEMMA ConcatOrdered ==
    ASSUME NEW a \in Seq(Event), NEW b \in Seq(Event)
    PROVE  /\ a \o b \in Seq(Event) /\ Range(a \o b) = Range(a) \cup Range(b)
           /\ Ordered(a) /\ Ordered(b) /\ Earlier(Range(a), Range(b)) => Ordered(a \o b)
<1> DEFINE n == Len(a)
           m == Len(b)
           c == a \o b
<1>1. /\ n \in Nat /\ m \in Nat /\ DOMAIN a = 1 .. n /\ DOMAIN b = 1 .. m
      /\ c \in Seq(Event) /\ DOMAIN c = 1 .. n + m
      /\ \A i \in 1 .. n + m : c[i] = IF i <= n THEN a[i] ELSE b[i - n]
  BY LenProperties, ConcatProperties
<1> HIDE DEF n, m, c
<1>2. \A i \in 1 .. n : i \in 1 .. n + m /\ c[i] = a[i]
  BY <1>1
<1>3. \A i \in 1 .. m : i + n \in 1 .. n + m /\ c[i + n] = b[i]
  BY <1>1
<1>4. \A i \in 1 .. n + m : \/ i \in 1 .. n /\ c[i] = a[i]
                            \/ i - n \in 1 .. m /\ c[i] = b[i - n] /\ i > n
  BY <1>1
<1>5. Range(c) = Range(a) \cup Range(b)
  <2>1. /\ Range(a) = {a[i] : i \in 1 .. n} /\ Range(b) = {b[i] : i \in 1 .. m}
        /\ Range(c) = {c[i] : i \in 1 .. n + m}
    BY <1>1 DEF Range
  <2>2. Range(a) \subseteq Range(c)
    BY <1>2, <2>1
  <2>3. Range(b) \subseteq Range(c)
    BY <1>3, <2>1
  <2>4. Range(c) \subseteq Range(a) \cup Range(b)
    BY <1>4, <2>1
  <2> QED BY <2>2, <2>3, <2>4
<1>6. ASSUME Ordered(a), Ordered(b), Earlier(Range(a), Range(b)),
             NEW i \in 1 .. n + m, NEW j \in 1 .. n + m, i < j,
             c[i].kind = "message", c[j].kind = "message"
      PROVE  c[i].id < c[j].id
  <2>1. CASE j \in 1 .. n /\ c[j] = a[j]
    <3>1. i \in 1 .. n /\ c[i] = a[i]
      BY <1>1, <1>2, <1>6, <2>1
    <3> QED BY <1>1, <1>6, <2>1, <3>1 DEF Ordered
  <2>2. CASE j - n \in 1 .. m /\ c[j] = b[j - n] /\ j > n
    <3>1. CASE i \in 1 .. n /\ c[i] = a[i]
      BY <1>1, <1>6, <2>2, <3>1 DEF Earlier, Range
    <3>2. CASE i - n \in 1 .. m /\ c[i] = b[i - n] /\ i > n
      <4>1. i - n < j - n
        BY <1>1, <1>6
      <4> QED BY <1>1, <1>6, <2>2, <3>2, <4>1 DEF Ordered
    <3> QED BY <1>4, <3>1, <3>2
  <2> QED BY <1>4, <2>1, <2>2
<1>7. Ordered(a) /\ Ordered(b) /\ Earlier(Range(a), Range(b)) => Ordered(c)
  BY <1>1, <1>6 DEF Ordered
<1> QED BY <1>1, <1>5, <1>7 DEF c

\* Sequel(s) is the four places end to end.
LEMMA SequelIs ==
    ASSUME TypeOK, NEW s \in Subs
    PROVE  /\ Sequel(s) \in Seq(Event)
           /\ Range(Sequel(s)) = Kept(s) \cup Offered(s)
           /\ InOrder(s) => Ordered(Sequel(s))
<1> DEFINE g == got[s]
           h == hand[s]
           q == queue[s]
           e == IF s \in todo /\ s \notin target THEN <<event>> ELSE <<>>
<1>1. g \in Seq(Event) /\ h \in Seq(Event) /\ q \in Seq(Event) /\ event \in Event
  BY DEF TypeOK
<1>2. e \in Seq(Event) /\ Range(e) = Offered(s) /\ Ordered(e)
  <2>1. \A x \in Event : <<x>> \in Seq(Event) /\ Range(<<x>>) = {x} /\ Ordered(<<x>>)
    BY DEF Range, Ordered
  <2>2. <<>> \in Seq(Event) /\ Range(<<>>) = {} /\ Ordered(<<>>)
    BY EmptySeq DEF Range, Ordered
  <2> QED BY <1>1, <2>1, <2>2 DEF Offered
<1>3. Ordered(h)
  <2>1. Len(h) <= 1 /\ Len(h) \in Nat /\ DOMAIN h = 1 .. Len(h)
    <3>1. h \in Seq(Event) /\ Len(h) = IF pc[s] = "writing" THEN 1 ELSE 0
      BY DEF TypeOK
    <3> QED BY <3>1, LenProperties
  <2> HIDE DEF h
  <2> QED BY <2>1 DEF Ordered
<1>4. Sequel(s) = ((g \o h) \o q) \o e
  BY DEF Sequel
<1>5. InOrder(s) =>
        /\ Ordered(g) /\ Ordered(q) /\ Earlier(Range(g), Range(h))
        /\ Earlier(Range(g) \cup Range(h), Range(q))
        /\ Earlier(Range(g) \cup Range(h) \cup Range(q), Range(e))
  BY <1>2 DEF InOrder, Earlier, Kept
<1>6. Kept(s) = Range(g) \cup Range(h) \cup Range(q)
  BY DEF Kept
<1> HIDE DEF g, h, q, e
<1>7. /\ g \o h \in Seq(Event) /\ Range(g \o h) = Range(g) \cup Range(h)
      /\ InOrder(s) => Ordered(g \o h)
  BY <1>1, <1>3, <1>5, ConcatOrdered
<1> DEFINE gh == g \o h
<1> HIDE DEF gh
<1>8. /\ gh \o q \in Seq(Event) /\ Range(gh \o q) = Range(g) \cup Range(h) \cup Range(q)
      /\ InOrder(s) => Ordered(gh \o q)
  BY <1>1, <1>5, <1>7, ConcatOrdered DEF gh
<1> DEFINE ghq == gh \o q
<1> HIDE DEF ghq
<1>9. /\ ghq \o e \in Seq(Event)
      /\ Range(ghq \o e) = Range(g) \cup Range(h) \cup Range(q) \cup Range(e)
      /\ InOrder(s) => Ordered(ghq \o e)
  BY <1>2, <1>5, <1>8, ConcatOrdered DEF ghq
<1> QED BY <1>2, <1>4, <1>6, <1>9 DEF ghq, gh

\* The sorted replay has exactly the messages to be replayed, in order.
LEMMA AscendingIs ==
    ASSUME next_id \in Nat, NEW S \in SUBSET Ids, NEW q \in Ascending(S)
    PROVE  /\ q \in Seq(Ids) /\ Range(q) = S
           /\ \A i, j \in DOMAIN q : i < j => q[i] < q[j]
<1>1. IsFiniteSet(S)
  <2>1. IsFiniteSet(1 .. next_id - 1)
    BY FS_Interval
  <2> QED BY <2>1, FS_Subset DEF Ids
<1> DEFINE n == Cardinality(S)
<1>2. n \in Nat
  BY <1>1, FS_CardinalityType
<1> HIDE DEF n
<1>3. q \in [1 .. n -> S] /\ \A i, j \in 1 .. n : i < j => q[i] < q[j]
  BY DEF Ascending, n
<1>4. q \in Injection(1 .. n, S)
  <2>1. \A i, j \in 1 .. n : q[i] = q[j] => i = j
    <3>1. \A i \in 1 .. n : q[i] \in Nat
      <4>1. Ids \subseteq Nat
        BY DEF Ids
      <4> QED BY <1>3, <4>1
    <3> QED BY <1>2, <1>3, <3>1
  <2> QED BY <1>3, <2>1, Fun_IsInj
<1>5. Cardinality(1 .. n) = n
  BY <1>2, FS_Interval
<1>6. q \in Surjection(1 .. n, S)
  BY <1>1, <1>4, <1>5, FS_Injection DEF n
<1>7. Range(q) = S
  <2>1. /\ DOMAIN q = 1 .. n /\ (\A i \in 1 .. n : q[i] \in S)
        /\ \A x \in S : \E i \in 1 .. n : q[i] = x
    BY <1>3, <1>6 DEF Surjection
  <2> QED BY <2>1 DEF Range
<1>8. q \in Seq(Ids)
  <2>1. q \in Seq(S)
    BY <1>2, <1>3, SeqDef
  <2> QED BY <2>1, SeqMonotonic
<1> QED BY <1>3, <1>7, <1>8

\* A fresh queue holds the whole replay in order, or a gap marker.
LEMMA EnqueuedIs ==
    ASSUME NEW q \in Seq(Ids), \A i, j \in DOMAIN q : i < j => q[i] < q[j]
    PROVE  /\ Ordered(Enqueued(q))
           /\ Len(q) <= QueueMax => Range(Enqueued(q)) = {Message(id) : id \in Range(q)}
           /\ Len(q) > QueueMax => Gap \in Range(Enqueued(q))
<1> DEFINE messages == [i \in DOMAIN q |-> Message(q[i])]
<1>1. /\ Len(q) \in Nat /\ DOMAIN q = 1 .. Len(q) /\ (\A i \in 1 .. Len(q) : q[i] \in Ids)
      /\ QueueMax \in Nat \ {0}
  BY HubAssumption, LenProperties, ElementOfSeq
<1>2. /\ DOMAIN messages = 1 .. Len(q)
      /\ \A i \in 1 .. Len(q) : messages[i] = Message(q[i]) /\ messages[i] \in Event
                                /\ messages[i].id = q[i]
  BY <1>1, EventFacts DEF Message
<1>3. Ordered(messages)
  BY <1>1, <1>2 DEF Ordered
<1>4. CASE Len(q) <= QueueMax
  <2>1. Enqueued(q) = messages
    BY <1>4 DEF Enqueued
  <2>2. Range(messages) = {Message(id) : id \in Range(q)}
    BY <1>1, <1>2 DEF Range
  <2> HIDE DEF messages
  <2> QED BY <1>1, <1>3, <1>4, <2>1, <2>2
<1>5. CASE Len(q) > QueueMax
  <2> DEFINE kept == SubSeq(messages, 2, QueueMax)
  <2>1. Enqueued(q) = Append(kept, Gap)
    BY <1>1, <1>5 DEF Enqueued
  <2> HIDE DEF messages
  <2>2. /\ kept \in Seq(Event) /\ Len(kept) = QueueMax - 1
        /\ \A i \in 1 .. QueueMax - 1 : kept[i] = messages[i + 1]
    <3>1. 2 \in Int /\ QueueMax \in Int /\ \A i \in 2 .. QueueMax : messages[i] \in Event
      BY <1>1, <1>2, <1>5
    <3>2. /\ kept \in Seq(Event) /\ Len(kept) = IF 2 <= QueueMax THEN QueueMax - 2 + 1 ELSE 0
          /\ \A i \in 1 .. QueueMax - 2 + 1 : kept[i] = messages[2 + i - 1]
      BY <3>1, SubSeqProperties
    <3> QED BY <1>1, <3>2
  <2> HIDE DEF kept
  <2>3. DOMAIN kept = 1 .. QueueMax - 1
    BY <2>2, LenProperties
  <2>4. Ordered(kept)
    <3>1. \A i \in 1 .. QueueMax - 1 : i + 1 \in 1 .. Len(q)
      BY <1>1, <1>5
    <3> SUFFICES ASSUME NEW i \in 1 .. QueueMax - 1, NEW j \in 1 .. QueueMax - 1, i < j
                 PROVE  kept[i].id < kept[j].id
      BY <2>3 DEF Ordered
    <3>2. q[i + 1] < q[j + 1]
      BY <1>1, <3>1
    <3>3. kept[i] = messages[i + 1] /\ kept[j] = messages[j + 1]
      BY <2>2
    <3> QED BY <1>2, <3>1, <3>2, <3>3
  <2>5. Gap \in Event /\ Earlier(Range(kept), {Gap})
    BY EventFacts DEF Earlier, Gap
  <2>6. Ordered(Append(kept, Gap)) /\ Range(Append(kept, Gap)) = Range(kept) \cup {Gap}
    BY <2>2, <2>4, <2>5, AppendOrdered
  <2> QED BY <1>1, <1>5, <2>1, <2>6
<1> QED BY <1>1, <1>4, <1>5

\* The ring after a publish: the new id is the last, the others move up by
\* one place when the oldest is forgotten.
LEMMA PushIs ==
    ASSUME NEW r \in Seq(Ids), NEW id \in Nat, Len(r) <= RingSize
    PROVE  LET p == Push(r, id)
           IN  /\ Len(p) \in Nat \ {0} /\ DOMAIN p = 1 .. Len(p) /\ p # <<>>
               /\ \E d \in {0, 1} : /\ Len(p) = Len(r) + 1 - d
                                  /\ \A k \in 1 .. Len(p) :
                                        p[k] = IF k + d = Len(r) + 1 THEN id ELSE r[k + d]
<1> DEFINE longer == Append(r, id)
           n == Len(r)
<1>1. /\ n \in Nat /\ longer \in Seq(Nat) /\ Len(longer) = n + 1 /\ DOMAIN longer = 1 .. n + 1
      /\ longer # <<>>
      /\ \A k \in 1 .. n : longer[k] = r[k]
      /\ longer[n + 1] = id
  <2>1. r \in Seq(Nat)
    <3>1. Ids \subseteq Nat
      BY DEF Ids
    <3> QED BY <3>1, SeqMonotonic
  <2> QED BY <2>1, LenProperties, AppendProperties
<1> HIDE DEF n, longer
<1>2. RingSize \in Nat \ {0} /\ n <= RingSize
  BY HubAssumption DEF n
<1>3. \A k \in 1 .. n + 1 : longer[k] = IF k = n + 1 THEN id ELSE r[k]
  BY <1>1
<1>4. CASE Len(longer) > RingSize
  <2>1. Push(r, id) = Tail(longer) /\ n > 0
    BY <1>1, <1>2, <1>4 DEF Push, longer
  <2>2. /\ Tail(longer) \in Seq(Nat) /\ Len(Tail(longer)) = n
        /\ \A k \in 1 .. n : Tail(longer)[k] = longer[k + 1]
    BY <1>1, HeadTailProperties
  <2>3. DOMAIN Tail(longer) = 1 .. n /\ Tail(longer) # <<>>
    <3>1. DOMAIN Tail(longer) = 1 .. n
      BY <2>2, LenProperties
    <3>2. 1 \in 1 .. n /\ DOMAIN <<>> = {}
      BY <1>1, <2>1
    <3> QED BY <3>1, <3>2
  <2>4. \A k \in 1 .. n : Tail(longer)[k] = IF k + 1 = n + 1 THEN id ELSE r[k + 1]
    <3>1. \A k \in 1 .. n : k + 1 \in 1 .. n + 1
      BY <1>1
    <3> QED BY <1>3, <2>2, <3>1
  <2>5. n = n + 1 - 1
    BY <1>1
  <2> QED BY <1>1, <2>1, <2>2, <2>3, <2>4, <2>5 DEF n
<1>5. CASE ~(Len(longer) > RingSize)
  <2>1. Push(r, id) = longer
    BY <1>5 DEF Push, longer
  <2>2. \A k \in 1 .. n + 1 : longer[k] = IF k + 0 = n + 1 THEN id ELSE r[k + 0]
    BY <1>1, <1>3
  <2>3. n + 1 = n + 1 - 0
    BY <1>1
  <2> QED BY <1>1, <2>1, <2>2, <2>3 DEF n
<1> QED BY <1>4, <1>5

-----------------------------------------------------------------------------
\* Publishing is inductive.
LEMMA PublishingStep ==
    ASSUME TypeOK, TypeOK', AdmissionAccounting, Publishing, [Next]_vars
    PROVE  Publishing'
<1> USE HubAssumption
<1>1. CASE Publish
  <2>1. /\ next_id' = next_id + 1 /\ next_id <= MaxId /\ ring' = Push(ring, next_id)
        /\ todo = {} /\ UNCHANGED <<target, stage, gapped, queue>>
    BY <1>1 DEF Publish, sessionVars
  <2>2. target = {} /\ next_id \in Nat \ {0} /\ ring \in Seq(Ids) /\ Len(ring) <= RingSize
    BY <2>1 DEF TypeOK
  <2>3. /\ Len(ring') \in Nat \ {0} /\ DOMAIN ring' = 1 .. Len(ring') /\ ring' # <<>>
        /\ \E d \in {0, 1} : /\ Len(ring') = Len(ring) + 1 - d
                           /\ \A k \in 1 .. Len(ring') :
                                 ring'[k] = IF k + d = Len(ring) + 1 THEN next_id ELSE ring[k + d]
    BY <2>1, <2>2, PushIs
  <2>4. PICK d \in {0, 1} : /\ Len(ring') = Len(ring) + 1 - d
                          /\ \A k \in 1 .. Len(ring') :
                                ring'[k] = IF k + d = Len(ring) + 1 THEN next_id ELSE ring[k + d]
    BY <2>3
  <2>5. Len(ring) \in Nat /\ DOMAIN ring = 1 .. Len(ring)
    BY <2>2, LenProperties
  <2>6. ASSUME NEW k \in 1 .. Len(ring')
        PROVE  ring'[k] = next_id' - 1 - Len(ring') + k
    <3>1. CASE k + d = Len(ring) + 1
      BY <2>1, <2>2, <2>4, <2>5, <3>1
    <3>2. CASE k + d # Len(ring) + 1
      <4>1. k + d \in DOMAIN ring /\ ring'[k] = ring[k + d]
        BY <2>3, <2>4, <2>5, <3>2
      <4>2. ring[k + d] = next_id - 1 - Len(ring) + (k + d)
        BY <4>1 DEF Publishing
      <4> QED BY <2>1, <2>2, <2>4, <2>5, <4>1, <4>2
    <3> QED BY <3>1, <3>2
  <2> QED BY <2>1, <2>2, <2>3, <2>6 DEF Publishing
<1>2. CASE Restart
  <2>1. /\ ring' = <<>> /\ target' = {} /\ next_id' = IF Store THEN next_id ELSE 1
    BY <1>2 DEF Restart
  <2>2. DOMAIN ring' = {}
    BY <2>1
  <2> QED BY <2>1, <2>2 DEF Publishing
<1> DEFINE Still == UNCHANGED <<next_id, ring>>
           Marks == \A s \in target : gapped[s] /\ (stage = "mark" => ~Full(s))
<1>3. ASSUME Still, Marks' PROVE Publishing'
  BY <1>3 DEF Publishing
<1>4. Marks
  BY DEF Publishing
<1>5. stage = "offer" => target = {}
  BY DEF TypeOK
<1>6. ASSUME NEW s \in Subs, OfferPut(s) PROVE Publishing'
  <2>1. Still /\ target' = {}
    BY <1>5, <1>6 DEF OfferPut, hubVars
  <2> QED BY <1>3, <2>1
<1>7. ASSUME NEW s \in Subs, OfferGap(s) PROVE Publishing'
  <2>1. Still /\ target' = {s} /\ gapped'[s] /\ stage' = "drop"
    BY <1>7 DEF OfferGap, hubVars, TypeOK
  <2> QED BY <1>3, <2>1
<1>8. ASSUME NEW s \in Subs, OfferDrop(s) PROVE Publishing'
  <2>1. /\ Still /\ UNCHANGED <<target, gapped>> /\ s \in target /\ \A t \in target : t = s
        /\ queue' = [queue EXCEPT ![s] = IF @ = <<>> THEN @ ELSE Tail(@)]
    BY <1>8 DEF OfferDrop, hubVars, TypeOK
  <2>2. queue[s] \in Seq(Event) /\ Len(queue[s]) <= QueueMax /\ s \in DOMAIN queue
    BY DEF TypeOK
  <2>3. Len(queue'[s]) # QueueMax
    <3>1. queue[s] = <<>> => Len(queue[s]) = 0
      OBVIOUS
    <3>2. queue[s] # <<>> => Len(Tail(queue[s])) = Len(queue[s]) - 1
      BY <2>2, HeadTailProperties
    <3>3. Len(queue[s]) \in Nat /\ QueueMax \in Nat \ {0}
      BY <2>2, LenProperties
    <3> QED BY <2>1, <2>2, <3>1, <3>2, <3>3
  <2>4. Marks'
    BY <1>4, <2>1, <2>3 DEF Full
  <2> QED BY <1>3, <2>1, <2>4
<1>9. ASSUME NEW s \in Subs, OfferMark(s) PROVE Publishing'
  <2>1. Still /\ target' = {}
    BY <1>9 DEF OfferMark, hubVars
  <2> QED BY <1>3, <2>1
<1>10. ASSUME NEW s \in Subs, Connect(s) PROVE Publishing'
  <2>1. /\ Still /\ UNCHANGED <<target, stage>> /\ pc[s] = "admitted"
        /\ \A t \in Subs \ {s} : gapped'[t] = gapped[t] /\ queue'[t] = queue[t]
    BY <1>10 DEF Connect, Subscribe, workerVars, TypeOK
  <2>2. s \notin subs
    BY <2>1 DEF AdmissionAccounting, Active
  <2>3. s \notin target /\ target \subseteq Subs
    BY <2>2 DEF TypeOK
  <2>4. Marks'
    BY <1>4, <2>1, <2>3 DEF Full
  <2> QED BY <1>3, <2>1, <2>4
<1>11. ASSUME NEW s \in Subs, Take(s) PROVE Publishing'
  <2>1. /\ Still /\ UNCHANGED <<target, stage, gapped>> /\ queue[s] # <<>>
        /\ queue' = [queue EXCEPT ![s] = Tail(@)]
    BY <1>11 DEF Take, hubVars, workerVars
  <2>2. queue[s] \in Seq(Event) /\ Len(queue[s]) <= QueueMax /\ target \subseteq Subs
        /\ queue \in [Subs -> Seq(Event)]
    BY DEF TypeOK
  <2>3. Len(Tail(queue[s])) = Len(queue[s]) - 1 /\ Len(queue[s]) \in Nat /\ QueueMax \in Nat
    BY <2>1, <2>2, HeadTailProperties, LenProperties
  <2>4. Len(queue'[s]) # QueueMax /\ \A t \in Subs \ {s} : queue'[t] = queue[t]
    <3>1. queue'[s] = Tail(queue[s]) /\ \A t \in Subs \ {s} : queue'[t] = queue[t]
      BY <2>1, <2>2
    <3> QED BY <2>2, <2>3, <3>1
  <2>5. Marks'
    BY <1>4, <2>1, <2>2, <2>4 DEF Full
  <2> QED BY <1>3, <2>1, <2>5
<1>12. ASSUME NEW s \in Subs, Unsubscribe(s) PROVE Publishing'
  <2>1. /\ Still /\ target' = target \ {s} /\ (stage' = "mark" => stage = "mark")
        /\ \A t \in Subs \ {s} : gapped'[t] = gapped[t] /\ queue'[t] = queue[t]
    BY <1>12 DEF Unsubscribe, TypeOK
  <2>2. target \subseteq Subs
    BY DEF TypeOK
  <2>3. Marks'
    BY <1>4, <2>1, <2>2 DEF Full
  <2> QED BY <1>3, <2>1, <2>3
<1>13. ASSUME NEW s \in Subs,
              OfferDiscard(s) \/ Admit(s) \/ WriteOk(s) \/ Confirm(s) \/ ConnectionLost(s) \/ Leave(s)
       PROVE  Publishing'
  <2>1. Still /\ UNCHANGED <<target, stage, gapped, queue>>
    BY <1>13 DEF OfferDiscard, Admit, WriteOk, Confirm, ConnectionLost, Leave, hubVars, workerVars,
                 sessionVars
  <2> QED BY <1>3, <1>4, <2>1 DEF Full
<1>14. CASE Broadcast \/ UNCHANGED vars
  <2>1. Still /\ UNCHANGED <<target, stage, gapped, queue>>
    BY <1>14 DEF Broadcast, vars, hubVars, workerVars, sessionVars
  <2> QED BY <1>3, <1>4, <2>1 DEF Full
<1> QED BY <1>1, <1>2, <1>6, <1>7, <1>8, <1>9, <1>10, <1>11, <1>12, <1>13, <1>14
        DEF Next, Offer, Handler

\* Ring and store together (store.py replay_after, stopped at the oldest id
\* of the ring) have every id after a cursor, and without a store every id
\* after both the cursor and the ring's start.
LEMMA ReplayedWhole ==
    ASSUME TypeOK, Publishing, WithinReplay, NEW after \in Nat, NEW id \in Ids,
           id > IF Store \/ ring = <<>> \/ after >= ring[1] THEN after ELSE ring[1] - 1
    PROVE  id \in Replay(after)
<1> DEFINE n == Len(ring)
<1>1. /\ n \in Nat /\ DOMAIN ring = 1 .. n /\ next_id \in Nat /\ (ring # <<>> => n > 0)
      /\ \A k \in 1 .. n : ring[k] = next_id - 1 - n + k
      /\ id \in Nat /\ id < next_id /\ ring \in Seq(Ids)
  <2>1. ring \in Seq(Ids) /\ next_id \in Nat
    BY DEF TypeOK
  <2>2. n \in Nat /\ DOMAIN ring = 1 .. n /\ (ring # <<>> => n > 0)
    BY <2>1, LenProperties, EmptySeq
  <2> QED BY <2>1, <2>2 DEF Publishing, Ids
<1> HIDE DEF n
<1>2. CASE ring # <<>> /\ id >= ring[1]
  <2>1. ring[1] = next_id - n
    BY <1>1, <1>2
  <2>2. id - (next_id - 1 - n) \in 1 .. n
    BY <1>1, <1>2, <2>1
  <2>3. ring[id - (next_id - 1 - n)] = id
    BY <1>1, <2>2
  <2>4. id \in Range(ring)
    BY <1>1, <2>2, <2>3 DEF Range
  <2>5. id > after
    BY <1>1, <1>2, <2>1
  <2> QED BY <2>4, <2>5 DEF Replay
<1>3. CASE ring = <<>> \/ id < ring[1]
  <2>1. Store
    <3>1. SUFFICES ASSUME ~Store PROVE FALSE
      BY HubAssumption
    <3>2. CASE ring = <<>>
      BY <1>1, <3>1, <3>2 DEF Publishing, Ids
    <3>3. CASE ring # <<>> /\ id < ring[1]
      <4>1. ring[1] \in Int
        BY <1>1, <3>3
      <4> QED BY <1>1, <3>1, <3>3, <4>1
    <3> QED BY <1>3, <3>2, <3>3
  <2>2. id > after
    BY <2>1
  <2>3. \A j \in Range(ring) : id < j
    <3>1. ASSUME NEW k \in 1 .. n PROVE id < ring[k]
      <4>1. ring # <<>> /\ 1 \in 1 .. n /\ ring[1] = next_id - 1 - n + 1
        <5>1. 1 \in 1 .. n /\ 1 \in DOMAIN ring
          BY <1>1, <3>1
        <5>2. DOMAIN <<>> = {}
          OBVIOUS
        <5> QED BY <1>1, <5>1, <5>2
      <4>2. ring[k] = next_id - 1 - n + k
        BY <1>1, <3>1
      <4> QED BY <1>1, <1>3, <3>1, <4>1, <4>2
    <3> QED BY <1>1, <3>1 DEF Range
  <2> DEFINE older == {i \in Ids : i > after /\ \A j \in Range(ring) : i < j}
             late == {j \in older : j >= id}
  <2>4. Cardinality(late) <= MaxReplay
    <3>1. next_id - 1 \in Int /\ 1 \in Int /\ next_id - 1 <= MaxId
      BY <1>1, HubAssumption DEF Publishing
    <3>2. IsFiniteSet(Ids) /\ Cardinality(Ids) = IF 1 > next_id - 1 THEN 0 ELSE next_id - 1 - 1 + 1
      BY <3>1, FS_Interval DEF Ids
    <3>3. late \in SUBSET Ids
      OBVIOUS
    <3> HIDE DEF late
    <3>4. Cardinality(late) <= Cardinality(Ids) /\ Cardinality(late) \in Nat
      BY <3>2, <3>3, FS_Subset, FS_CardinalityType
    <3>5. Cardinality(Ids) <= MaxId /\ Cardinality(Ids) \in Nat
      BY <1>1, <3>1, <3>2, HubAssumption
    <3> QED BY <2>1, <3>4, <3>5, HubAssumption DEF WithinReplay
  <2>5. id \in older
    BY <2>2, <2>3
  <2>6. id \in FromStore(after)
    <3> HIDE DEF late
    <3>1. FromStore(after) = {i \in older : Cardinality({j \in older : j >= i}) <= MaxReplay}
      BY DEF FromStore
    <3> HIDE DEF older
    <3> QED BY <2>4, <2>5, <3>1 DEF late
  <2> QED BY <2>1, <2>6 DEF Replay
<1>4. ring # <<>> => ring[1] \in Int
  BY <1>1
<1> QED BY <1>1, <1>2, <1>3, <1>4

\* A session whose places do not change keeps its invariant.
LEMMA FlowKept ==
    ASSUME NEW t \in Subs, Flow(t), next_id' = next_id, Active(t)' => Active(t),
           got'[t] = got[t], hand'[t] = hand[t], queue'[t] = queue[t],
           gapped'[t] = gapped[t], base'[t] = base[t],
           Offered(t)' = Offered(t), t \in target => t \in target'
    PROVE  Flow(t)'
<1>1. Kept(t)' = Kept(t)
  BY DEF Kept
<1>2. InOrder(t) => InOrder(t)'
  BY <1>1 DEF InOrder
<1>3. NoHoles(t) => NoHoles(t)'
  BY <1>1 DEF NoHoles, Ids
<1> QED BY <1>2, <1>3 DEF Flow
\* The places of a session hold events; the hand is full while it writes.
LEMMA KeptIs ==
    ASSUME TypeOK, NEW t \in Subs
    PROVE  /\ got[t] \in Seq(Event) /\ hand[t] \in Seq(Event) /\ queue[t] \in Seq(Event)
           /\ Range(got[t]) \subseteq Event /\ Range(hand[t]) \subseteq Event
           /\ Range(queue[t]) \subseteq Event /\ Kept(t) \subseteq Event
           /\ Offered(t) \subseteq Event
           /\ (queue[t] = <<>> => Range(queue[t]) = {})
           /\ (pc[t] # "writing" => hand[t] = <<>> /\ Range(hand[t]) = {})
           /\ (pc[t] = "writing" => hand[t] = <<hand[t][1]>> /\ hand[t][1] \in Event
                                    /\ Range(hand[t]) = {hand[t][1]})
<1>1. /\ got[t] \in Seq(Event) /\ hand[t] \in Seq(Event) /\ queue[t] \in Seq(Event)
      /\ event \in Event /\ Len(hand[t]) = IF pc[t] = "writing" THEN 1 ELSE 0
  BY DEF TypeOK
<1>2. /\ Range(got[t]) \subseteq Event /\ Range(hand[t]) \subseteq Event
      /\ Range(queue[t]) \subseteq Event /\ (queue[t] = <<>> => Range(queue[t]) = {})
      /\ (hand[t] = <<>> => Range(hand[t]) = {})
  BY <1>1, RangeType
<1>3. Kept(t) \subseteq Event /\ Offered(t) \subseteq Event
  BY <1>1, <1>2 DEF Kept, Offered
<1>4. pc[t] # "writing" => hand[t] = <<>>
  BY <1>1, EmptySeq
<1>5. ASSUME pc[t] = "writing"
      PROVE  hand[t] = <<hand[t][1]>> /\ hand[t][1] \in Event /\ Range(hand[t]) = {hand[t][1]}
  <2>1. hand[t] # <<>> /\ DOMAIN hand[t] = 1 .. 1 /\ hand[t] \in [1 .. 1 -> Event]
    <3>1. Len(hand[t]) = 1 /\ Len(<<>>) = 0
      BY <1>1, <1>5
    <3>2. DOMAIN hand[t] = 1 .. 1 /\ hand[t] \in [1 .. 1 -> Event]
      BY <1>1, <3>1, LenProperties
    <3>3. hand[t] = <<>> => Len(hand[t]) = 0
      OBVIOUS
    <3>4. hand[t] # <<>>
      BY <3>1, <3>3
    <3> QED BY <3>2, <3>4
  <2>2. hand[t][1] \in Event
    BY <2>1
  <2>3. hand[t] = <<hand[t][1]>>
    BY <1>1, <1>5
  <2>4. Range(hand[t]) = {hand[t][1]}
    BY <2>1 DEF Range
  <2> QED BY <2>2, <2>3, <2>4
<1> QED BY <1>1, <1>2, <1>3, <1>4, <1>5

\* hub.publish: the new id is the only one the session does not have yet, and
\* it is about to be offered, for an active session is in subs.
LEMMA FlowPublish ==
    ASSUME TypeOK, AdmissionAccounting, Publishing, Publish, NEW t \in Subs, Flow(t)
    PROVE  Flow(t)'
<1>1. /\ next_id' = next_id + 1 /\ todo = {} /\ todo' = subs /\ event' = Message(next_id)
      /\ UNCHANGED <<target, queue, gapped, pc, hand, got, base>>
  BY DEF Publish, sessionVars, historyVars
<1>2. target = {} /\ next_id \in Nat \ {0}
  BY <1>1 DEF TypeOK
<1>3. SUFFICES ASSUME Active(t) PROVE InOrder(t)' /\ NoHoles(t)'
  BY <1>1 DEF Flow, Active
<1>4. t \in subs
  BY <1>3 DEF AdmissionAccounting
<1>5. Offered(t) = {} /\ Offered(t)' = {Message(next_id)} /\ Kept(t)' = Kept(t)
  BY <1>1, <1>2, <1>4 DEF Offered, Kept
<1>6. InOrder(t) /\ NoHoles(t)
  BY <1>3 DEF Flow
<1>7. Earlier(Kept(t), {Message(next_id)})
  <2>1. \A x \in Kept(t) : x.kind = "message" => x.id \in Ids
    BY KeptIs, EventFacts
  <2> QED BY <1>2, <2>1 DEF Earlier, Ids, Message
<1>8. InOrder(t)'
  BY <1>1, <1>5, <1>6, <1>7 DEF InOrder
<1>9. NoHoles(t)'
  <2>1. \A id \in Ids' : id \in Ids \/ id = next_id
    BY <1>1, <1>2 DEF Ids
  <2>2. gapped[t] => Gap \in Kept(t)
    BY <1>2, <1>6 DEF NoHoles
  <2>3. WithinReplay /\ ~gapped[t] => \A id \in Ids : id > base[t] => Message(id) \in Kept(t)
    BY <1>5, <1>6 DEF NoHoles
  <2> QED BY <1>1, <1>5, <2>1, <2>2, <2>3 DEF NoHoles
<1> QED BY <1>8, <1>9

\* hub.subscribe: replay and registration are one critical section, so that
\* the queue starts with everything after the session's base.
LEMMA FlowConnect ==
    ASSUME TypeOK, TypeOK', AdmissionAccounting, Publishing, NEW s \in Subs, Connect(s)
    PROVE  InOrder(s)' /\ NoHoles(s)'
<1>1. PICK str \in 0 .. stream, after \in 0 .. MaxId : Subscribe(s, str, after)
  BY DEF Connect
<1> DEFINE valid == str = stream /\ after < next_id
           replay == pending \cup (IF valid THEN Replay(after) ELSE {})
<1>2. PICK q \in Ascending(replay) :
            /\ queue' = [queue EXCEPT ![s] = Enqueued(q)]
            /\ gapped' = [gapped EXCEPT ![s] = Len(q) > QueueMax]
  BY <1>1 DEF Subscribe
<1>3. /\ UNCHANGED <<next_id, todo, target, hand>> /\ pc[s] = "admitted"
      /\ got' = [got EXCEPT ![s] = <<>>]
      /\ base' = [base EXCEPT ![s] =
                    IF ~valid THEN next_id - 1
                    ELSE IF Store \/ ring = <<>> \/ after >= ring[1] THEN after
                    ELSE ring[1] - 1]
  BY <1>1 DEF Subscribe, workerVars
<1>4. after \in Nat /\ replay \subseteq Ids /\ next_id \in Nat /\ QueueMax \in Nat
  <2>1. MaxId \in Nat /\ QueueMax \in Nat
    BY HubAssumption
  <2>2. after \in Nat
    BY <2>1
  <2> QED BY <2>1, <2>2, ReplayType DEF TypeOK
<1> HIDE DEF valid, replay
<1>5. /\ q \in Seq(Ids) /\ Range(q) = replay
      /\ \A i, j \in DOMAIN q : i < j => q[i] < q[j]
  BY <1>2, <1>4, AscendingIs
<1>6. /\ Ordered(Enqueued(q))
      /\ Len(q) <= QueueMax => Range(Enqueued(q)) = {Message(id) : id \in replay}
      /\ Len(q) > QueueMax => Gap \in Range(Enqueued(q))
  BY <1>5, EnqueuedIs
<1>7. s \notin subs /\ s \notin todo /\ s \notin target
  <2>1. s \notin subs
    BY <1>3 DEF AdmissionAccounting, Active
  <2> QED BY <2>1 DEF TypeOK
<1>8. /\ queue'[s] = Enqueued(q) /\ gapped'[s] = (Len(q) > QueueMax) /\ got'[s] = <<>>
      /\ base'[s] = IF ~valid THEN next_id - 1
                    ELSE IF Store \/ ring = <<>> \/ after >= ring[1] THEN after
                    ELSE ring[1] - 1
  BY <1>2, <1>3 DEF TypeOK
<1>9. Range(got'[s]) = {} /\ Range(hand'[s]) = {} /\ Ordered(<<>>)
  <2>1. Range(hand[s]) = {} /\ hand' = hand
    BY <1>3, KeptIs
  <2>2. Range(<<>>) = {} /\ Ordered(<<>>)
    BY DEF Range, Ordered
  <2> QED BY <1>8, <2>1, <2>2
<1>10. Offered(s)' = {} /\ Kept(s)' = Range(Enqueued(q))
  BY <1>3, <1>7, <1>8, <1>9 DEF Offered, Kept
<1>11. InOrder(s)'
  BY <1>6, <1>8, <1>9, <1>10 DEF InOrder, Earlier
<1>12. NoHoles(s)'
  <2>1. gapped'[s] => Gap \in Kept(s)'
    BY <1>6, <1>8, <1>10
  <2>2. ASSUME WithinReplay, ~gapped'[s], NEW id \in Ids, id > base'[s]
        PROVE  Message(id) \in Kept(s)'
    <3>1. Len(q) <= QueueMax
      <4>1. ~(Len(q) > QueueMax)
        BY <1>8, <2>2
      <4>2. Len(q) \in Nat
        BY <1>5, LenProperties
      <4> QED BY <1>4, <4>1, <4>2
    <3>2. valid
      BY <1>4, <1>8, <2>2 DEF Ids
    <3>3. id \in Replay(after)
      BY <1>4, <1>8, <2>2, <3>2, ReplayedWhole
    <3> QED BY <1>6, <1>10, <3>1, <3>2, <3>3 DEF replay
  <2>3. Ids' = Ids
    BY <1>3 DEF Ids
  <2> QED BY <2>1, <2>2, <2>3 DEF NoHoles
<1> QED BY <1>11, <1>12

\* Subscriber.offer, step by step, for the session it is called on.
LEMMA FlowOffer ==
    ASSUME TypeOK, TypeOK', Publishing, NEW s \in Subs, Offer(s), InOrder(s), NoHoles(s)
    PROVE  InOrder(s)' /\ NoHoles(s)'
<1> USE HubAssumption
<1> DEFINE Still == UNCHANGED <<next_id, event>> /\ got'[s] = got[s] /\ hand'[s] = hand[s]
                    /\ base'[s] = base[s]
<1>1. /\ got[s] \in Seq(Event) /\ queue[s] \in Seq(Event) /\ event \in Event
      /\ queue \in [Subs -> Seq(Event)] /\ gapped \in [Subs -> BOOLEAN]
      /\ stage = "offer" => target = {}
      /\ \A x, y \in target : x = y
      /\ target \subseteq todo
  BY DEF TypeOK
<1>2. Gap \in Event /\ Gap.kind # "message"
  BY EventFacts DEF Gap
<1>3. CASE OfferPut(s)
  <2>1. /\ Still /\ target = {} /\ target' = {} /\ s \in todo /\ s \notin todo'
        /\ queue'[s] = Append(queue[s], event) /\ gapped'[s] = gapped[s]
    BY <1>1, <1>3 DEF OfferPut, hubVars, historyVars
  <2>2. Offered(s) = {event} /\ Offered(s)' = {}
    BY <2>1 DEF Offered
  <2>3. /\ Ordered(queue[s]) /\ Earlier(Range(queue[s]), {event})
        /\ Earlier(Range(got[s]), {event}) /\ Earlier(Range(hand[s]), {event})
    BY <2>2 DEF InOrder, Earlier, Kept
  <2>4. Ordered(queue'[s]) /\ Range(queue'[s]) = Range(queue[s]) \cup {event}
    BY <1>1, <2>1, <2>3, AppendOrdered
  <2>5. Kept(s)' = Kept(s) \cup {event}
    BY <2>1, <2>4 DEF Kept
  <2>6. InOrder(s)'
    BY <2>1, <2>2, <2>3, <2>4 DEF InOrder, Earlier
  <2>7. NoHoles(s)'
    BY <2>1, <2>2, <2>5 DEF NoHoles, Ids
  <2> QED BY <2>6, <2>7
<1>4. CASE OfferDiscard(s)
  <2>1. /\ Still /\ target = {} /\ target' = {} /\ s \notin todo' /\ gapped[s]
        /\ UNCHANGED <<queue, gapped>>
    BY <1>1, <1>4 DEF OfferDiscard, hubVars, sessionVars, historyVars
  <2>2. Offered(s)' = {} /\ Kept(s)' = Kept(s)
    BY <2>1 DEF Offered, Kept
  <2>3. InOrder(s)'
    BY <2>1, <2>2 DEF InOrder, Earlier
  <2>4. NoHoles(s)'
    BY <2>1, <2>2 DEF NoHoles
  <2> QED BY <2>3, <2>4
<1>5. CASE OfferGap(s)
  <2>1. /\ Still /\ target' = {s} /\ gapped'[s] /\ queue' = queue
    BY <1>1, <1>5 DEF OfferGap, hubVars, historyVars
  <2>2. Offered(s)' = {} /\ Kept(s)' = Kept(s)
    BY <2>1 DEF Offered, Kept
  <2>3. InOrder(s)'
    BY <2>1, <2>2 DEF InOrder, Earlier
  <2>4. NoHoles(s)'
    BY <2>1, <2>2 DEF NoHoles
  <2> QED BY <2>3, <2>4
<1>6. CASE OfferDrop(s)
  <2>1. /\ Still /\ s \in target /\ target' = target /\ gapped' = gapped
        /\ queue'[s] = IF queue[s] = <<>> THEN queue[s] ELSE Tail(queue[s])
    BY <1>1, <1>6 DEF OfferDrop, hubVars, historyVars
  <2>2. gapped[s] /\ Offered(s)' = {}
    BY <2>1 DEF Publishing, Offered
  <2>3. Ordered(queue[s])
    BY DEF InOrder
  <2>4. Ordered(queue'[s]) /\ Range(queue'[s]) \subseteq Range(queue[s])
    BY <1>1, <2>1, <2>3, TailOrdered
  <2>5. InOrder(s)'
    BY <2>1, <2>2, <2>4 DEF InOrder, Earlier
  <2>6. NoHoles(s)'
    BY <2>1, <2>2 DEF NoHoles
  <2> QED BY <2>5, <2>6
<1>7. CASE OfferMark(s)
  <2>1. /\ Still /\ s \in target /\ stage = "mark" /\ target' = {} /\ gapped' = gapped
        /\ todo' = todo \ {s}
    BY <1>1, <1>7 DEF OfferMark, hubVars, historyVars
  <2>2. gapped[s] /\ ~Full(s) /\ Offered(s)' = {}
    BY <2>1 DEF Publishing, Offered
  <2>3. queue'[s] = Append(queue[s], Gap)
    BY <1>1, <1>7, <2>2 DEF OfferMark
  <2>4. Ordered(queue[s]) /\ Earlier(Range(queue[s]), {Gap})
    BY <1>2 DEF InOrder, Earlier
  <2>5. Ordered(queue'[s]) /\ Range(queue'[s]) = Range(queue[s]) \cup {Gap}
    BY <1>1, <1>2, <2>3, <2>4, AppendOrdered
  <2>6. InOrder(s)'
    BY <1>2, <2>1, <2>2, <2>5 DEF InOrder, Earlier
  <2>7. NoHoles(s)'
    BY <2>1, <2>2, <2>5 DEF NoHoles, Kept
  <2> QED BY <2>6, <2>7
<1> QED BY <1>3, <1>4, <1>5, <1>6, <1>7 DEF Offer

\* The handler takes the oldest item of its queue and writes it.
LEMMA FlowSend ==
    ASSUME TypeOK, NEW s \in Subs, Take(s) \/ WriteOk(s), InOrder(s), NoHoles(s)
    PROVE  InOrder(s)' /\ NoHoles(s)'
<1>1. /\ UNCHANGED <<next_id, event, todo, target, gapped, base>>
  BY DEF Take, WriteOk, hubVars, workerVars, historyVars
<1>2. Offered(s)' = Offered(s)
  BY <1>1 DEF Offered
<1>3. /\ got[s] \in Seq(Event) /\ queue[s] \in Seq(Event)
      /\ queue \in [Subs -> Seq(Event)] /\ hand \in [Subs -> Seq(Event)]
      /\ got \in [Subs -> Seq(Event)]
  BY DEF TypeOK
<1>4. CASE Take(s)
  <2>1. /\ queue[s] # <<>> /\ got' = got /\ pc[s] = "waiting"
        /\ hand'[s] = <<Head(queue[s])>> /\ queue'[s] = Tail(queue[s])
    BY <1>3, <1>4 DEF Take, historyVars
  <2>2. Ordered(queue[s]) /\ Range(hand[s]) = {}
    BY <2>1, KeptIs DEF InOrder
  <2> DEFINE e == Head(queue[s])
  <2>3. /\ Ordered(queue'[s]) /\ Earlier({e}, Range(queue'[s]))
        /\ Range(queue[s]) = {e} \cup Range(queue'[s]) /\ Range(hand'[s]) = {e}
    BY <1>3, <2>1, <2>2, TailOrdered
  <2> HIDE DEF e
  <2>4. Kept(s)' = Kept(s)
    BY <2>1, <2>2, <2>3 DEF Kept
  <2>5. InOrder(s)'
    BY <1>2, <2>1, <2>3, <2>4 DEF InOrder, Earlier
  <2>6. NoHoles(s)'
    BY <1>1, <1>2, <2>4 DEF NoHoles, Ids
  <2> QED BY <2>5, <2>6
<1>5. CASE WriteOk(s)
  <2> DEFINE e == hand[s][1]
  <2>1. /\ pc[s] = "writing" /\ queue' = queue /\ hand'[s] = <<>>
        /\ got'[s] = IF e.kind = "health" THEN got[s] ELSE Append(got[s], e)
    BY <1>3, <1>5 DEF WriteOk
  <2>2. e \in Event /\ Range(hand[s]) = {e}
    BY <2>1, KeptIs
  <2> HIDE DEF e
  <2>3. Range(hand'[s]) = {}
    BY <2>1 DEF Range
  <2>4. Ordered(got[s]) /\ Earlier(Range(got[s]), {e}) /\ Earlier({e}, Range(queue[s]))
    BY <2>2 DEF InOrder
  <2>5. /\ Ordered(got'[s])
        /\ Range(got'[s]) = Range(got[s]) \cup (IF e.kind = "health" THEN {} ELSE {e})
    <3>1. /\ Ordered(Append(got[s], e))
          /\ Range(Append(got[s], e)) = Range(got[s]) \cup {e}
      BY <1>3, <2>2, <2>4, AppendOrdered
    <3>2. Range(got[s]) = Range(got[s]) \cup {}
      OBVIOUS
    <3>3. CASE e.kind = "health"
      BY <2>1, <2>4, <3>2, <3>3
    <3>4. CASE e.kind # "health"
      BY <2>1, <3>1, <3>4
    <3> QED BY <3>3, <3>4
  <2>6. Kept(s)' \subseteq Kept(s) /\ \A x \in Kept(s) : x.kind # "health" => x \in Kept(s)'
    BY <2>1, <2>2, <2>3, <2>5 DEF Kept
  <2>7. InOrder(s)'
    <3>1. Earlier(Range(got'[s]), Range(queue'[s]))
      BY <2>1, <2>4, <2>5 DEF InOrder, Earlier
    <3>2. Earlier(Kept(s)', Offered(s)')
      BY <1>2, <2>6 DEF InOrder, Earlier
    <3>3. Ordered(queue'[s])
      BY <2>1 DEF InOrder
    <3> QED BY <2>3, <2>5, <3>1, <3>2, <3>3 DEF InOrder, Earlier
  <2>8. NoHoles(s)'
    <3>1. Gap.kind # "health" /\ \A id \in Ids : Message(id).kind # "health"
      BY DEF Gap, Message
    <3> QED BY <1>1, <1>2, <2>6, <3>1 DEF NoHoles, Ids
  <2> QED BY <2>7, <2>8
<1> QED BY <1>4, <1>5

\* A step for one session leaves the other sessions' places alone.
LEMMA FlowOthers ==
    ASSUME TypeOK, AdmissionAccounting, NEW s \in Subs, NEW t \in Subs, s # t, Flow(t),
           Offer(s) \/ Admit(s) \/ Connect(s) \/ Handler(s) \/ ConnectionLost(s)
    PROVE  Flow(t)'
<1>1. /\ next_id' = next_id /\ event' = event /\ pc'[t] = pc[t]
      /\ got'[t] = got[t] /\ hand'[t] = hand[t] /\ queue'[t] = queue[t]
      /\ gapped'[t] = gapped[t] /\ base'[t] = base[t]
      /\ (t \in todo' <=> t \in todo) /\ (t \in target' <=> t \in target)
  <2>1. /\ pc \in [Subs -> PCs] /\ got \in [Subs -> Seq(Event)] /\ hand \in [Subs -> Seq(Event)]
        /\ queue \in [Subs -> Seq(Event)] /\ gapped \in [Subs -> BOOLEAN] /\ base \in [Subs -> Nat]
        /\ (stage = "offer" => target = {}) /\ (\A x, y \in target : x = y)
    BY DEF TypeOK
  <2>2. CASE OfferPut(s) \/ OfferDiscard(s)
    BY <2>1, <2>2 DEF OfferPut, OfferDiscard, hubVars, sessionVars, historyVars
  <2>3. CASE OfferGap(s) \/ OfferDrop(s) \/ OfferMark(s)
    BY <2>1, <2>3 DEF OfferGap, OfferDrop, OfferMark, hubVars, historyVars
  <2>4. CASE Admit(s) \/ Leave(s) \/ Confirm(s) \/ ConnectionLost(s)
    BY <2>1, <2>4 DEF Admit, Leave, Confirm, ConnectionLost, hubVars, workerVars, historyVars
  <2>5. CASE Take(s) \/ WriteOk(s)
    BY <2>1, <2>5 DEF Take, WriteOk, hubVars, workerVars, historyVars
  <2>6. CASE Connect(s)
    BY <2>1, <2>6 DEF Connect, Subscribe, workerVars
  <2>7. CASE Unsubscribe(s)
    BY <2>1, <2>7 DEF Unsubscribe
  <2> QED BY <2>2, <2>3, <2>4, <2>5, <2>6, <2>7 DEF Offer, Handler
<1>2. Offered(t)' = Offered(t) /\ Active(t)' = Active(t)
  BY <1>1 DEF Offered, Active
<1> QED BY <1>1, <1>2, FlowKept

\* Every step preserves the invariant of every session.
LEMMA FlowStep ==
    ASSUME TypeOK, TypeOK', AdmissionAccounting, Publishing, [Next]_vars,
           NEW t \in Subs, Flow(t)
    PROVE  Flow(t)'
<1>1. CASE Publish
  BY <1>1, FlowPublish
<1>2. CASE Broadcast
  <2>1. /\ UNCHANGED <<next_id, pc, got, hand, queue, gapped, base, target>>
        /\ event' = Health /\ todo = {}
    BY <1>2 DEF Broadcast, hubVars, sessionVars, historyVars
  <2>2. Kept(t)' = Kept(t) /\ Offered(t) = {} /\ Offered(t)' \subseteq {Health}
    BY <2>1 DEF Kept, Offered
  <2>3. InOrder(t) => InOrder(t)'
    BY <2>1, <2>2 DEF InOrder, Earlier, Health
  <2>4. NoHoles(t) => NoHoles(t)'
    BY <2>1, <2>2 DEF NoHoles, Ids
  <2> QED BY <2>1, <2>3, <2>4 DEF Flow, Active
<1>3. CASE Restart
  BY <1>3 DEF Restart, Flow, Active
<1>4. CASE UNCHANGED vars
  <2>1. UNCHANGED <<next_id, pc, got, hand, queue, gapped, base, target, todo, event>>
    BY <1>4 DEF vars, hubVars, workerVars, sessionVars, historyVars
  <2>2. Offered(t)' = Offered(t) /\ Active(t)' = Active(t)
    BY <2>1 DEF Offered, Active
  <2> QED BY <2>1, <2>2, FlowKept
<1>5. ASSUME NEW s \in Subs, s # t,
             Offer(s) \/ Admit(s) \/ Connect(s) \/ Handler(s) \/ ConnectionLost(s)
      PROVE  Flow(t)'
  BY <1>5, FlowOthers
<1>6. CASE Offer(t)
  <2>1. pc' = pc
    BY <1>6 DEF Offer, OfferPut, OfferDiscard, OfferGap, OfferDrop, OfferMark, sessionVars
  <2>2. Active(t)' = Active(t)
    BY <2>1 DEF Active
  <2> QED BY <1>6, <2>2, FlowOffer DEF Flow
<1>7. CASE Connect(t)
  BY <1>7, FlowConnect DEF Flow
<1>8. CASE Take(t) \/ WriteOk(t)
  <2>1. Active(t)
    BY <1>8 DEF Take, WriteOk, Active
  <2> QED BY <1>8, <2>1, FlowSend DEF Flow
<1>9. CASE Confirm(t)
  <2>1. /\ UNCHANGED <<next_id, got, hand, queue, gapped, base, target, todo, event>>
        /\ Active(t)
    BY <1>9 DEF Confirm, workerVars, historyVars, Active
  <2>2. Offered(t)' = Offered(t)
    BY <2>1 DEF Offered
  <2> QED BY <2>1, <2>2, FlowKept
<1>10. CASE Admit(t) \/ ConnectionLost(t) \/ Unsubscribe(t) \/ Leave(t)
  <2>1. ~Active(t)'
    <3>1. pc \in [Subs -> PCs]
      BY DEF TypeOK
    <3> QED BY <1>10, <3>1 DEF Admit, ConnectionLost, Unsubscribe, Leave, Active
  <2> QED BY <2>1 DEF Flow
<1> QED BY <1>1, <1>2, <1>3, <1>4, <1>5, <1>6, <1>7, <1>8, <1>9, <1>10 DEF Next, Handler

-----------------------------------------------------------------------------
\* The inductive invariant, together with TypeOK and AdmissionAccounting.
SessionInv == Publishing /\ \A s \in Subs : Flow(s)

\* It holds in every reachable state.
LEMMA SessionInvariant == Spec => [](TypeOK /\ SessionInv)
<1>1. Init => SessionInv
  <2> SUFFICES ASSUME Init PROVE SessionInv
    OBVIOUS
  <2>1. next_id = 1 /\ ring = <<>> /\ target = {} /\ \A s \in Subs : pc[s] = "closed"
    BY DEF Init
  <2>2. DOMAIN ring = {}
    BY <2>1
  <2>3. Publishing
    BY <2>1, <2>2, HubAssumption DEF Publishing
  <2> QED BY <2>1, <2>3 DEF SessionInv, Flow, Active
<1>2. TypeOK /\ TypeOK' /\ AdmissionAccounting /\ SessionInv /\ [Next]_vars => SessionInv'
  <2> SUFFICES ASSUME TypeOK, TypeOK', AdmissionAccounting, SessionInv, [Next]_vars
               PROVE  SessionInv'
    OBVIOUS
  <2>1. Publishing'
    BY PublishingStep DEF SessionInv
  <2>2. ASSUME NEW t \in Subs PROVE Flow(t)'
    BY FlowStep DEF SessionInv
  <2> QED BY <2>1, <2>2 DEF SessionInv
<1> QED BY <1>1, <1>2, TypeInvariant, Admission, PTL DEF Spec

\* No subscriber is ever written a message twice nor an older one after a
\* newer one, however replay, live fan-out, overflow and the handler's writes
\* interleave (hub.py subscribe and publish; api.py _subscribe).
THEOREM SessionOrder == Spec => []SessionInOrder
<1>1. TypeOK /\ SessionInv => SessionInOrder
  <2> SUFFICES ASSUME TypeOK, SessionInv, NEW s \in Subs, Active(s) PROVE Ordered(Sequel(s))
    BY DEF SessionInOrder, Ordered
  <2> QED BY SequelIs DEF SessionInv, Flow
<1> QED BY <1>1, SessionInvariant, PTL

\* Only a session whose queue overflowed can miss anything.
LEMMA LossIs ==
    ASSUME TypeOK, SessionInv, NEW s \in Subs, Active(s), WithinReplay, Lost(s) # {}
    PROVE  gapped[s]
<1>1. PICK id \in Ids : id > base[s] /\ Message(id) \notin Range(Sequel(s))
  BY DEF Lost
<1>2. Range(Sequel(s)) = Kept(s) \cup Offered(s)
  BY SequelIs
<1> QED BY <1>1, <1>2 DEF SessionInv, Flow, NoHoles

\* A session that misses a message is told so at least once: a gap marker was
\* written to it, is on its way, or is about to be queued (Subscriber.offer).
\* Without a store there is no hypothesis; with one, no replay is cut short.
THEOREM LossAnnounced == WithinReplay /\ Spec => []NoSilentLoss
<1> SUFFICES ASSUME WithinReplay PROVE Spec => []NoSilentLoss
  OBVIOUS
<1>1. TypeOK /\ SessionInv => NoSilentLoss
  <2> SUFFICES ASSUME TypeOK, SessionInv, NEW s \in Subs, Active(s), Lost(s) # {}
               PROVE  GapComing(s) \/ Gap \in Range(got[s])
    BY DEF NoSilentLoss
  <2>1. s \in target \/ Gap \in Kept(s)
    BY LossIs DEF SessionInv, Flow, NoHoles
  <2>2. Range(queue[s] \o hand[s]) = Range(queue[s]) \cup Range(hand[s])
    <3>1. queue[s] \in Seq(Event) /\ hand[s] \in Seq(Event)
      BY DEF TypeOK
    <3> QED BY <3>1, ConcatOrdered
  <2> QED BY <2>1, <2>2 DEF GapComing, Kept
<1> QED BY <1>1, SessionInvariant, PTL

\* With a store, a session whose queue did not overflow has every message
\* after its cursor, through restarts of the process (store.py replay_after,
\* hub.py subscribe), in a stream of at most MaxReplay messages.
THEOREM ReplayWhole == WithinReplay /\ Spec => []ReplayComplete
<1> SUFFICES ASSUME WithinReplay PROVE Spec => []ReplayComplete
  OBVIOUS
<1>1. TypeOK /\ SessionInv => ReplayComplete
  BY LossIs DEF ReplayComplete
<1> QED BY <1>1, SessionInvariant, PTL
=============================================================================
