--------------------------- MODULE OutboundProofs ---------------------------
(***************************************************************************)
(* Proofs about module Outbound: what an outbox record says of the network *)
(* (outbox.py, worker.py _do_send), and what the idempotency keys promise  *)
(* (outbox.py, api.py _send_message).  They hold for any number of         *)
(* callers, posts, recipients, segments, records kept and faults.          *)
(***************************************************************************)
EXTENDS Outbound, FiniteSetTheorems, TLAPS

\* The types of handlers and records.  The records kept are the newest Keep
\* ids, so that eviction removes the oldest one only.
Keys == Callers \X Nat
Reqs == [caller : Callers, key : Keys, try : Nat,
         at : {"check", "create", "submit", "answer"}, rec : Nat]
Recs == [caller : Callers, key : Keys, state : States, accepted : SUBSET Units]
Currents == {<<>>} \union (Nat \X (1 .. Recipients) \X (1 .. Segments) \X Callers)
Types ==
    /\ attempts \in [Callers -> Nat]
    /\ requests \subseteq Reqs
    /\ next_id \in Nat \ {0}
    /\ records \in [Live -> Recs]
    /\ Live = {i \in 1 .. next_id - 1 : next_id - i <= Keep}
    /\ jobs \in Seq(Nat) /\ \A k \in DOMAIN jobs : jobs[k] \in 1 .. next_id - 1
    /\ \A r \in requests : r.at = "submit" => r.rec \in 1 .. next_id - 1
    /\ link \in {"up", "down"} /\ sim \in BOOLEAN
    /\ current \in Currents /\ (current # <<>> => current[1] \in 1 .. next_id - 1)
    /\ copies \in [Callers -> [Units -> Nat]]
    /\ port_losses \in Nat /\ restarts \in Nat

\* A live record being worked on is sending, with exactly the segments before
\* the current one accepted: _do_send goes through them in order.  With that,
\* "submitted" after the last segment says the truth.
Before(u) == {v \in Units : v[1] < u[1] \/ (v[1] = u[1] /\ v[2] < u[2])}
Working ==
    /\ StateIsTruthful
    /\ current # <<>> /\ current[1] \in Live =>
          /\ records[current[1]].state = "sending"
          /\ records[current[1]].accepted = Before(Unit)
          /\ records[current[1]].caller = current[4]

\* Without the client in between, a key stands for its caller's one message.
ByCaller ==
    /\ \A r \in requests : r.key = <<r.caller, 0>>
    /\ \A i \in Live : records[i].key = <<records[i].caller, 0>>
\* While no key was lost, segments not yet sent are known: all of them for a
\* caller without a record or with a queued one, and those from the current
\* one on for the caller being served.  So no step sends one twice.
Untried(c) == {u \in Units : copies[c][u] = 0}
Safe ==
    /\ RetryIsSafe
    /\ KeysKept =>
          /\ \A c \in Callers : (\A i \in Live : records[i].caller # c) => Untried(c) = Units
          /\ \A i \in Live : records[i].state = "queued" => Untried(records[i].caller) = Units
          /\ current # <<>> => Units \ Before(Unit) \subseteq Untried(current[4])

\* Outbox.create keeps the newest Keep records, the new one among them.
LEMMA KeptAre ==
    ASSUME Types
    PROVE  Kept(Live \union {next_id}) = {i \in 1 .. next_id : next_id + 1 - i <= Keep}
<1> USE OutboundAssumption
<1> DEFINE n == next_id
           ids == Live \union {n}
<1>1. n \in Nat \ {0} /\ Live = {i \in 1 .. n - 1 : n - i <= Keep} /\ Keep \in Nat \ {0}
  BY DEF Types
<1> HIDE DEF n
<1>2. ASSUME NEW i \in ids
      PROVE  Cardinality({j \in ids : j >= i}) = n - i + 1
  <2>1. i \in 1 .. n /\ {j \in ids : j >= i} = i .. n
    BY <1>1
  <2>2. i \in Int /\ n \in Int /\ i <= n
    BY <1>1, <2>1
  <2>3. Cardinality(i .. n) = IF i > n THEN 0 ELSE n - i + 1
    BY <2>2, FS_Interval
  <2>4. ~(i > n)
    BY <2>2
  <2> QED BY <2>1, <2>3, <2>4
<1>3. Kept(ids) = {i \in ids : n - i + 1 <= Keep}
  BY <1>2 DEF Kept
<1>4. {i \in ids : n - i + 1 <= Keep} = {i \in 1 .. n : n + 1 - i <= Keep}
  BY <1>1
<1> QED BY <1>3, <1>4 DEF n

\* The outbox never holds more than Keep records.
LEMMA LiveBounded == Types => Cardinality(Live) <= Keep
<1> SUFFICES ASSUME Types PROVE Cardinality(Live) <= Keep
  OBVIOUS
<1> DEFINE n == next_id
           first == IF n - 1 > Keep THEN n - Keep ELSE 1
<1>1. n \in Nat \ {0} /\ Live = {i \in 1 .. n - 1 : n - i <= Keep} /\ Keep \in Nat \ {0}
  BY OutboundAssumption DEF Types
<1> HIDE DEF n
<1>2. Live = first .. n - 1 /\ first \in Int /\ n - 1 \in Int
  BY <1>1
<1>3. Cardinality(Live) = IF first > n - 1 THEN 0 ELSE n - 1 - first + 1
  <2> HIDE DEF first
  <2> QED BY <1>2, FS_Interval
<1> QED BY <1>1, <1>3

\* An empty outbox satisfies everything.
LEMMA Initially == Init => Types /\ IdempotencyIndex /\ Working /\ Safe
<1> SUFFICES ASSUME Init PROVE Types /\ IdempotencyIndex /\ Working /\ Safe
  OBVIOUS
<1>1. Live = {}
  BY DEF Init, Live
<1>2. Types
  <2>1. {i \in 1 .. next_id - 1 : next_id - i <= Keep} = {}
    BY DEF Init
  <2>2. copies \in [Callers -> [Units -> Nat]]
    BY DEF Init
  <2>3. records \in [Live -> Recs]
    BY DEF Init, Live
  <2> QED BY <1>1, <2>1, <2>2, <2>3 DEF Init, Types, Currents
<1>3. IdempotencyIndex
  BY <1>1 DEF Init, IdempotencyIndex
<1>4. Working
  BY <1>1 DEF Init, Working, StateIsTruthful
<1>5. Safe
  BY <1>1 DEF Init, Safe, RetryIsSafe, Untried
<1> QED BY <1>2, <1>3, <1>4, <1>5

\* Outbox.update changes the state of one record, and nothing else.
LEMMA RecordsSet ==
    ASSUME Types, NEW id, NEW state \in States, SetState(id, state)
    PROVE  /\ DOMAIN records' = Live /\ records' \in [Live -> Recs]
           /\ \A i \in Live \ {id} : records'[i] = records[i]
           /\ id \in Live =>
                 /\ records'[id].state = state /\ records'[id].accepted = records[id].accepted
                 /\ records'[id].key = records[id].key /\ records'[id].caller = records[id].caller
<1>1. /\ DOMAIN records' = Live /\ records' \in [Live -> Recs]
      /\ \A i \in Live \ {id} : records'[i] = records[i]
      /\ id \in Live => records[id] \in Recs /\ records'[id] = [records[id] EXCEPT !.state = state]
  BY DEF SetState, Types, Live, Recs
<1>2. \A x \in Recs : LET y == [x EXCEPT !.state = state] IN
        y.state = state /\ y.accepted = x.accepted /\ y.key = x.key /\ y.caller = x.caller
  BY DEF Recs
<1> QED BY <1>1, <1>2

\* An OK to AT+CMGS adds its segment to the current record, if it is live,
\* which is submitted after the last one.
LEMMA RecordsHeard ==
    ASSUME Types, Accepted
    PROVE  /\ DOMAIN records' = Live /\ records' \in [Live -> Recs]
           /\ \A i \in Live :
                IF i = current[1]
                THEN /\ records'[i].accepted = records[i].accepted \union {Unit}
                     /\ records'[i].state = IF LastUnit THEN "submitted" ELSE records[i].state
                     /\ records'[i].key = records[i].key /\ records'[i].caller = records[i].caller
                ELSE records'[i] = records[i]
<1> DEFINE id == current[1]
           heard == IF id \in Live THEN [records EXCEPT ![id].accepted = @ \union {Unit}] ELSE records
<1>1. Unit \in Units
  BY DEF Types, Currents, Unit, Units, Accepted
<1>2. heard \in [Live -> Recs] /\ \A i \in Live :
        IF i = id THEN heard[i] = [records[i] EXCEPT !.accepted = @ \union {Unit}] ELSE heard[i] = records[i]
  BY <1>1 DEF Types, Recs
<1>3. records' = IF LastUnit /\ id \in Live THEN [heard EXCEPT ![id].state = "submitted"] ELSE heard
  BY DEF Accepted
<1> HIDE DEF heard, id
<1>4. records' \in [Live -> Recs]
  BY <1>2, <1>3 DEF Recs, States, Terminal
<1>5. \A i \in Live : IF i = id /\ LastUnit THEN records'[i] = [heard[i] EXCEPT !.state = "submitted"]
                      ELSE records'[i] = heard[i]
  BY <1>2, <1>3
<1>6. ASSUME NEW i \in Live, i = id
      PROVE  /\ records'[i].accepted = records[i].accepted \union {Unit}
             /\ records'[i].state = IF LastUnit THEN "submitted" ELSE records[i].state
             /\ records'[i].key = records[i].key /\ records'[i].caller = records[i].caller
  <2>1. records[i] \in Recs
    BY DEF Types
  <2>2. heard[i] \in Recs /\ heard[i] = [records[i] EXCEPT !.accepted = @ \union {Unit}]
    BY <1>2, <1>6
  <2> QED BY <1>5, <1>6, <2>1, <2>2 DEF Recs
<1>7. DOMAIN records' = Live
  BY <1>4
<1>8. \A i \in Live : i # id => records'[i] = records[i]
  BY <1>2, <1>5
<1> QED BY <1>4, <1>6, <1>7, <1>8 DEF id

\* Outbox.create adds one queued record and keeps the others that stay.
LEMMA RecordMade ==
    ASSUME Types, NEW r \in requests, CreateNew(r)
    PROVE  /\ next_id' = next_id + 1
           /\ DOMAIN records' = {i \in 1 .. next_id : next_id + 1 - i <= Keep}
           /\ records' \in [DOMAIN records' -> Recs]
           /\ next_id \in DOMAIN records'
           /\ records'[next_id].caller = r.caller /\ records'[next_id].key = r.key
           /\ records'[next_id].state = "queued" /\ records'[next_id].accepted = {}
           /\ \A i \in DOMAIN records' \ {next_id} : i \in Live /\ records'[i] = records[i]
<1> USE DEF Types
<1> DEFINE ids == Kept(Live \union {next_id})
           new == [caller |-> r.caller, key |-> r.key, state |-> "queued", accepted |-> {}]
<1>1. records' = [i \in ids |-> IF i = next_id THEN new ELSE records[i]] /\ next_id' = next_id + 1
  BY DEF CreateNew
<1>2. ids = {i \in 1 .. next_id : next_id + 1 - i <= Keep}
  BY KeptAre
<1>3. next_id \in ids
  <2>1. next_id \in 1 .. next_id /\ next_id + 1 - next_id = 1 /\ 1 <= Keep
    BY OutboundAssumption
  <2> HIDE DEF ids
  <2> QED BY <1>2, <2>1
<1>4. new \in Recs
  BY DEF Reqs, Recs, States
<1>5. \A i \in ids \ {next_id} : i \in Live
  BY DEF Kept
<1>7. new.caller = r.caller /\ new.key = r.key /\ new.state = "queued" /\ new.accepted = {}
  OBVIOUS
<1> HIDE DEF new, ids
<1>6. records' \in [ids -> Recs]
  BY <1>1, <1>4, <1>5
<1> QED BY <1>1, <1>2, <1>3, <1>5, <1>6, <1>7

\* Every step preserves the types.
LEMMA TypesStep ==
    ASSUME Types, [Next]_vars
    PROVE  Types'
<1> USE OutboundAssumption DEF Types
<1>1. ASSUME NEW c \in Callers, Post(c)
      PROVE  Types'
  <2>1. attempts' \in [Callers -> Nat]
    BY <1>1 DEF Post
  <2>2. requests' \subseteq Reqs
    BY <1>1, <2>1 DEF Post, Reqs, Keys
  <2>3. \A r \in requests' : r.at = "submit" => r.rec \in 1 .. next_id - 1
    BY <1>1 DEF Post
  <2> QED BY <1>1, <2>1, <2>2, <2>3 DEF Post, outboxVars, faultVars, Live
<1>2. ASSUME NEW r \in requests, Answer(r)
      PROVE  Types'
  BY <1>2 DEF Answer, outboxVars, faultVars, Live
<1>3. ASSUME NEW r \in requests, NEW where \in {"create", "answer"}, At(r, where)
      PROVE  /\ requests' \subseteq Reqs
             /\ \A q \in requests' : q.at = "submit" => q.rec \in 1 .. next_id - 1
  BY <1>3 DEF At, Reqs
<1>4. ASSUME NEW r \in requests, Refuse(r) \/ Admit(r) \/ CreateReplay(r)
      PROVE  Types'
  BY <1>3, <1>4 DEF Refuse, Admit, CreateReplay, callerVars, outboxVars, faultVars, Live
<1>5. ASSUME NEW r \in requests, SubmitJob(r)
      PROVE  Types'
  <2>1. jobs' \in Seq(Nat) /\ \A k \in DOMAIN jobs' : jobs'[k] \in 1 .. next_id - 1
    BY <1>5 DEF SubmitJob, Reqs
  <2> QED BY <1>3, <1>5, <2>1 DEF SubmitJob, callerVars, outboxVars, faultVars, Live
<1>6. ASSUME NEW r \in requests, CreateNew(r)
      PROVE  Types'
  <2>1. requests' \subseteq Reqs /\ \A q \in requests' : q.at = "submit" => q.rec \in 1 .. next_id' - 1
    <3> DEFINE q == [r EXCEPT !.at = "submit", !.rec = next_id]
    <3>1. q \in Reqs /\ q.rec = next_id
      BY DEF Reqs
    <3>2. requests' = (requests \ {r}) \union {q} /\ next_id' = next_id + 1
      BY <1>6 DEF CreateNew
    <3> HIDE DEF q
    <3> QED BY <3>1, <3>2
  <2>2. jobs' \in Seq(Nat) /\ \A k \in DOMAIN jobs' : jobs'[k] \in 1 .. next_id' - 1
    BY <1>6 DEF CreateNew
  <2>3. current' \in Currents /\ (current' # <<>> => current'[1] \in 1 .. next_id' - 1)
    BY <1>6 DEF CreateNew
  <2>4. UNCHANGED <<attempts, link, sim, copies, port_losses, restarts>>
    BY <1>6 DEF CreateNew, callerVars, faultVars
  <2>5. /\ next_id' \in Nat \ {0} /\ records' \in [Live' -> Recs]
        /\ Live' = {i \in 1 .. next_id' - 1 : next_id' - i <= Keep}
    <3>1. next_id' = next_id + 1 /\ records' \in [DOMAIN records' -> Recs]
          /\ DOMAIN records' = {i \in 1 .. next_id : next_id + 1 - i <= Keep}
      BY <1>6, RecordMade
    <3>2. next_id' - 1 = next_id /\ next_id' \in Nat \ {0}
      <4>1. next_id \in Nat \ {0} /\ next_id' = next_id + 1
        BY <3>1
      <4> HIDE DEF Types
      <4> QED BY <4>1
    <3> QED BY <3>1, <3>2 DEF Live
  <2> QED BY <2>1, <2>2, <2>3, <2>4, <2>5
<1>7. CASE TakeJob
  <2>1. jobs' \in Seq(Nat) /\ \A k \in DOMAIN jobs' : jobs'[k] \in 1 .. next_id - 1
    <3>1. /\ jobs \in Seq(Nat) /\ jobs # <<>> /\ jobs' = Tail(jobs)
          /\ \A k \in DOMAIN jobs : jobs[k] \in 1 .. next_id - 1
      BY <1>7 DEF TakeJob
    <3> HIDE DEF Types
    <3>2. \A k \in DOMAIN Tail(jobs) : k + 1 \in DOMAIN jobs /\ Tail(jobs)[k] = jobs[k + 1]
      BY <3>1
    <3> QED BY <3>1, <3>2
  <2>2. Head(jobs) \in 1 .. next_id - 1
    BY <1>7 DEF TakeJob
  <2>3. Live' = Live /\ records' \in [Live -> Recs]
    BY <1>7, RecordsSet DEF TakeJob, Live, States, Terminal
  <2>4. current' \in Currents /\ (current' # <<>> => current'[1] \in 1 .. next_id - 1)
    BY <1>7, <2>2 DEF TakeJob, Currents, Recs
  <2> QED BY <1>7, <2>1, <2>3, <2>4 DEF TakeJob, callerVars, faultVars
<1>8. current # <<>> => Unit \in Units /\ current[4] \in Callers
  BY DEF Currents, Unit, Units
<1>9. ASSUME current # <<>>, OnAir
      PROVE  copies' \in [Callers -> [Units -> Nat]]
  BY <1>8, <1>9 DEF OnAir
<1>10. CASE Accepted
  <2>1. copies' \in [Callers -> [Units -> Nat]]
    BY <1>9, <1>10 DEF Accepted
  <2>2. Live' = Live /\ records' \in [Live -> Recs]
    BY <1>10, RecordsHeard DEF Live
  <2>3. current' \in Currents /\ (current' # <<>> => current'[1] \in 1 .. next_id - 1)
    <3>1. PICK i \in Nat, m \in 1 .. Recipients, n \in 1 .. Segments, c \in Callers :
            current = <<i, m, n, c>>
      BY <1>10 DEF Accepted, Currents
    <3>2. \/ current' = <<>>
          \/ n < Segments /\ current' = <<i, m, n + 1, c>>
          \/ n = Segments /\ m < Recipients /\ current' = <<i, m + 1, 1, c>>
      <4>1. current[1] = i /\ current[2] = m /\ current[3] = n /\ current[4] = c
        BY <3>1
      <4>2. LastUnit <=> m = Recipients /\ n = Segments
        BY <4>1 DEF LastUnit, Unit
      <4>3. current' = IF LastUnit THEN <<>>
                       ELSE IF n < Segments THEN [current EXCEPT ![3] = n + 1]
                       ELSE [current EXCEPT ![2] = m + 1, ![3] = 1]
        BY <1>10, <4>1 DEF Accepted
      <4>4. /\ [current EXCEPT ![3] = n + 1] = <<i, m, n + 1, c>>
            /\ [current EXCEPT ![2] = m + 1, ![3] = 1] = <<i, m + 1, 1, c>>
        BY <3>1
      <4> QED BY <4>2, <4>3, <4>4
    <3>3. current' \in Currents
      BY <3>2 DEF Currents
    <3>4. current' # <<>> => current'[1] = current[1]
      BY <3>1, <3>2
    <3> QED BY <1>10, <3>3, <3>4 DEF Accepted
  <2> QED BY <1>10, <2>1, <2>2, <2>3 DEF Accepted, callerVars, faultVars
<1>11. CASE Rejected \/ TimedOut
  <2>1. Live' = Live /\ records' \in [Live -> Recs]
    BY <1>11, RecordsSet DEF Rejected, TimedOut, Live, States, Terminal
  <2>2. copies' \in [Callers -> [Units -> Nat]]
    BY <1>9, <1>11 DEF Rejected, TimedOut
  <2> QED BY <1>11, <2>1, <2>2 DEF Rejected, TimedOut, callerVars, faultVars, Currents
<1>12. CASE PortLost
  <2>1. copies' \in [Callers -> [Units -> Nat]]
    BY <1>9, <1>12 DEF PortLost
  <2>2. port_losses' \in Nat /\ link' = "down" /\ current' = <<>>
        /\ UNCHANGED <<attempts, requests, records, next_id, jobs, sim, restarts>>
    BY <1>12 DEF PortLost, callerVars, outboxVars
  <2> QED BY <2>1, <2>2 DEF Live, Currents
<1>13. CASE Reconnect
  BY <1>13 DEF Reconnect, callerVars, outboxVars, faultVars, Live
<1>14. CASE Restart
  <2>1. {i \in 1 .. next_id' - 1 : next_id' - i <= Keep} = {}
    BY <1>14 DEF Restart
  <2>2. records' \in [DOMAIN records' -> Recs] /\ DOMAIN records' = {}
    BY <1>14 DEF Restart
  <2> QED BY <1>14, <2>1, <2>2 DEF Restart, callerVars, Live, Currents
<1>15. CASE UNCHANGED vars
  BY <1>15 DEF vars, callerVars, outboxVars, faultVars, Live
<1> QED BY <1>1, <1>2, <1>4, <1>5, <1>6, <1>7, <1>10, <1>11, <1>12, <1>13, <1>14, <1>15
        DEF Next, Handler, Worker

\* The worker adds, removes and relabels no record.
LEMMA WorkerKeeps ==
    ASSUME Types, Worker
    PROVE  /\ DOMAIN records' = Live /\ UNCHANGED <<idem, next_id, restarts, requests, port_losses>>
           /\ \A i \in Live : records'[i].key = records[i].key /\ records'[i].caller = records[i].caller
<1>1. ASSUME NEW id, NEW state \in States, SetState(id, state)
      PROVE  /\ DOMAIN records' = Live
             /\ \A i \in Live : records'[i].key = records[i].key /\ records'[i].caller = records[i].caller
  BY <1>1, RecordsSet
<1>2. CASE TakeJob
  BY <1>1, <1>2 DEF TakeJob, States, Terminal, faultVars, Live
<1>3. CASE Accepted
  BY <1>3, RecordsHeard DEF Accepted, faultVars
<1>4. CASE Rejected \/ TimedOut
  BY <1>1, <1>4 DEF Rejected, TimedOut, States, Terminal, faultVars
<1> QED BY <1>2, <1>3, <1>4 DEF Worker

\* Only a handler's create, the worker and a restart touch the outbox.
LEMMA OthersKeep ==
    ASSUME [Next]_vars
    PROVE  \/ Worker \/ Restart
           \/ \E r \in requests : CreateNew(r)
           \/ UNCHANGED <<outboxVars, restarts>>
BY DEF Next, Handler, Post, Answer, Refuse, Admit, CreateReplay, SubmitJob, PortLost, Reconnect, vars,
       faultVars

\* Every step preserves the index: a new record takes the key that led to
\* nothing, and an evicted record takes its key along.
LEMMA IndexStep ==
    ASSUME Types, IdempotencyIndex, [Next]_vars
    PROVE  IdempotencyIndex'
<1> USE DEF IdempotencyIndex
<1>1. CASE Worker
  BY <1>1, WorkerKeeps DEF Live
<1>2. CASE Restart
  BY <1>2 DEF Restart, Live
<1>3. ASSUME NEW r \in requests, CreateNew(r)
      PROVE  IdempotencyIndex'
  <2> DEFINE ids == Kept(Live \union {next_id})
  <2>1. /\ DOMAIN idem' = Indexed(ids, r.key) /\ r.key \notin DOMAIN idem
        /\ \A k \in DOMAIN idem' : idem'[k] = IF k = r.key THEN next_id ELSE idem[k]
    BY <1>3 DEF CreateNew
  <2>2. DOMAIN records' = ids
    BY <1>3 DEF CreateNew
  <2>7. /\ next_id \in DOMAIN records'
        /\ records'[next_id].key = r.key
        /\ \A i \in DOMAIN records' \ {next_id} : i \in Live /\ records'[i] = records[i]
    BY <1>3, RecordMade
  <2> HIDE DEF ids
  <2>3. /\ next_id \in ids /\ records'[next_id].key = r.key
        /\ \A i \in ids \ {next_id} : i \in Live /\ records'[i] = records[i]
    BY <2>2, <2>7
  <2>4. next_id \notin Live
    BY DEF Types
  <2> HIDE DEF ids
  <2>5. \A k \in DOMAIN idem' : idem'[k] \in ids /\ records'[idem'[k]].key = k
    BY <2>1, <2>3, <2>4 DEF Indexed
  <2>6. \A i \in ids : records'[i].key \in DOMAIN idem' /\ idem'[records'[i].key] = i
    BY <2>1, <2>3, <2>4 DEF Indexed
  <2> QED BY <2>2, <2>5, <2>6 DEF Live
<1>4. CASE UNCHANGED <<outboxVars, restarts>>
  BY <1>4 DEF outboxVars, Live
<1> QED BY <1>1, <1>2, <1>3, <1>4, OthersKeep

\* The order of submission: recipient by recipient, segment by segment.
LEMMA BeforeNext ==
    ASSUME NEW m \in 1 .. Recipients, NEW n \in 1 .. Segments
    PROVE  /\ Before(<<1, 1>>) = {}
           /\ <<m, n>> \in Units /\ <<m, n>> \notin Before(<<m, n>>)
           /\ n < Segments => Before(<<m, n + 1>>) = Before(<<m, n>>) \union {<<m, n>>}
           /\ n = Segments => Before(<<m + 1, 1>>) = Before(<<m, n>>) \union {<<m, n>>}
           /\ m = Recipients /\ n = Segments => Units = Before(<<m, n>>) \union {<<m, n>>}
<1> USE OutboundAssumption
<1>0. \A u \in Units : u[1] \in 1 .. Recipients /\ u[2] \in 1 .. Segments /\ u = <<u[1], u[2]>>
  BY DEF Units
<1>1. Before(<<1, 1>>) = {}
  BY <1>0 DEF Before
<1>2. <<m, n>> \in Units /\ <<m, n>> \notin Before(<<m, n>>)
  BY DEF Before, Units
<1>3. ASSUME n < Segments
      PROVE  Before(<<m, n + 1>>) = Before(<<m, n>>) \union {<<m, n>>}
  <2>1. \A u \in Units : u \in Before(<<m, n + 1>>) <=> u \in Before(<<m, n>>) \union {<<m, n>>}
    BY <1>0, <1>3 DEF Before
  <2> QED BY <2>1, <1>2 DEF Before
<1>4. ASSUME n = Segments
      PROVE  Before(<<m + 1, 1>>) = Before(<<m, n>>) \union {<<m, n>>}
  <2>1. \A u \in Units : u \in Before(<<m + 1, 1>>) <=> u \in Before(<<m, n>>) \union {<<m, n>>}
    BY <1>0, <1>4 DEF Before
  <2> QED BY <2>1, <1>2 DEF Before
<1>5. ASSUME m = Recipients, n = Segments
      PROVE  Units = Before(<<m, n>>) \union {<<m, n>>}
  BY <1>0, <1>2, <1>5 DEF Before
<1> QED BY <1>1, <1>2, <1>3, <1>4, <1>5

\* What is being submitted is a segment of a caller's message.
LEMMA AtWork ==
    ASSUME Types, current # <<>>
    PROVE  \E i \in Nat, m \in 1 .. Recipients, n \in 1 .. Segments, c \in Callers :
              /\ current = <<i, m, n, c>> /\ current[1] = i /\ current[4] = c
              /\ Unit = <<m, n>> /\ Unit \in Units
<1>1. PICK i \in Nat, m \in 1 .. Recipients, n \in 1 .. Segments, c \in Callers : current = <<i, m, n, c>>
  BY DEF Types, Currents
<1>2. current[1] = i /\ current[2] = m /\ current[3] = n /\ current[4] = c
  BY <1>1
<1> QED BY <1>1, <1>2 DEF Unit, Units

\* After an OK the worker is at the next segment, or done with all of them.
LEMMA NextUnit ==
    ASSUME Types, Accepted
    PROVE  /\ LastUnit => current' = <<>> /\ Before(Unit) \union {Unit} = Units
           /\ ~LastUnit => /\ current' # <<>> /\ current'[1] = current[1] /\ current'[4] = current[4]
                           /\ Before(Unit') = Before(Unit) \union {Unit}
<1>1. PICK i \in Nat, m \in 1 .. Recipients, n \in 1 .. Segments, c \in Callers :
         /\ current = <<i, m, n, c>> /\ current[1] = i /\ current[4] = c
         /\ Unit = <<m, n>> /\ Unit \in Units
  BY AtWork DEF Accepted
<1>2. current[2] = m /\ current[3] = n
  BY <1>1
<1>3. LastUnit <=> m = Recipients /\ n = Segments
  BY <1>1 DEF LastUnit
<1>4. current' = IF LastUnit THEN <<>>
                 ELSE IF n < Segments THEN [current EXCEPT ![3] = n + 1]
                 ELSE [current EXCEPT ![2] = m + 1, ![3] = 1]
  BY <1>2 DEF Accepted
<1>5. CASE LastUnit
  BY <1>1, <1>3, <1>4, <1>5, BeforeNext
<1>6. CASE ~LastUnit /\ n < Segments
  <2>1. current' = <<i, m, n + 1, c>>
    BY <1>1, <1>4, <1>6
  <2>2. Unit' = <<m, n + 1>> /\ current'[1] = i /\ current'[4] = c /\ current' # <<>>
    BY <2>1 DEF Unit
  <2> QED BY <1>1, <1>6, <2>2, BeforeNext
<1>7. CASE ~LastUnit /\ ~(n < Segments)
  <2>1. current' = <<i, m + 1, 1, c>>
    BY <1>1, <1>4, <1>7
  <2>2. Unit' = <<m + 1, 1>> /\ current'[1] = i /\ current'[4] = c /\ current' # <<>>
    BY <2>1 DEF Unit
  <2>3. n = Segments
    BY <1>7, OutboundAssumption
  <2> QED BY <1>1, <1>7, <2>2, <2>3, BeforeNext
<1> QED BY <1>5, <1>6, <1>7

\* Every step preserves the truth of the records' states.
LEMMA WorkingStep ==
    ASSUME Types, Types', Working, [Next]_vars
    PROVE  Working'
<1> USE DEF Working, StateIsTruthful
<1>1. CASE TakeJob
  <2> DEFINE id == Head(jobs)
  <2>1. current = <<>> /\ port_losses' = port_losses
    BY <1>1 DEF TakeJob, faultVars
  <2>2. CASE UNCHANGED <<records, current>>
    BY <2>1, <2>2 DEF Live
  <2>3. CASE id \in Live /\ records[id].state = "queued" /\ SetState(id, "failed") /\ UNCHANGED current
    <3>1. /\ DOMAIN records' = Live
          /\ \A i \in Live \ {id} : records'[i] = records[i]
          /\ records'[id].state = "failed"
      BY <2>3, RecordsSet DEF States, Terminal
    <3> QED BY <2>1, <2>3, <3>1 DEF Live
  <2>4. CASE /\ id \in Live /\ records[id].state = "queued" /\ SetState(id, "sending")
             /\ current' = <<id, 1, 1, records[id].caller>>
    <3>1. /\ DOMAIN records' = Live
          /\ \A i \in Live \ {id} : records'[i] = records[i]
          /\ records'[id].state = "sending" /\ records'[id].accepted = records[id].accepted
          /\ records'[id].caller = records[id].caller
      BY <2>4, RecordsSet DEF States, Terminal
    <3>2. records[id].accepted = {}
      BY <2>4
    <3>3. Before(Unit') = {}
      <4>1. Unit' = <<1, 1>>
        BY <2>4 DEF Unit
      <4>2. 1 \in 1 .. Recipients /\ 1 \in 1 .. Segments
        BY OutboundAssumption
      <4> QED BY <4>1, <4>2, BeforeNext
    <3>4. current'[1] = id /\ current'[4] = records[id].caller /\ current' # <<>>
      BY <2>4
    <3> QED BY <2>1, <3>1, <3>2, <3>3, <3>4 DEF Live
  <2> QED BY <1>1, <2>2, <2>3, <2>4 DEF TakeJob
<1>2. CASE Accepted
  <2>1. /\ DOMAIN records' = Live
        /\ \A i \in Live :
             IF i = current[1]
             THEN /\ records'[i].accepted = records[i].accepted \union {Unit}
                  /\ records'[i].state = IF LastUnit THEN "submitted" ELSE records[i].state
                  /\ records'[i].caller = records[i].caller
             ELSE records'[i] = records[i]
    BY <1>2, RecordsHeard
  <2>2. current # <<>> /\ port_losses' = port_losses
    BY <1>2 DEF Accepted, faultVars
  <2>3. current[1] \in Live => /\ records[current[1]].state = "sending"
                               /\ records[current[1]].accepted = Before(Unit)
                               /\ records[current[1]].caller = current[4]
    BY <2>2
  <2>4. CASE LastUnit
    <3>1. current' = <<>> /\ Before(Unit) \union {Unit} = Units
      BY <1>2, <2>4, NextUnit
    <3>2. current[1] \in Live => /\ records'[current[1]].state = "submitted"
                                 /\ records'[current[1]].accepted = Units
      BY <2>1, <2>3, <2>4, <3>1
    <3> QED BY <2>1, <2>2, <3>1, <3>2 DEF Live
  <2>5. CASE ~LastUnit
    <3>1. /\ current' # <<>> /\ current'[1] = current[1] /\ current'[4] = current[4]
          /\ Before(Unit') = Before(Unit) \union {Unit}
      BY <1>2, <2>5, NextUnit
    <3>2. current[1] \in Live => /\ records'[current[1]].state = "sending"
                                 /\ records'[current[1]].accepted = Before(Unit')
                                 /\ records'[current[1]].caller = current'[4]
      BY <2>1, <2>3, <2>5, <3>1
    <3> QED BY <2>1, <2>2, <3>1, <3>2 DEF Live
  <2> QED BY <2>4, <2>5
<1>3. ASSUME NEW state \in {"failed", "submission_unknown"}, current # <<>>,
             SetState(current[1], state), current' = <<>>, port_losses' = port_losses
      PROVE  Working'
  <2>1. /\ DOMAIN records' = Live
        /\ \A i \in Live \ {current[1]} : records'[i] = records[i]
        /\ current[1] \in Live => records'[current[1]].state = state
    BY <1>3, RecordsSet DEF States, Terminal
  <2> QED BY <1>3, <2>1 DEF Live
<1>4. CASE Rejected \/ TimedOut
  BY <1>3, <1>4 DEF Rejected, TimedOut, faultVars
<1>5. CASE PortLost
  <2>1. port_losses' > 0 /\ current' = <<>> /\ UNCHANGED records
    BY <1>5 DEF PortLost, outboxVars, Types
  <2> QED BY <2>1 DEF Live
<1>6. CASE Restart
  BY <1>6 DEF Restart, Live
<1>7. ASSUME NEW r \in requests, CreateNew(r)
      PROVE  Working'
  <2>1. /\ records'[next_id].state = "queued" /\ records'[next_id].accepted = {}
        /\ \A i \in DOMAIN records' \ {next_id} : i \in Live /\ records'[i] = records[i]
    BY <1>7, RecordMade
  <2>2. UNCHANGED <<current, port_losses>> /\ (current # <<>> => current[1] # next_id)
    BY <1>7 DEF CreateNew, faultVars, Types
  <2> QED BY <2>1, <2>2 DEF Live, Unit
<1>8. CASE UNCHANGED <<outboxVars, current, port_losses>>
  BY <1>8 DEF outboxVars, Live, Unit
<1>9. \/ Worker \/ PortLost \/ Restart \/ (\E r \in requests : CreateNew(r))
      \/ UNCHANGED <<outboxVars, current, port_losses>>
  BY DEF Next, Handler, Post, Answer, Refuse, Admit, CreateReplay, SubmitJob, Reconnect, vars, faultVars
<1> QED BY <1>1, <1>2, <1>4, <1>5, <1>6, <1>7, <1>8, <1>9 DEF Worker

\* Every step of direct callers keeps one key per caller.
LEMMA ByCallerStep ==
    ASSUME ~ViaClient, Types, ByCaller, [Next]_vars
    PROVE  ByCaller'
<1> USE DEF ByCaller
<1>1. CASE Worker
  BY <1>1, WorkerKeeps DEF Live
<1>2. CASE Restart
  BY <1>2 DEF Restart, Live
<1>3. ASSUME NEW r \in requests, CreateNew(r)
      PROVE  ByCaller'
  <2>1. \A q \in requests' : q.key = <<q.caller, 0>>
    <3> DEFINE q == [r EXCEPT !.at = "submit", !.rec = next_id]
    <3>1. q.key = r.key /\ q.caller = r.caller
      BY DEF Types, Reqs
    <3>2. requests' = (requests \ {r}) \union {q}
      BY <1>3 DEF CreateNew
    <3> HIDE DEF q
    <3> QED BY <3>1, <3>2
  <2>2. /\ records'[next_id].caller = r.caller /\ records'[next_id].key = r.key
        /\ \A i \in DOMAIN records' \ {next_id} : i \in Live /\ records'[i] = records[i]
    BY <1>3, RecordMade
  <2>3. \A i \in DOMAIN records' : records'[i].key = <<records'[i].caller, 0>>
    BY <2>2
  <2> QED BY <2>1, <2>3 DEF Live
<1>4. ASSUME UNCHANGED records, requests' \subseteq requests
      PROVE  ByCaller'
  BY <1>4 DEF Live
<1>5. ASSUME NEW c \in Callers, Post(c)
      PROVE  ByCaller'
  BY <1>5 DEF Post, outboxVars, Live
<1>6. ASSUME NEW r \in requests, NEW where \in {"create", "answer"}, At(r, where), UNCHANGED records
      PROVE  ByCaller'
  <2>1. [r EXCEPT !.at = where].key = r.key /\ [r EXCEPT !.at = where].caller = r.caller
    BY DEF Types, Reqs
  <2> QED BY <1>6, <2>1 DEF At, Live
<1>7. ASSUME NEW r \in requests, Refuse(r) \/ Admit(r) \/ CreateReplay(r) \/ SubmitJob(r)
      PROVE  ByCaller'
  BY <1>6, <1>7 DEF Refuse, Admit, CreateReplay, SubmitJob, outboxVars
<1>8. CASE PortLost \/ Reconnect \/ UNCHANGED vars \/ \E r \in requests : Answer(r)
  BY <1>4, <1>8 DEF PortLost, Reconnect, vars, Answer, outboxVars
<1> QED BY <1>1, <1>2, <1>3, <1>5, <1>7, <1>8 DEF Next, Handler

\* The strengthened invariants: of any callers, and of direct ones.
Inv == Types /\ IdempotencyIndex /\ Working
SafeInv == Inv /\ ByCaller /\ Safe

\* A caller has at most one record.
LEMMA OneRecordEach ==
    ASSUME IdempotencyIndex, ByCaller, NEW i \in Live, NEW j \in Live,
           records[i].caller = records[j].caller
    PROVE  i = j
BY DEF IdempotencyIndex, ByCaller

\* While no key was lost, a segment that goes on air was never sent before.
LEMMA CopySent ==
    ASSUME SafeInv, KeysKept, current # <<>>, OnAir, NEW c, c = current[4]
    PROVE  /\ c \in Callers /\ current[1] \in Live /\ records[current[1]].caller = c
           /\ \A d \in Callers, u \in Units : copies'[d][u] <= 1
           /\ \A d \in Callers \ {c} : Untried(d)' = Untried(d)
           /\ Untried(c)' = Untried(c) \ {Unit}
           /\ \A j \in Live : records[j].state = "queued" => records[j].caller # c
<1> USE DEF SafeInv, Inv
<1>1. c \in Callers /\ Unit \in Units /\ Unit \notin Before(Unit)
  BY AtWork, BeforeNext
<1>2. current[1] \in Live /\ records[current[1]].caller = c /\ records[current[1]].state = "sending"
  <2>1. current[1] \in 1 .. next_id - 1 /\ next_id - 1 <= Keep /\ next_id \in Nat
    BY DEF Types, KeysKept
  <2>2. current[1] \in Live
    BY <2>1, OutboundAssumption DEF Types
  <2> QED BY <2>2 DEF Working
<1>3. Unit \in Untried(c)
  BY <1>1 DEF Safe
<1>4. /\ \A d \in Callers \ {c} : copies'[d] = copies[d]
      /\ \A u \in Units \ {Unit} : copies'[c][u] = copies[c][u]
      /\ copies'[c][Unit] = 1
  BY <1>1, <1>3 DEF OnAir, Untried, Types
<1>5. \A d \in Callers, u \in Units : copies[d][u] <= 1
  BY DEF Safe, RetryIsSafe
<1>6. \A d \in Callers, u \in Units : copies'[d][u] <= 1
  BY <1>4, <1>5
<1>7. \A d \in Callers \ {c} : Untried(d)' = Untried(d)
  BY <1>4 DEF Untried
<1>8. Untried(c)' = Untried(c) \ {Unit}
  <2>1. \A u \in Units : copies'[c][u] = 0 <=> copies[c][u] = 0 /\ u # Unit
    BY <1>4
  <2> QED BY <2>1 DEF Untried
<1>9. \A j \in Live : records[j].state = "queued" => records[j].caller # c
  BY <1>2, OneRecordEach
<1> QED BY <1>1, <1>2, <1>6, <1>7, <1>8, <1>9

\* Every step preserves it.
LEMMA SafeStep ==
    ASSUME SafeInv, Types', [Next]_vars
    PROVE  Safe'
<1> USE DEF SafeInv, Inv
<1>1. SUFFICES ASSUME KeysKept' PROVE Safe'
  BY DEF Safe, RetryIsSafe
<1> USE DEF Safe, RetryIsSafe
<1>2. CASE Restart
  BY <1>1, <1>2 DEF Restart, KeysKept, Types
<1>3. KeysKept
  <2>1. CASE Worker
    BY <1>1, <2>1, WorkerKeeps DEF KeysKept
  <2>2. ASSUME NEW r \in requests, CreateNew(r)
        PROVE  KeysKept
    BY <1>1, <2>2, OutboundAssumption DEF KeysKept, CreateNew, Types, faultVars
  <2>3. CASE Restart
    BY <1>1, <2>3 DEF Restart, KeysKept, Types
  <2> QED BY <1>1, <2>1, <2>2, <2>3, OthersKeep DEF KeysKept, outboxVars
<1>4. ASSUME NEW r \in requests, CreateNew(r)
      PROVE  Safe'
  <2>1. UNCHANGED <<copies, current>>
    BY <1>4 DEF CreateNew
  <2>2. /\ next_id \in DOMAIN records'
        /\ records'[next_id].caller = r.caller
        /\ \A i \in DOMAIN records' \ {next_id} : i \in Live /\ records'[i] = records[i]
    BY <1>4, RecordMade
  <2>3. Live \subseteq DOMAIN records'
    <3>1. DOMAIN records' = {i \in 1 .. next_id : next_id + 1 - i <= Keep}
      BY <1>4, RecordMade
    <3>2. next_id \in Nat /\ next_id <= Keep
      BY <1>1, <1>4 DEF KeysKept, CreateNew, Types
    <3> QED BY <3>1, <3>2, OutboundAssumption DEF Types
  <2>4. \A i \in Live : records[i].caller # r.caller
    BY <1>4 DEF IdempotencyIndex, ByCaller, CreateNew
  <2>5. r.caller \in Callers
    BY DEF Types, Reqs
  <2>6. next_id \notin Live
    BY DEF Types
  <2>7. \A i \in DOMAIN records' : records'[i].state = "queued" => Untried(records'[i].caller) = Units
    BY <1>3, <2>2, <2>4, <2>5
  <2>8. \A c \in Callers : (\A i \in DOMAIN records' : records'[i].caller # c) => Untried(c) = Units
    BY <1>3, <2>2, <2>3, <2>6
  <2> QED BY <1>3, <2>1, <2>7, <2>8 DEF Live, Untried, Unit
<1>5. ASSUME UNCHANGED <<copies, records>>, current' \in {<<>>, current}
      PROVE  Safe'
  BY <1>3, <1>5 DEF Live, Untried, Unit
<1>6. ASSUME DOMAIN records' = Live, UNCHANGED copies,
             \A i \in Live : records'[i].caller = records[i].caller
                             /\ (records'[i].state = "queued" => records[i].state = "queued"),
             current' # <<>> => Untried(current'[4]) = Units
      PROVE  Safe'
  BY <1>3, <1>6 DEF Live, Untried
<1>7. CASE TakeJob
  <2> DEFINE id == Head(jobs)
  <2>1. current = <<>> /\ UNCHANGED copies
    BY <1>7 DEF TakeJob
  <2>2. CASE UNCHANGED <<records, current>>
    BY <2>1, <2>2, <1>5
  <2>3. ASSUME NEW state \in {"failed", "sending"}, id \in Live, records[id].state = "queued",
               SetState(id, state), current' \in {<<>>, <<id, 1, 1, records[id].caller>>}
        PROVE  Safe'
    <3>1. /\ DOMAIN records' = Live
          /\ \A i \in Live \ {id} : records'[i] = records[i]
          /\ records'[id].state = state /\ records'[id].caller = records[id].caller
      BY <2>3, RecordsSet DEF States, Terminal
    <3>2. Untried(records[id].caller) = Units
      BY <1>3, <2>3
    <3>3. current' # <<>> => current'[4] = records[id].caller
      BY <2>3
    <3> QED BY <1>6, <2>1, <2>3, <3>1, <3>2, <3>3
  <2> QED BY <1>7, <2>1, <2>2, <2>3 DEF TakeJob
<1>8. ASSUME current # <<>>, OnAir, DOMAIN records' = Live,
             \A i \in Live : records'[i].caller = records[i].caller
                             /\ (records'[i].state = "queued" => records[i].state = "queued"),
             current' # <<>> => /\ current'[4] = current[4]
                                /\ Units \ Before(Unit') \subseteq (Units \ Before(Unit)) \ {Unit}
      PROVE  Safe'
  <2> PICK c : c = current[4]
    OBVIOUS
  <2>1. /\ c \in Callers /\ current[1] \in Live /\ records[current[1]].caller = c
        /\ \A d \in Callers, u \in Units : copies'[d][u] <= 1
        /\ \A d \in Callers \ {c} : Untried(d)' = Untried(d)
        /\ Untried(c)' = Untried(c) \ {Unit}
        /\ \A j \in Live : records[j].state = "queued" => records[j].caller # c
    BY <1>3, <1>8, CopySent
  <2>2. \A i \in Live : records[i].caller \in Callers
    BY DEF Types, Recs
  <2>3. \A d \in Callers : (\A i \in Live : records'[i].caller # d) => Untried(d)' = Units
    BY <1>3, <1>8, <2>1
  <2>4. \A i \in Live : records'[i].state = "queued" => \E d \in Callers \ {c} :
                           records'[i].caller = d /\ Untried(d)' = Units
    BY <1>3, <1>8, <2>1, <2>2
  <2>6. \A i \in Live : (records[i].state = "queued" => Untried(records[i].caller) = Units)'
    BY <2>4 DEF Untried
  <2>5. current' # <<>> => Units \ Before(Unit') \subseteq Untried(c)'
    BY <1>3, <1>8, <2>1
  <2>8. current' # <<>> => (Units \ Before(Unit) \subseteq Untried(current[4]))'
    BY <1>8, <2>1, <2>5 DEF Untried
  <2>9. DOMAIN records' = Live
    BY <1>8
  <2>10. (\A d \in Callers : (\A i \in Live : records[i].caller # d) => Untried(d) = Units)'
    BY <2>3, <2>9 DEF Live
  <2>11. (\A i \in Live : records[i].state = "queued" => Untried(records[i].caller) = Units)'
    BY <2>6, <2>9 DEF Live
  <2>12. (RetryIsSafe)'
    BY <2>1
  <2> QED BY <2>8, <2>10, <2>11, <2>12
<1>9. CASE Accepted
  <2>1. /\ DOMAIN records' = Live
        /\ \A i \in Live : records'[i].caller = records[i].caller
                           /\ (records'[i].state = "queued" => records[i].state = "queued")
    BY <1>9, RecordsHeard
  <2>2. current' # <<>> => /\ current'[4] = current[4]
                           /\ Units \ Before(Unit') \subseteq (Units \ Before(Unit)) \ {Unit}
    BY <1>9, NextUnit
  <2> QED BY <1>8, <1>9, <2>1, <2>2 DEF Accepted
<1>10. CASE Rejected \/ TimedOut
  <2>1. PICK state \in {"failed", "submission_unknown"} : SetState(current[1], state)
    BY <1>10 DEF Rejected, TimedOut
  <2>2. /\ DOMAIN records' = Live
        /\ \A i \in Live : records'[i].caller = records[i].caller
                           /\ (records'[i].state = "queued" => records[i].state = "queued")
    BY <2>1, RecordsSet DEF States, Terminal
  <2>3. current # <<>> /\ current' = <<>> /\ (OnAir \/ UNCHANGED copies)
    BY <1>10 DEF Rejected, TimedOut
  <2> QED BY <1>6, <1>8, <2>2, <2>3
<1>11. CASE PortLost
  <2>1. UNCHANGED records /\ current' = <<>> /\ (UNCHANGED copies \/ (current # <<>> /\ OnAir))
    BY <1>11 DEF PortLost, outboxVars
  <2> QED BY <1>5, <1>8, <2>1 DEF Live
<1>12. CASE UNCHANGED <<outboxVars, current, copies>>
  BY <1>5, <1>12 DEF outboxVars
<1>13. \/ Worker \/ PortLost \/ Restart \/ (\E r \in requests : CreateNew(r))
       \/ UNCHANGED <<outboxVars, current, copies>>
  BY DEF Next, Handler, Post, Answer, Refuse, Admit, CreateReplay, SubmitJob, Reconnect, vars
<1> QED BY <1>2, <1>4, <1>7, <1>9, <1>10, <1>11, <1>12, <1>13 DEF Worker

\* Both hold in every reachable state.
LEMMA Always == Spec => []Inv
<1>1. Init => Inv
  BY Initially DEF Inv
<1>2. Inv /\ [Next]_vars => Inv'
  BY TypesStep, IndexStep, WorkingStep DEF Inv
<1> QED BY <1>1, <1>2, PTL DEF Spec

\* Always, for direct callers: no segment the network took is still to be sent.
LEMMA AlwaysSafe ==
    ASSUME ~ViaClient
    PROVE  Spec => []SafeInv
<1>1. Init => SafeInv
  <2>1. Init => ByCaller
    BY DEF Init, ByCaller, Live
  <2> QED BY <2>1, Initially DEF SafeInv, Inv
<1>2. SafeInv /\ [Next]_vars => SafeInv'
  <2> SUFFICES ASSUME SafeInv, [Next]_vars PROVE SafeInv'
    OBVIOUS
  <2>1. Types' /\ IdempotencyIndex' /\ Working' /\ ByCaller'
    BY TypesStep, IndexStep, WorkingStep, ByCallerStep DEF SafeInv, Inv
  <2>2. Safe'
    BY <2>1, SafeStep
  <2> QED BY <2>1, <2>2 DEF SafeInv, Inv
<1> QED BY <1>1, <1>2, PTL DEF Spec

\* TypeOK: handlers, records and jobs are well formed, and the outbox holds at
\* most Keep records (outbox.py create).
THEOREM TypeInvariant == Spec => []TypeOK
<1>1. Inv => TypeOK
  <2> SUFFICES ASSUME Inv PROVE TypeOK
    OBVIOUS
  <2>1. Types
    BY DEF Inv
  <2>2. Cardinality(Live) <= Keep
    BY <2>1, LiveBounded
  <2>3. current # <<>> => Unit \in Units
    BY <2>1, AtWork
  <2>4. Live \subseteq 1 .. next_id - 1
    BY <2>1 DEF Types
  <2>5. \A i \in Live : records[i].state \in States /\ records[i].accepted \subseteq Units
    BY <2>1 DEF Types, Recs
  <2>6. \A r \in requests : r.caller \in Callers /\ r.at \in {"check", "create", "submit", "answer"}
    BY <2>1 DEF Types, Reqs
  <2> QED BY <2>1, <2>2, <2>3, <2>4, <2>5, <2>6 DEF TypeOK, Types
<1> QED BY <1>1, Always, PTL

\* IdempotencyIndex: keys and records lead to each other, through concurrent
\* posts, eviction and restarts (outbox.py:24-25, 41-44).
THEOREM IndexSound == Spec => []IdempotencyIndex
<1>1. Inv => IdempotencyIndex
  BY DEF Inv
<1> QED BY <1>1, Always, PTL

\* StateIsTruthful: a record that says "submitted" had every segment accepted
\* for every recipient, a queued one none (worker.py _do_send, outbox.py).
THEOREM RecordsTellTheTruth == Spec => []StateIsTruthful
<1>1. Inv => StateIsTruthful
  BY DEF Inv, Working
<1> QED BY <1>1, Always, PTL

\* RetryIsSafe: a direct caller that posts again with its key never sends a
\* segment twice, as long as the key is in memory (api.py _send_message,
\* PLAN.md:276-278).  The client's send API makes a new key for each request
\* (sendapi.py _forward): there the promise does not hold, and is not meant.
THEOREM RetriesAreSafe ==
    ASSUME ~ViaClient
    PROVE  Spec => []RetryIsSafe
<1>1. SafeInv => RetryIsSafe
  BY DEF SafeInv, Safe
<1> QED BY <1>1, AlwaysSafe, PTL

\* FinalStaysFinal: no step changes a record in a final state, until it is
\* evicted or the server restarts (outbox.py:4, worker.py _do_send).
THEOREM FinalIsFinal == Spec => FinalStaysFinal
<1> DEFINE FinalKept == restarts' = restarts =>
               \A i \in Live \cap DOMAIN records' :
                   records[i].state \in Terminal => records'[i] = records[i]
<1>1. ASSUME Inv, [Next]_vars
      PROVE  FinalKept
  <2>1. ASSUME NEW id, NEW state \in States, SetState(id, state),
               id \in Live => records[id].state \in {"queued", "sending"}
        PROVE  FinalKept
    BY <1>1, <2>1, RecordsSet DEF Inv, Terminal
  <2>2. current # <<>> /\ current[1] \in Live => records[current[1]].state = "sending"
    BY <1>1 DEF Inv, Working
  <2>3. CASE TakeJob
    <3>1. CASE UNCHANGED records
      BY <3>1
    <3>2. CASE \E state \in {"failed", "sending"} :
                  SetState(Head(jobs), state) /\ records[Head(jobs)].state = "queued"
      BY <2>1, <3>2 DEF States, Terminal
    <3> QED BY <2>3, <3>1, <3>2 DEF TakeJob
  <2>4. CASE Accepted
    <3>1. \A i \in Live : i # current[1] => records'[i] = records[i]
      BY <1>1, <2>4, RecordsHeard DEF Inv
    <3> QED BY <2>2, <2>4, <3>1 DEF Accepted, Terminal
  <2>5. CASE Rejected \/ TimedOut
    <3>1. PICK state \in {"failed", "submission_unknown"} : SetState(current[1], state)
      BY <2>5 DEF Rejected, TimedOut
    <3>2. current # <<>> /\ state \in States
      BY <2>5 DEF Rejected, TimedOut, States, Terminal
    <3> QED BY <2>1, <2>2, <3>1, <3>2
  <2>6. CASE Restart
    BY <1>1, <2>6 DEF Restart, Inv, Types
  <2>7. ASSUME NEW r \in requests, CreateNew(r)
        PROVE  FinalKept
    <3>1. \A i \in DOMAIN records' \ {next_id} : records'[i] = records[i]
      BY <1>1, <2>7, RecordMade DEF Inv
    <3>2. next_id \notin Live
      BY <1>1 DEF Inv, Types
    <3> QED BY <3>1, <3>2
  <2>8. CASE UNCHANGED records
    BY <2>8
  <2> QED BY <1>1, <2>3, <2>4, <2>5, <2>6, <2>7, <2>8, OthersKeep DEF Worker, outboxVars
<1>2. Inv /\ [Next]_vars => [FinalKept]_vars
  BY <1>1
<1> QED BY <1>2, Always, PTL DEF Spec, FinalStaysFinal
=============================================================================
