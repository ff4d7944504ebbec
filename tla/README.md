# generic-text-gateway in TLA+

The gateway gives the network side of an SMS modem to programs. A **server** (`src/server/gtg_server`) owns the
modem through one worker thread, keeps what comes in until somebody received it, fans it out over Server-Sent Events
and takes outgoing messages over HTTP. A **client** (`src/client/gtg_client`) subscribes, posts one Home Assistant
event per SMS and forwards outgoing messages. Its promises (`src/PLAN.md` chapters 3.5-3.7 and 4.1) are of the kind
tests hardly reach: nothing leaves the SIM unseen, nothing is sent or fired twice, whatever is lost is announced.

These modules state those promises and check them against the code, handler by handler.

## 1. Inventory

### Components, their state and operations

| Component | Source | State | Operations |
|---|---|---|---|
| Broadcast hub and SSE sessions | `hub.py`, `api.py` `_subscribe` | stream id, next id, replay ring, pending messages, subscribers with a bounded queue each, subscriber count | publish, broadcast, offer, subscribe with replay, write, confirm, unsubscribe |
| Inbound path of the modem worker | `modem/worker.py`, `modem/receive.py` | modem storage, sets being reassembled, seen hashes, delete jobs | notification, CMGL scan, CMGR sweep, assemble, publish, flush, CMGD |
| Outbound path | `api.py` `_send_message`, `outbox.py`, `worker.py` `_do_send`, client `sendapi.py` | records, idempotency index, job queue | post, create or replay, evict, submit segment by segment, update state |
| Client relay | `relay.py`, `state.py` | `state.json`: stream id, cursor, journal of hashes | connect, hello, message, gap, mark, fire, advance |
| File store | `store.py` | `stream.json`, `inbox/`, `outbox/` and their indexes | save, load, replay, history |
| AT port | `modem/at.py` | serial buffer, the call stack of `execute` | execute, prompt and payload, drain, callback |
| SIM unlock | `worker.py` `_unlock_sim`, `_do_pin`, `api.py` `_sim_pin`, `modem/sim.py` | two attempt counters, the published SIM state, PIN jobs | configured PIN, runtime PIN, time limit |
| Authorisation, rate limit, login backoff | `auth.py`, `api.py` `_authorize`, `_any_scope` | window of charged segments, table of failed logins | ask, evaluate, fail, succeed, charge |
| SMS codec | `modem/sms_codec.py`, `modem/receive.py` `Assembler` | sets of segments under their key | split, pack, encode, decode, reassemble, flush |
| Certificate pinning | client `pinned_http.py` | the pin file and its temporary file | handshake, compare, trust on first use |
| Discovery, mode switch, TLS files, configuration, web UI | the other files | none that lasts | sequential I/O and formatting |

### How they interact

- The **worker thread** is the only one that touches the serial port. HTTP threads give it jobs through a queue; it
  calls `hub.publish` and `hub.broadcast`. `ATPort.execute` may call back into the worker when it reads a notification.
- **One HTTP thread per SSE connection** takes from its queue, writes to the socket and then calls
  `hub.confirm_delivered`. The first confirmation of a pending message calls `worker.request_delete`, a job that deletes
  the message's SIM slots. With a store the worker deletes them itself once the message is saved.
- **HTTP threads for sending** create a record in the outbox and queue a job; the worker updates the record.
- The **client** is a subscriber with a durable cursor and a journal; its event posts go to Home Assistant. Its threads
  verify the server's certificate by one pin file before they send a request.
- **Every request** passes the backoff and the credential check; sending passes the rate limit, too.

### What is hard, and what makes each part correct

- *Hub*: the fan-out runs outside the lock while handlers subscribe, drain, fail and leave. Correct: no message is let
  go of before somebody was written it; released once; each session in order and without silent holes.
- *Inbound*: the network stores messages, subscribers confirm them and the modem frees slots between any two commands;
  messages come in parts, twice, in any slot; commands fail, nest in one another and take each other's answers. Correct:
  nothing leaves the SIM unseen, everything on it is eventually seen, and it does not fill up.
- *Outbound*: two threads share records; answers are lost; submissions are ambiguous. Correct: the index and the states
  tell the truth, nothing is sent twice, every record settles.
- *Relay*: both sides crash and restart; the same SMS returns under another id. Correct: fired at most once, one fault
  drops at most one message, the cursor passes over nothing, the client catches up.
- *Store*: several files per message, a crash between any two. Correct: durable before deleted, ids never given twice.
- *AT port*: answers carry no mark of their command. Correct: outcomes agree with what the modem did.
- *SIM unlock*: three wrong attempts lock a card for good, and attempts come from two sides. Correct: caps hold.
- *Codec*: two alphabets, septets packed across octets, characters of two codes, headers of two lengths. Correct: a PDU
  holds what it announces, and what is put together is what was sent.
- *Access*: the backoff's question, the slow evaluation and the result are three steps; the clock is read before the
  lock; first connections write one file without a lock. Correct: the limits hold however handlers overtake each other,
  and an unchanged certificate is neither refused nor left unverified for ever.

## 2. Plan

Order of work, the most important behaviour first; (done) marks what the modules here contain.

1. `DeliveryContract`, `Hub`: delivery to subscribers, and its abstract specification (done, with proofs).
2. `Inbound`: SIM to subscriber and off the SIM, with direct delivery and text mode (done). It uses the hub as its
   contract describes it: deliver, release.
3. `Outbound` (done), 4. `Relay` (done; it composes the client with the hub's session), 5. `SimPin` (done), 6. `Store`
   (done), 7. `AtPort` (done).
8. `SmsCodec` (done): segment boundaries, packing, reassembly, against the text that was sent.
9. `Tofu`, `Gate` and their composition `Access` (done): who gets to talk to whom.
10. `Gateway`: `Inbound`, `Hub` and `Relay` composed, from the SIM to the fired event (not done).
11. An abstract specification of the outbox (a record's life) and of the relay (at-most-once firing), with
    refinements (not done).

Theorems, in order of worth (section 5 has the arguments), all done: `Hub` type correctness, release safety, admission,
refinement of the contract, order and holes of a session; `Inbound` losses and direct delivery; `Outbound` index,
states, retries, final states; `Relay` firing, drops and cursor; `SimPin` caps and the state it publishes; `Store` all
its invariants; `Access` rate limit, backoff and pin; `AtPort` outcomes and order of answers; `SmsCodec` packing, sizes and
reassembly. With these every invariant and action property of the passing runs has a theorem.

No module here declares a RECURSIVE operator, and constants have named assumptions, so every module can be proved about.

## 3. The modules

**`DeliveryContract`** - what the hub promises without a store: a published id is outstanding until it was delivered and,
in the same step that ends this, once, given to the delete hook. `Hub` implements it under `published <- Ids`,
`outstanding <- pending`, `released <- delete_jobs`.

**`Hub`** - one step per critical section and per access to shared state outside the lock. The worker's fan-out is
`Publish`/`Broadcast` (lock, snapshot of the subscribers in `todo`) followed by the steps of `Subscriber.offer`:
`OfferPut`, `OfferDiscard`, or `OfferGap`, `OfferDrop`, `OfferMark`. A handler is `Admit`, `Subscribe` (the whole
critical section with replay, sorting and the offers to the fresh queue), `Take`, `WriteOk`, `Confirm`,
`ConnectionLost`, `Unsubscribe`, `Leave`. `Restart` keeps stream and ids only with a store. History variables:
`delivered`, `got` (what this connection was written), `base` (where its session begins).

**`Inbound`** - the modem's slots, the `line` (what the modem sent and the worker has not read) and the worker's call
`stack`. A frame is a call of `execute` that waits for its answer, or what is left of a loop: the indices of
`_delete_indices`, the entries of a listing, the indices of a CMGR sweep. `Execute` writes a command, and the modem
performs, refuses or ignores it; the innermost call takes the next answer on the line, of whatever command it is
(`CallAnswered`, `CmgrAnswered`, `CmglAnswered`, `CpmsAnswered`), and `TimedOut` leaves an answer to be taken by a
later one. `Notified` is `_on_urc` with a `+CMTI`, in a drain or inside a command without `collect_extra`, where it
nests. `Header`, `AfterHeader` and `Skipped` are the two lines of a direct delivery and the flag `cmt_pending`
between them. The loops take one command or one text at a time: `DeleteNext`, `EntryRead` (`Process`: decode,
assemble, publish, error path; text mode: each part by itself), `SweepBegun`, `SweepRead`, `FlushNext`. The serve loop
is `Scan`, `OtherCommand` (setup, health queries, `AT+CMGS`), `DeleteJob`, `Flush` (which takes all stale sets out of
the assembler at once); failures are `LinkLost`, `Reconnect`, `Restart`, and `PublishFails`, a save that raises. A
published *text* is a message with the parts it was put together from, which is all that its hash tells apart. `Configs`
are the modems, files, kinds of faults and bounds a run explores; one of them is chosen in `Init` and kept in `cfg`.

**`Outbound`** - `Post`/`Answer` for callers (`ViaClient` says whether the client's send API makes a new key for each
request), handler threads as records that go from check to create to submit to answer, and the worker: `TakeJob`,
`Accepted`, `Rejected`, `TimedOut`, `PortLost`. `copies` counts what the network took.

**`Relay`** - `run_inbound` step by step against a server session: `Connect`, `ReadHello`, `ReadGap`, `ReadMessage`
(journal check, mark, fire), `Fire`, `FireAmbiguous`, `FireReset`, `FireRaises`, `Advance`, `ClientCrash`. A message is
its hash; after a restart without a store the server reads it from the SIM under another id. `Configs` are servers and
clients (store, first run, sizes); `since` is where the session of a client without a cursor began, and `lost` the ids
that a full queue dropped in a session that was told so by a gap marker.

**`Store`** - each file write is a step; a file is written aside, synced and renamed. `undo` holds the files before a
rename that no later sync committed, which a power loss may bring back. The client of this module is told all that a
subscription replays at once.

**`AtPort`** - the stack of nested `execute` calls, the serial line, and a modem that works in order and answers each
command with one final line. `OtherLine` is the callback: `AT+CMGR` inside a command, then perhaps `AT+CMGD` inside.

**`SimPin`** - handler threads (`CheckCap`, `CheckSim`, `Submit`, `GiveUp`), the worker (`Unlock`, `EnvPin`, `Asked`,
`DoPin`, `EnterPin`, `Entered`, `SetUp`), and the card (`Attempt`), which may be exchanged (`Replug`) or answer
`AT+CPIN?` with an error while it starts (`Ask`), after which the worker never asks it again.

**`SmsCodec`** - pure operators with the names of the code (`to_septets`, `pack_septets`, `build_submit_pdus`,
`decode_deliver`, ...) over characters that are their GSM codes and UTF-16 units, and a small state machine around them:
`Send`, `Receive` (any segment, any order; `Read` is the decoder, `Add` the assembler), `Flush`. User data are octets,
packed bit by bit. `SplitsToFit` and `DecodesBack` say what segmentation and decoding do with each text in play.

**`Tofu`** - the steps of `connect` and `_store_tofu` for each thread of the client (`Handshake`, `Load`, `OpenTmp`,
`WriteTmp`, `Replace`, `Retry`) over files as names for inodes, with `Crash` and `Rotate` (a new certificate).
**`Gate`** - a handler's way through `_any_scope` or `_authorize` (`AnyAsk`, `AnyCheck`, `AnyOk`, `Ask`, `Check`, `Fail`,
`Ok`) and through `RateLimit.allow` (`ReadClock`, `Charge`, `Unlimited`), with a clock (`Tick`). **`Access`** composes the
two: a client thread sends a request only over a connection it verified (`Request`), other programs send theirs from the
same address or another (`OtherRequest`). `Scenarios` are the bounds that go together in one behaviour.

**`HubProofs`, `InboundProofs`, `OutboundProofs`, `RelayProofs`, `SimPinProofs`, `StoreProofs`, `AccessProofs`** - theorems
about the modules they are named for; **`ModemProofs`** - about `AtPort` and `SmsCodec`. Section 5.

The `MC*` modules give the constants values for TLC and name the symmetry sets. Operators commented *(Bug: ...)* stand
before the definition they vary. No specification uses them: each describes a mistake somebody could make in the code,
and replacing the definition by it must make TLC report the property that is there to catch the mistake.

## 4. The runs

| Run | Instance | States | Properties |
|---|---|---|---|
| `hub_ram` | 2 connections, queue 2, ring 1, 2 ids, 1 health event, 1 loss, 2 process lives, no store | 195 000 | `TypeOK`, `ReleaseOnceAfterDelivery`, `SessionInOrder`, `NoSilentLoss`, `ContractSpec`, `PendingIsDelivered` |
| `hub_store` | 3 connections for 2 places, 3 ids, ring 1, 1 health event, with a store | 200 000 | `ReplayComplete`, `AdmissionAccounting` |
| `inbound_paths` | 10 configurations of 1 or 2 slots, 2 or 3 arrivals, at most 1 fault: direct delivery of parts and of messages, with a failing disk, with two stale sets and a lost port; two notifications and late answers with and without a store; scans with a failing disk; text mode with and without a store; a reused slot with a store | 91 900 | `LossIsASaveFailure`, `DirectIsHeld`, `StoredIsDelivered`, `DrainsWithoutFaults` |
| `outbound_server` | 2 callers, 2 posts, 2 recipients of 2 segments, outbox of 1, one fault of each kind | 61 000 | `IdempotencyIndex`, `StateIsTruthful`, `RetryIsSafe`, `FinalStaysFinal`, `SettlesWhilePortLasts` |
| `relay_events` | 2 messages, 3 configurations: no store and queue 1, store and a client with a cursor, store and a new client with queue 2; 1 restart, break and fault | 238 000 | `TypeOK`, `FiredOncePlusResets`, `OneDropPerFault`, `CursorSkipsNothing`, `HandledEventually` |
| `simpin_unlock` | 4 requests, 2 PINs, cap 1 + 2, a card of 3 attempts, 1 replug, timeout, restart, error | 4 300 000 | `AttemptCaps`, `OnePerCall`, `SentOnlyWhenAsked`, `HealthIsCurrent`, `ConfiguredPinUnlocks` |
| `store_files` | 3 messages, ring 1, 1 outgoing message per process, 2 faults, 1 break | 2 740 000 | `SavedBeforeDeleted`, `CursorSkipsNothing`, `CounterAhead`, `OutboxHistory` |
| `atport_serial` | 5 commands, 2 notifications, 2 timeouts | 2 100 000 | `TruthUnlessInterrupted`, `InStepAtRest` |
| `codec_segments` | 7 texts at the limits of 1, 2 and 3 segments, 2 phones, 2 references, 2 messages, 1 flush | 77 500 | `Fits`, `WholeIsAsSent`, `ArrivedIsPublished` |
| `access_clients` | 2 client threads and another program; first connections with a crash or a new certificate, or 4 requests over 4 ticks | 1 270 000 | `RateBound`, `GuessesWhileBlocked`, `NoFalseAlarm`, `FirstUseConnects` |
| `inbound_reuse` | 3 slots, 3 arrivals, flushes, a modem without `+CMTI`, no fault | | violates `NothingLost` |
| `relay_reset` | one message handled, one fired, no crash | | violates `FiredAtMostOnce` |

What the less obvious properties say. `LossIsASaveFailure`: apart from `exposed` parts, a part is lost
only through a failed save, and one for each. Exposed are the parts in a slot that was used before (the violation of
`inbound_reuse`) and the part of a slot under whose index the worker filed the PDU of another one (section 6, answers
swapped); nested commands and late answers lose no others. `DirectIsHeld`: a part that has no copy on the SIM is held in
RAM until it was sent or saved, or dropped with a stale set of a flush that the serve loop did not finish, which takes
a store. `DrainsWithoutFaults` excuses a part when a fault occurred, when it came twice, or when two notifications ever
interrupted one command (`renotified`), which leaves the first one's slot occupied. `AttemptCaps`: within
one process life neither the configured nor the entered PINs exceed their caps. `WholeIsAsSent` names the one excuse the
code needs, a random 8-bit reference drawn twice. `RateBound` and `GuessesWhileBlocked` are what is left of the limits
when handlers overtake each other; both numbers are exact, one less is violated. `CursorSkipsNothing` of
`Relay` lets the cursor pass over what a full queue dropped and announced (`lost`), and nothing else. `NoFalseAlarm` and
`FirstUseConnects`: whatever state of the pin file a thread may see, a server with its old certificate is not refused,
and the relay gets through, alone if it must.

**Bounds.** Queue, ring, outbox, hash and backoff table are of size one or two, so that each overflows within the
messages the run has: the interesting cases are the first item that does not fit, and what happens after it. Two
connections are the least that race for a confirmation, three for two places the least that are refused. Two recipients
with two segments distinguish the last segment of a recipient from the last of the message. Four PIN requests are one
more than the cap of three. Two slots make a message compete with itself for storage, a slot be used again, and two notifications name different
slots; two messages that lack a part are two stale sets. Faults
are one or two: every property that allows for faults is stated relative to their number, or excludes their kind. The
codec's texts are those where a boundary falls: 160 and 161 septets, an escape or a surrogate pair across it, two and
three segments, both header lengths, an odd number of digits, a named sender. The backoff starts at the first failure and
ends at 3 ticks (code: after the second, 300 s), the window is 3 ticks long and a handler at most 1 tick late at the
lock, so that a block or a window begins, is overtaken and ends within 4 ticks. Ids, streams, arrivals, posts,
commands, sends, requests and time are bounded in the guards that count them (`MaxId`, `MaxStreams`, `maxArrivals`,
`MaxPosts`, `MaxCommands`, `MaxSends`, `MaxRequests`, `MaxTime`).

Deadlock is not an error in any run: every system here comes to rest when its bounded inputs are used up.

**Fairness**, used in the temporal properties only. `Hub`: a fan-out that began goes on, a handler thread that can
run runs, and clients reconnect (`relay.py` retries for ever, browsers reopen an EventSource). `Inbound`: the
worker reconnects (`run` loops for ever), reads answers or times out, goes on with its loops, and takes a job or drains the
line, scans and flushes again and again; strong fairness, since each of them is enabled only between the others, and
`_serve` gets to each in every round in which it is due; subscribers keep reading. `Outbound`: handlers and worker run, the worker reconnects.
`Relay`: both ends of the session run. `Access`: the relay goes on with its connection and tries again (`run_inbound`
loops for ever, `relay.py:137`); the thread of the send API may stop at any point. Arrivals, faults, losses and restarts are never assumed to happen.

What the liveness properties show: `PendingIsDelivered` - an undelivered message reaches somebody through lost
connections, unless a session that is still connected overflowed. `StoredIsDelivered` - whatever is on the SIM is
published by notification, scan, flush or direct delivery, and sent. `DrainsWithoutFaults` - and then leaves the SIM.
`SettlesWhilePortLasts` - every record becomes final. `HandledEventually` - a client that is behind catches up.
`FirstUseConnects` - a client that starts without a pin ends up with a verified connection.

## 5. What is proved

Eight modules of proofs. They hold for every value of the constants that satisfies the
module's named assumption; the bounds of the runs, fault counters included, are constants like the others, so a theorem
covers any number of faults. The general shape is the same: an inductive invariant `Inv` made of named parts, one lemma per
part that every step keeps it, and theorems that draw the runs' properties from it. TLC checked each invariant on the
instance of the component's run first (`SmsCodec`: on three messages of two texts).

**`HubProofs`** (connections finite; ring, queue and streams at least one; the other sizes natural numbers).

- `TypeInvariant`: `Spec => []TypeOK`. `TypeOK` is inductive as it stands. The step to look at is the id range: `Ids`
  shrinks only in `Restart`, which empties all that holds ids. `Subscribe` needs the lemmas on `Ascending`, `Replay` and
  `Enqueued`: a sorted replay is a sequence of assigned ids, and never overfills the queue it is offered to.
- `ReleaseSafety`: `Spec => [](UndeliveredStaysPending /\ ReleaseOnceAfterDelivery)`. Neither part is inductive: `Confirm`
  takes an id out of `pending`, and only the handler's program point tells that it was delivered. The invariant
  `ReleaseInv` adds `ConfirmingWasDelivered`: a handler between write and confirmation has a delivered message at the end
  of its history. At most one release follows from `delete_jobs` and `pending` being disjoint: an id is appended
  only when it is still pending, and leaves `pending` in the same critical section.
- `Admission`: `Spec => []AdmissionAccounting`, by counting the admitted handlers with the cardinality theorems.
- `ImplementsContract`: `~Store /\ Spec => ContractSpec`. Publishing, a successful write of a message, the winning
  confirmation and the restart are the steps of the contract, the others stutter. It uses `TypeOK` (an id in hand was
  published) and `ReleaseInv` (the id released was delivered).

Its second part is about sessions: `SessionOrder` for `SessionInOrder`, `LossAnnounced` for `NoSilentLoss`,
`ReplayWhole` for `ReplayComplete`.

- None of the three properties is inductive. A message of a session is in one of four places: the worker's event, the queue,
  the handler's hand, the history. `Flow` says that they hold ascending ids, each place older than the one before it, and
  that together they hold every id after the session's base unless the queue overflowed (`InOrder`, `NoHoles`).
- When `publish` assigns an id, the last event must have been offered to everybody and an active session must be in `subs`;
  so the new id is the one id the session lacks, and it is about to be offered. `AdmissionAccounting` gives the latter.
- `subscribe` starts the queue with the sorted replay, and `Publishing` (the ring is the newest ids without a hole) says that
  ring and store leave nothing out between the cursor and the next id (`ReplayedWhole`).
- The gap marker always finds room: after `get_nowait` took an item out, only the worker puts anything in the queue, and
  the worker is the one about to put the marker. That is the last part of `Publishing`.
- `LossAnnounced` and `ReplayWhole` assume `WithinReplay`: a stream with a store has at most `MaxReplay` messages. Beyond
  that the code cuts the replay without a marker (section 6), and both properties fail. Without a store
  `LossAnnounced` has no such hypothesis. `SessionOrder` never has it.

**`InboundProofs`** (parts numbered from one, finite slots; any messages, configurations, arrivals and faults).
`LossNeedsASaveFailure` for `LossIsASaveFailure`, `DirectDeliveryIsHeld` for `DirectIsHeld`.

- An index is kept on the line, in a listing, in the assembler, in a stale set, with a pending message, in a delete job.
  `Holds(i, P)` says of each: the slot still has the part the index was kept for, or is empty, or its part is `exposed`
  (`CallsKnown`, `PartsKnown`, `PendingKnown`, `JobsKnown`). Every step keeps it. A slot changes only by `Arrive`, which
  marks a second use, and by `AT+CMGD`, which empties it; and when `CmgrAnswered` takes an answer for that of slot `i`, it
  is `i`'s (`Good`), or else `Filed` exposes the part that `i` has. The order of the answers is not assumed at all: any call
  may take any line.
- The loss itself happens at `AT+CMGD`, long after it was decided. `AtRisk` counts a part from the decision on: it is neither
  sent nor saved, not exposed, and in no slot but those that the loops on the stack are about to delete (`Doomed`). A
  publication decides to delete parts that are safe by then; a job, parts that were sent; a status report is not
  deliverable. Only the error path of `_process_pdu` puts a part at risk, one for each failed save (`Accounted`).
- Dropping a text whose hash is known loses nothing because the text is pending or safe (`SeenHeld`); this is false
  once a save failed, and `DirectIsHeld` says so.
- A flush executes a command between two of its sets only with a store (`StaleKnown`), so that without one no port is lost
  while it holds a set, and `dropped` stays empty.
- What is excepted is shown by counterexamples: the finding of `inbound_reuse`, and the swapped answers of section 6.

**`OutboundProofs`** (any callers, posts, recipients, segments, outbox size). `IndexSound`, `RecordsTellTheTruth`,
`FinalIsFinal`, and, for direct callers (`~ViaClient`, the case the promise is about), `RetriesAreSafe`.

- The index alone is not inductive. `Types` adds that the records kept are the newest `Keep` ids, so that eviction takes
  the oldest record and its key, and nobody else's (`KeptAre`).
- `Working` makes the states inductive: the record being worked on is sending, and exactly the segments before the worker's
  position were accepted. So "submitted", after the last segment, says the truth. A final record is never taken up again,
  because `TakeJob` goes by the record's state.
- `Safe` says, while no key is lost (`KeysKept`), which segments of a caller the network has not seen: all, if the caller has
  no record or a queued one; those from the current position on, if it is being served. Without the client a key stands
  for its caller's one message (`ByCaller`), so that there is no second record to send them again.

**`RelayProofs`** (any messages, configurations, restarts, breaks and faults). `TypeInvariant` for `TypeOK`, `OneDrop` for
`OneDropPerFault`, `FiredOnce` for `FiredOncePlusResets`, `NothingSkipped` for `CursorSkipsNothing`. The last two assume
`JournalHolds`, that there are no more messages than the journal keeps (`JOURNAL_KEEP`, 500): an older hash is
forgotten, and a message read again after that is fired again.

- `OneDrop` counts the journalled messages that never arrived (`FaultsCover`). `Dropped` alone is not inductive: it must
  leave out the message whose post is under way, which the next step decides, and only a faulty step adds one.
- `FiredOnce`: the journal has no message twice and every message that arrived (`Once`). A message in hand is in it already,
  so its post can only have arrived before by a reset.
- `NothingSkipped`: `Covered` says that a message the client is owed is done (in the journal, or dropped with a marker), or
  `Ahead` of the cursor and of the message in hand: on the wire, in the queue, or behind all that is on the wire of a
  session that ended. Reading moves the cursor to the oldest of these. That takes the order of wire and queue and their
  agreement with the log (`InOrder`), and that a client with a cursor has it for this stream (`OneStream`); `Connect` hands
  on what `Enqueued` queues, and the rest is `lost`.

**`SimPinProofs`** (finite requests, any caps, PINs and number of attempts). `CapsHold`, `CallsSubmitOnce`,
`CardIsProtected`, `HealthIsTrue`, `ConfiguredPinWorks`.

- Both counters run ahead of the card: they are raised before the command. `Counters` says by how much, and the number of
  submissions is the cardinality of the set of (request, attempt) pairs.
- A request is at most at one place: not yet given, in the queue, or with the worker (`Call`); a request that was refused is
  nowhere. That is what bounds each call to one submission although its caller may have given up.

**`StoreProofs`** (finite messages, ring at least one). `MessagesAreSaved`, `NothingIsSkipped`, `CounterIsAhead`,
`HistoryIsOne`.

- `Held` is `SavedBeforeDeleted` with the message that is about to be deleted taken off the SIM already: it must be in the
  files as they are and in those a power loss brings back. A rename commits the one before it, so it takes two, and
  the message's own file is followed by `stream.json` before it is offered.
- `Cursors` relates the process to its files and the client to both: what a client is owed it was told, or the SIM holds
  it, or some file has it under an id above the cursor which the next replay finds, in the ring if its id is in the ring's
  range. It needs the ring to be sorted and what is offered to be below `Top`, the durable counter less the offer in hand.

**`AccessProofs`** (finite handlers and threads; natural limit, window, delays). `PinSafety`, `RateLimited`,
`GuessingBounded`.

- `PinSafety`: while the server keeps its certificate, every file that is not empty and every thread between its handshake
  and its comparison has that certificate's fingerprint, whoever truncates or renames what. So no comparison fails.
- `RateLimited`: the timestamps the server keeps are at least what was admitted. A segment admitted at or after `t` has a
  stamp of `t - Delay` or later, and those are not dropped before `t + Window - Delay` (`Charging`).
- `GuessingBounded`: during a block, the evaluations that have happened and those still to come leave out one handler, the
  one whose failure began the block (`LetThrough`).

**`ModemProofs`, the port** (any number of commands, notifications and timeouts). `ReportsAreTrue` for
`TruthUnlessInterrupted`, `RestInStep` for `InStepAtRest`, `TypeInvariant`.

- A final line does not say which command it answers; what `execute` takes for its answer depends on all that is under way.
  `Nested` says how calls interrupt each other, `AtPrompt` that the modem is at one prompt at most and sends no
  other answer until the PDU for it came.
- `Own`: once a call that no notification interrupted has written its PDU, the next final line that is read is the verdict
  on that PDU. Late answers of earlier commands cannot come between, for the modem answered them before it
  prompted, and `execute` drops everything up to the prompt. That is why a timeout alone never falsifies a report.
- `InStep`: without timeouts, the calls under way and the answers to come are equally many, at every depth of nesting,
  although nested calls take each other's answers. So an idle port has none left.

**`ModemProofs`, the codec** (any alphabet, texts, phones, references, any number of messages and flushes).
`PackingRoundTrip`, `PdusFit` for `Fits`, `WholeTexts` for `WholeIsAsSent`, `AllArrive` for `ArrivedIsPublished`.

- `PackingRoundTrip`: `unpack_septets` inverts `pack_septets` for every sequence of septets and every fill. A septet is in
  one octet or across two (`WithinOctet`, `AcrossOctets`); an octet has parts of up to three septets.
- `PdusFit`: from the limits of a segment (160, 153, 152 septets or 70, 67, 66 units), with the header's octets and the fill
  bit counted, the user data take 140 octets at most and the length field says how much they hold.
- Reassembly: while a key did not clash, all segments stored under it are of the latest message that has it (`OwnParts`),
  and nothing of an earlier one is under way (`Apart`). A message of several segments is either complete and published,
  or what is stored is exactly what arrived of it (`Progress`), unless its set was flushed.
- Hypotheses: `SplitsToFit`, that `Split` loses no character and cuts within the limits, for the last three, and
  `DecodesBack`, that the receiver reads each segment of a message as it was written, for the last two. They are what the recursive `Split` and the filters of `Places` and `Concat` compute for a text: induction over data.
  TLC evaluates both for the seven texts of `codec_segments`, as an assumption of `MCSmsCodec`.

Only model-checked:

- Liveness and everything under fairness (`PendingIsDelivered`, `StoredIsDelivered`, `DrainsWithoutFaults`,
  `SettlesWhilePortLasts`, `HandledEventually`, `FirstUseConnects`): the prover has no rules for ENABLED.
- `SplitsToFit` and `DecodesBack` of `SmsCodec`, for the reason given there.

## 6. Where code and documents differ

Two runs show a violated promise.

- **A slot deleted under a new message** (`inbound_reuse`). Delete jobs name indices only (`worker.py:64`). A set is
  flushed as a partial message, its last part comes and the whole is published too; two jobs now name the same slot.
  The first frees it, the modem stores a new SMS there, the second deletes it unread: no failure is needed.
- **A post that is repeated** (`relay_reset`). `fire` repeats the post after `ConnectionResetError` (`relay.py:86`), which
  Home Assistant may cause after it got the request. `relay.py:63-66` promises a retry "only when the request provably
  never arrived".

The following came up as counterexamples of the same modules; the settings to see them are given. The properties
`EveryLossAnnounced`, `WholeIsLast`, `DeliveredLeavesSim` and `Settles` state what the documents say and stay in the
modules for that purpose.

- *Second overflow is silent*: `gapped` is never reset (`hub.py:27`). `EveryLossAnnounced` with 1 connection, 4 ids,
  queue 1. `PLAN.md:465-467` calls losses "visible instead of silent". `NoSilentLoss` states what holds.
- *Truncated replay*: `replay_after` cuts to `MAX_REPLAY` without a gap marker. `ReplayComplete` with `MaxReplay = 1`.
- *Failed save loses the message*: the error path deletes the slot of a message that was not saved (`worker.py:387`);
  `PLAN.md:245-255` promises deletion after persisting. `NothingLost` with `store` and the fault kind `"disk"`. `LossIsASaveFailure`
  and `SavedBeforeDeleted` bound the damage. In text mode the error leaves the message on the SIM instead, with a known
  hash, so that no scan publishes it either.
- *PDU filed under another slot*: two `+CMTI` inside one command that collects nothing (`AT+CMGD`, `AT+CPMS?`) nest two
  `AT+CMGR`, and the second takes the first one's answer (`at.py:116-118`, `worker.py:353-360`). With a store the second
  slot is then deleted, which nobody read, and the message is lost without any fault: `Lost` without `\ exposed` in
  `LossIsASaveFailure`, configuration `MixedFiles` without faults. The first slot stays occupied, because its hash is
  known: `DrainsWithoutFaults` without `renotified`, configuration `Mixed`.
- *Late answer in a sweep*: `_delete_indices` swallows the timeout of an `AT+CMGD` (`worker.py:410`), and its late OK is taken
  for the answer of the sweep's next `AT+CMGR`; from there on every PDU is filed one index too late, and an unread slot
  is deleted. The same with one `"command"` fault and no second notification, configuration `MixedFiles`.
- *Stale sets dropped*: `flush_stale` takes every stale set out of the assembler before the first is published
  (`receive.py:91-92`, `worker.py:235-236`). With a store, a port lost in the deletes of the first drops the others;
  what was on the SIM comes back with a scan, a part delivered by `+CMT` does not. `dropped = {}` is violated in `Stale`.
- *Slot reused with a store*: a listing is read entry by entry, and the first entry may complete a set whose other slots
  are then deleted; a later entry of those enters the assembler again, with the index of a slot that is free. 300 s
  later it is published as a partial duplicate, and the slot deleted under whatever has it by then. `LossIsASaveFailure`
  without its `\ exposed`, with the configuration `Reuse`, in which nothing fails.
- *Failed delete is not retried*: `worker.py:411` says "will retry via reconcile", but a scan finds the hash in
  `seen_hashes` and returns. `DeliveredLeavesSim` with one fault. A message the network delivers twice stays on the
  SIM for the same reason, without any fault: `DrainsWithoutFaults` without its `doubled`.
- *Part published again*: a part listed by a scan after its set was completed starts a new set, published 300 s later.
  `WholeIsLast` with duplicates or flushes.
- *Text mode publishes pieces*: each part of a long message is published and deleted by itself, the first line of its
  body only (`worker.py:451-477`).
- *Next line swallowed*: `_urc_cmt_pending` is not reset when the port is opened again (`worker.py:337`); a `+CMTI` that
  comes next is taken for a PDU. The message then waits for a scan (`StoredIsDelivered` holds).
- *SIM never asked again*: a card that answers `AT+CPIN?` with an error while it starts leaves the SIM "unknown"
  (`worker.py:173`), and neither the configured nor an entered PIN is used until the modem is opened again.
- *Rate limit by overtaking*: the clock is read before the lock (`auth.py:202`), so that a charge with an older timestamp
  may follow. Within `Window` of real time more than `Limit` segments may pass: `RateBound` without its `- Delay`. A
  restart forgets the window.
- *Backoff table cleared*: the failure of another address clears the whole table, blocks included, when it is full
  (`auth.py:173`). `_any_scope` leaves the error to `_authorize`, which asks and evaluates again: when the block ends
  between the two, a valid "send" credential gets 403 for the scope "receive".
- *First pin and a new certificate*: two first connections around a change of the certificate each trust what they
  saw, and the later `os.replace` decides: if the old one wins, the server is refused from then on
  (`pinned_http.py:86-93`). `NoFalseAlarm` without its `rotations = 0`.
- *Retry through the client*: `sendapi.py:123` makes a new key for each request, against the comment at `:142-143`.
  `RetryIsSafe` with `ViaClient = TRUE`.
- *Record stuck in sending*: `_do_send` does not catch the `OSError` of a lost port. `Settles` with one port loss.
- *Fresh client skips messages*: before its first message a client has no cursor (`relay.py:147`), and a session that
  ends before it leaves nothing to resume from. `CursorSkipsNothing` of `Relay` asks only for what was published since
  the client subscribed (`since`).
- *Overflow before a break*: the gap marker queues behind newer messages, which move the cursor (`hub.py:30-34`).
  `CursorSkipsNothing` of `Relay` without its `\/ k \in lost`, in the configuration `FirstSession`.
- *Rename undone*: no directory is synced, so a power loss may bring an old `stream.json` back; an id that a client saw
  is then given again. `CounterAhead` without its `power_losses = 0`.
- *Answers swapped*: a `+CMTI` inside a command that sends an SMS makes `execute` nest. The nested `AT+CMGR` takes the outer command's
  final line, and the outer one that of the `AT+CMGR`: an SMS the network refused is recorded as submitted. `at.py:3-4`
  promises "responses matched to the active command". `TruthUnlessInterrupted` for all ids. What holds: the swap heals
  before the next job (`InStepAtRest`), and late answers alone never falsify an outcome.
- *Last PIN attempt*: `PLAN.md:220-222` says the server refuses to spend the final try; the code does not read the
  attempts left, so configured and runtime PINs together may lock a card across a restart.

## 7. Abstractions and what is not modelled

- Texts, numbers and PDUs are identities; two texts are equal when their message and parts are. Decoding failures are
  left out of `Inbound`: such a message stays on the SIM and is skipped.
- Times are choices: a timeout may strike whenever the code waits, a poll or flush may be due whenever the worker is
  idle. So parts may always come later than 300 s.
- `Hub!Confirm` joins the removal from `pending` and the queueing of the delete job; nothing reads the job queue's order.
- In `Inbound` a notification inside a command nests as in the code. The modem works on a command as soon as it is
  written, and an answer with its data is one line: a call that gave up may find a whole answer later, never half of
  one. `AT+CMGS` is one of the other commands here; its prompt and verdicts are `AtPort`'s.
- In `AtPort` the modem answers in order and refuses a PDU with foreign text before it; that is how the modems the
  code was written for behave, and external to the code.
- In `Relay` a replay is not cut to `MAX_REPLAY` messages, which is the size of a queue; `Hub` models the cut.
- In `SimPin` an absent SIM is a card that answers with an error; `Attempt` is the card.
- In `SmsCodec` five characters stand for the alphabets, one for each way a character is encoded. Time stamps, protocol
  identifiers, validity and 8-bit data are left out; named senders and 16-bit references come from phones, external to
  the code, which only decodes them. References have two values, so that they clash.
- In `Gate` a credential is its scope: hashing, and the cache of positive verdicts that spares it, change no answer. The
  tables live as long as the process, whose restart is left out here. Time is in ticks; the window and the delays are
  constants.
- In `Tofu` the fixed fingerprint and the CA mode are left out: one is a comparison, the other the TLS library's.
- Not modelled: routing and formatting of HTTP, web UI, configuration and parsing of users, discovery, mode switching
  and TLS files. They are sequential code without state of their own; what they set up is in the initial states.
