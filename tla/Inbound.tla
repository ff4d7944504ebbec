------------------------------ MODULE Inbound ------------------------------
(***************************************************************************)
(* The way of an SMS from the SIM to the subscribers and off the SIM: the  *)
(* modem's message storage, the modem worker that reads, reassembles and   *)
(* publishes what it finds there (worker.py, receive.py, at.py), the hub's *)
(* pending messages as DeliveryContract sees them, and the delete jobs     *)
(* that come back from it.                                                 *)
(*                                                                         *)
(* A message is a set of parts; a part occupies one storage slot.  What    *)
(* the worker publishes is a text: the message and the parts it was put    *)
(* together from.  Modems that know no +CMTI hand a message over directly  *)
(* (+CMT); modems that know no PDU mode list their messages as text.       *)
(*                                                                         *)
(* Answers carry no mark of the command they belong to.  So the model has  *)
(* the worker's call stack and the lines it has not read yet: a            *)
(* notification read inside a command nests another one in it, and the     *)
(* innermost command takes the next answer, whichever it is; an answer     *)
(* that comes after its command timed out is taken by a later one.         *)
(***************************************************************************)
EXTENDS Integers, FiniteSets, Sequences, SequencesExt

CONSTANTS
    Msgs,     \* messages people send
    Slots,    \* storage indices, 0 .. n-1
    AllParts, \* their parts: [msg, seq]
    Configs   \* the configurations and bounds considered, see InboundAssumption

ASSUME InboundAssumption ==
    /\ Slots \subseteq Nat /\ 0 \in Slots /\ IsFiniteSet(Slots)
    /\ AllParts \subseteq [msg : Msgs, seq : Nat \ {0}]
    /\ \A c \in Configs :
        /\ c.store \in BOOLEAN            \* is a file store configured?
        /\ c.pdu_mode \in BOOLEAN         \* does the modem support AT+CMGF=0?
        /\ c.strategy \in {"cmti", "cmt", "poll"} \* receive strategy, select_cnmi
        /\ c.total \in [Msgs -> Nat]      \* the number of parts, 0: not sent
        /\ c.reports \subseteq Msgs       \* the messages that are status reports
        /\ c.seenMax \in Nat \ {0}        \* bound of worker.seen_hashes (5000)
        /\ c.duplicates \in BOOLEAN       \* may the network deliver a part twice?
        /\ c.capacity \in Nat             \* bound: the slots that the SIM has
        /\ c.maxArrivals \in Nat          \* bound: parts the network delivers
        /\ c.maxFaults \in Nat            \* bound: faults, each of one of these kinds:
        /\ c.faultKinds \subseteq {"command", "link", "restart", "disk"}

VARIABLE cfg  \* the configuration, which never changes

Empty == [msg |-> "none", seq |-> 0]
NoSlot == -1  \* the index of a part that was handed over directly

VARIABLES
    slots,       \* the modem's storage: Slots -> parts or Empty
    line,        \* what the modem sent and the worker has not read
    link,        \* "up" while _serve runs, "connecting" while _connect does
    stack,       \* the execute() calls and loops under way, innermost last
    cmgl_broken, \* worker.cmgl_broken
    cmt_pending, \* worker._urc_cmt_pending: the next line is taken for a PDU
    parts,       \* Assembler._parts: m -> {[seq, index]}
    stale,       \* the sets flush_stale took out of it and _serve has not published
    seen,        \* worker.seen_hashes, oldest first
    pending,     \* Hub.pending: {[text, indices, sent]}
    jobs,        \* worker.jobs: the delete jobs
    arrived,     \* history: parts the network delivered
    doubled,     \* history: parts it delivered twice
    used,        \* history: slots that were occupied or misnamed (see Filed)
    exposed,     \* history: parts in a slot that an index kept for another names
    renotified,  \* history: did two notifications interrupt one command?
    safe,        \* history: parts a subscriber was sent or the store has
    direct,      \* history: parts handed over by +CMT
    taken,       \* history: those process took over
    dropped,     \* history: parts of stale sets that were never published
    save_failures, \* history: messages whose saving failed
    arrivals, faults

netVars == <<cfg, arrived, doubled, arrivals>>
slotVars == <<slots, used, exposed>>
workerVars == <<link, cmgl_broken, renotified>>
directVars == <<cmt_pending, direct, taken>>
flushVars == <<stale, dropped>>
hubVars == <<pending, jobs>>
publishVars == <<parts, seen, hubVars, safe>>
faultVars == <<faults, save_failures>>
vars == <<netVars, slotVars, line, stack, workerVars, directVars, flushVars, publishVars,
          faultVars>>

None == [m \in Msgs |-> {}]

Init == /\ cfg \in Configs
        /\ slots = [i \in Slots |-> Empty] /\ line = <<>> /\ stack = <<>>
        /\ link = "down" /\ cmgl_broken = FALSE /\ cmt_pending = FALSE
        /\ parts = None /\ stale = None /\ seen = <<>> /\ pending = {} /\ jobs = <<>>
        /\ arrived = {} /\ doubled = {} /\ used = {} /\ exposed = {} /\ renotified = FALSE
        /\ safe = {} /\ direct = {} /\ taken = {} /\ dropped = {}
        /\ save_failures = 0 /\ arrivals = 0 /\ faults = 0

Fails(kind) == kind \in cfg.faultKinds /\ faults < cfg.maxFaults /\ faults' = faults + 1
Fault(kind) == Fails(kind) /\ save_failures' = save_failures
NoFault == UNCHANGED faultVars
PartsOf(sets) == UNION {{[msg |-> m, seq |-> e.seq] : e \in sets[m]} : m \in Msgs}
Occupied == {i \in Slots : slots[i] # Empty}
-----------------------------------------------------------------------------
(* Lines and frames.  A frame is a call of execute() that waits for its    *)
(* answer, or what is left of a loop that executes commands: the deletes   *)
(* of _delete_indices, the entries of a listing, the indices of a sweep,   *)
(* the CPMS? and sweep that follow a CMGL without entries.                 *)

Line(kind, ok, found, n) == [kind |-> kind, ok |-> ok, found |-> found, n |-> n]
Cmti(i) == Line("+CMTI", TRUE, <<>>, i)
Cmt(p) == <<Line("+CMT", TRUE, <<>>, 0),
            Line("pdu", TRUE, <<[index |-> NoSlot, part |-> p]>>, 0)>>

Commands == {"CMGR", "CMGL", "CMGD", "CPMS", "other"}
\* at.py execute: a notification is a line of these, unless collect_extra.
Interruptible == {"CMGD", "CPMS", "other"}

Frame(kind, i) == [kind |-> kind, index |-> i, indices |-> {}, entries |-> <<>>, quota |-> 0,
                   notified |-> FALSE]
Deletes(S) == [Frame("delete", NoSlot) EXCEPT !.indices = S]
Listing(entries) == [Frame("entries", NoSlot) EXCEPT !.entries = entries]
Sweep(i, quota) == [Frame("sweep", i) EXCEPT !.quota = quota]

Top == Last(stack)
Outer == Front(stack)
On(kinds) == stack # <<>> /\ Top.kind \in kinds
\* The worker is between two commands of its own; nothing is left to flush.
AtRest == link = "up" /\ stack = <<>> /\ stale = None

\* CMGR was called back from one of these.
Interrupted(kinds) == Outer # <<>> /\ Last(Outer).kind \in kinds

Then(below, S) == IF S = {} THEN below ELSE Append(below, Deletes(S))
-----------------------------------------------------------------------------
(* Publishing.  `below` is the stack that is left to the worker: the       *)
(* deletes that follow go on top of it.                                    *)

TextParts(text) == {[msg |-> text.msg, seq |-> k] : k \in text.seqs}
Seen(text) == \E k \in DOMAIN seen : seen[k] = text
Remember(text) == LET longer == Append(seen, text)
                  IN  IF Len(longer) > cfg.seenMax THEN Tail(longer) ELSE longer
Record(text, indices) == [text |-> text, indices |-> indices, sent |-> FALSE]

\* (Bug: the slots are deleted as soon as the text is handed to the hub.)
PublishEagerly(text, indices, below) ==
    IF Seen(text)
    THEN stack' = below /\ UNCHANGED <<seen, hubVars, safe>>
    ELSE /\ seen' = Remember(text) /\ stack' = Then(below, indices)
         /\ pending' = pending \cup {Record(text, indices)}
         /\ UNCHANGED <<jobs, safe>>

\* worker._publish: a text seen before is dropped, whatever slots it came
\* from.  A new one becomes pending, or is saved and its slots deleted.
Publish(text, indices, below) ==
    IF Seen(text)
    THEN stack' = below /\ UNCHANGED <<seen, hubVars, safe>>
    ELSE /\ seen' = Remember(text)
         /\ IF cfg.store
            THEN /\ safe' = safe \cup TextParts(text)
                 /\ stack' = Then(below, indices)
                 /\ UNCHANGED hubVars
            ELSE /\ pending' = pending \cup {Record(text, indices)}
                 /\ stack' = below
                 /\ UNCHANGED <<jobs, safe>>

\* worker._publish when save_inbound raises OSError: the hash is recorded,
\* the message is not.
PublishFails(text) ==
    /\ cfg.store /\ ~Seen(text) /\ Fails("disk")
    /\ save_failures' = save_failures + 1
    /\ seen' = Remember(text)
    /\ UNCHANGED <<hubVars, safe>>

\* Assembler.add of part p read from slot i, or from no slot.
Entry(p, i) == [seq |-> p.seq, index |-> i]
\* (Bug: the parts are kept by index, and those without one replace each other.)
WithByIndex(p, i) == {e \in parts[p.msg] : e.index # i} \cup {Entry(p, i)}
With(p, i) == {e \in parts[p.msg] : e.seq # p.seq} \cup {Entry(p, i)}
TextOf(m, set) == [msg |-> m, seqs |-> {e.seq : e \in set}]
IndicesOf(set) == {e.index : e \in set} \ {NoSlot}

\* worker._process_pdu.  Status reports are deleted; a part is assembled;
\* the set that it completes is published, and if that raises, the part's
\* slot is deleted all the same.
Process(p, i, below) ==
    LET set == With(p, i)
        text == TextOf(p.msg, set)
        complete == Cardinality(set) = cfg.total[p.msg]
        slot == {i} \ {NoSlot}
    IN  \/ /\ p.msg \in cfg.reports
           /\ stack' = Then(below, slot)
           /\ UNCHANGED publishVars /\ NoFault
        \/ /\ p.msg \notin cfg.reports /\ ~complete
           /\ parts' = [parts EXCEPT ![p.msg] = set]
           /\ stack' = below
           /\ UNCHANGED <<seen, hubVars, safe>> /\ NoFault
        \/ /\ p.msg \notin cfg.reports /\ complete
           /\ parts' = [parts EXCEPT ![p.msg] = {}]
           /\ \/ Publish(text, IndicesOf(set), below) /\ NoFault
              \/ PublishFails(text) /\ stack' = Then(below, slot)
-----------------------------------------------------------------------------
(* The network and the modem.                                              *)

\* The network delivers a part, to a free slot or to the worker.
Arrival(p) ==
    /\ p.seq <= cfg.total[p.msg]
    /\ arrivals < cfg.maxArrivals /\ arrivals' = arrivals + 1
    /\ p \in arrived => cfg.duplicates
    /\ arrived' = arrived \cup {p}
    /\ doubled' = IF p \in arrived THEN doubled \cup {p} ELSE doubled
    /\ UNCHANGED <<cfg, stack, workerVars, flushVars, publishVars, faultVars>>

\* The modem may announce what it stored.
Arrive(p, i) ==
    /\ Arrival(p)
    /\ i < cfg.capacity /\ slots[i] = Empty
    /\ slots' = [slots EXCEPT ![i] = p]
    /\ used' = used \cup {i}
    /\ exposed' = IF i \in used THEN exposed \cup {p} ELSE exposed
    /\ \/ line' = line
       \/ cfg.strategy # "poll" /\ link # "down" /\ line' = Append(line, Cmti(i))
    /\ UNCHANGED directVars

\* The part is handed over in two lines, +CMT: and the PDU.
ArriveDirectly(p) ==
    /\ cfg.strategy = "cmt" /\ cfg.pdu_mode /\ link # "down"
    /\ Arrival(p)
    /\ direct' = direct \cup {p}
    /\ line' = line \o Cmt(p)
    /\ UNCHANGED <<slotVars, cmt_pending, taken>>

\* The indices of S in ascending order; one sequence.
Ascending(S) == {q \in [1 .. Cardinality(S) -> S] :
                    \A j, k \in DOMAIN q : j < k => q[j] < q[k]}
Listed(q) == [k \in DOMAIN q |-> [index |-> q[k], part |-> slots[q[k]]]]

\* The slots a command shows.
Shown(f) == CASE f.kind = "CMGL" -> Occupied
              [] f.kind = "CMGR" -> Occupied \cap {f.index}
              [] OTHER -> {}

\* The modem executes a command and answers it; AT+CMGR of an empty slot is
\* an error.
Performed(f, rest) ==
    /\ \E q \in Ascending(Shown(f)) :
          line' = Append(rest, Line(f.kind, f.kind = "CMGR" => q # <<>>, Listed(q),
                                    IF f.kind = "CPMS" THEN Cardinality(Occupied) ELSE 0))
    /\ slots' = [i \in Slots |-> IF f.kind = "CMGD" /\ f.index = i THEN Empty ELSE slots[i]]
    /\ NoFault

\* It refuses the command, or takes no notice of it.
NotPerformed(f, rest) ==
    /\ line' \in {rest, Append(rest, Line(f.kind, FALSE, <<>>, 0))}
    /\ UNCHANGED slots /\ Fault("command")

\* ATPort.execute writes a command above the calls in `below`, with `rest` of
\* the lines unread.  The modem works on it at once and its answer is one line
\* here, data and OK; what is on the line may still be on its way, and be late
\* (TimedOut).
Execute(f, below, rest) ==
    /\ stack' = Append(below, f)
    /\ Performed(f, rest) \/ NotPerformed(f, rest)
    /\ UNCHANGED <<used, exposed>>
-----------------------------------------------------------------------------
(* The worker reads a line.                                                *)

ReadLine == line # <<>> /\ line' = Tail(line)

\* execute takes the first final line for its own, of whatever command it is.
Answered(kinds) == On(kinds) /\ ReadLine /\ Head(line).kind \in Commands

\* The end of AT+CMGD, of CPMS? outside a scan, of anything else.
CallAnswered ==
    /\ Answered({"CMGD", "other"})
    /\ stack' = Outer
    /\ UNCHANGED <<netVars, slotVars, workerVars, directVars, flushVars, publishVars, faultVars>>

\* A sweep has found one more of the messages CPMS? counted, and ends with
\* the last of them.
Found(below) ==
    IF below # <<>> /\ Last(below).kind = "sweep"
    THEN IF Last(below).quota = 1 THEN Front(below)
         ELSE Append(Front(below), Sweep(Last(below).index, Last(below).quota - 1))
    ELSE below

\* An entry is taken for that of slot i.  If it is another slot's, the index i
\* names a part it has nothing to do with from now on.
Filed(e, i) ==
    /\ used' = used \cup {i}
    /\ exposed' = IF e.index # i THEN exposed \cup ({slots[i]} \ {Empty}) ELSE exposed
    /\ UNCHANGED slots

\* _read_index and the sweep: the answer of another command has no +CMGR: line
\* (parse_cmgr_pdu), and an error means that the slot is empty.
CmgrAnswered ==
    /\ Answered({"CMGR"})
    /\ LET reply == Head(line)
       IN  IF reply.kind = "CMGR" /\ reply.found # <<>>
           THEN /\ Filed(reply.found[1], Top.index)
                /\ Process(reply.found[1].part, Top.index, Found(Outer))
           ELSE stack' = Outer /\ UNCHANGED <<slotVars, publishVars, faultVars>>
    /\ UNCHANGED <<netVars, workerVars, directVars, flushVars>>

\* _scan_stored and _list_text_cmgl.  An error of CMGL makes this and every
\* later scan sweep the indices with CMGR; no entries make this one do so.
\* Text mode has no sweep.
CmglAnswered ==
    /\ Answered({"CMGL"})
    /\ LET reply == Head(line)
           entries == IF reply.kind = "CMGL" THEN reply.found ELSE <<>>
       IN  /\ stack' = CASE entries # <<>> -> Append(Outer, Listing(entries))
                         [] entries = <<>> /\ cfg.pdu_mode -> Append(Outer, Frame("sweeping", NoSlot))
                         [] OTHER -> Outer
           /\ cmgl_broken' = (cmgl_broken \/ (~reply.ok /\ cfg.pdu_mode))
    /\ UNCHANGED <<netVars, slotVars, link, renotified, directVars, flushVars, publishVars, faultVars>>

\* storage_usage: no +CPMS: line, an error or a zero mean no sweep.
CpmsAnswered ==
    /\ Answered({"CPMS"})
    /\ LET reply == Head(line)
       IN  stack' = IF reply.kind = "CPMS" /\ reply.n > 0 THEN Append(Outer, Sweep(0, reply.n)) ELSE Outer
    /\ UNCHANGED <<netVars, slotVars, workerVars, directVars, flushVars, publishVars, faultVars>>

\* _on_urc gets every line of a drain, and the notifications in a command.
Routed == /\ ReadLine
          /\ AtRest \/ (On(Interruptible) /\ Head(line).kind \in {"+CMTI", "+CMT"})

\* _read_index, inside the command that was interrupted if there is one; text
\* mode lists everything again.
Notified ==
    /\ line # <<>> /\ Head(line).kind = "+CMTI" /\ ~cmt_pending
    /\ AtRest \/ On(Interruptible)
    /\ LET f == IF cfg.pdu_mode THEN Frame("CMGR", Head(line).n) ELSE Frame("CMGL", NoSlot)
           below == IF AtRest THEN stack ELSE Append(Outer, [Top EXCEPT !.notified = TRUE])
       IN  /\ Execute(f, below, Tail(line))
           /\ renotified' = (renotified \/ (stack # <<>> /\ Top.notified))
    /\ UNCHANGED <<netVars, link, cmgl_broken, directVars, flushVars, publishVars>>

\* The header of a part that is handed over directly.
Header ==
    /\ Routed /\ Head(line).kind = "+CMT" /\ ~cmt_pending
    /\ cmt_pending' = TRUE
    /\ UNCHANGED <<netVars, slotVars, stack, workerVars, direct, taken, flushVars, publishVars,
                   faultVars>>

\* The line after it, if that is the PDU; a line that is none means nothing.
AfterHeader ==
    /\ Routed /\ cmt_pending
    /\ cmt_pending' = FALSE
    /\ IF Head(line).kind = "pdu"
       THEN LET p == Head(line).found[1].part
            IN  Process(p, NoSlot, stack) /\ taken' = taken \cup {p}
       ELSE UNCHANGED <<stack, taken, publishVars, faultVars>>
    /\ UNCHANGED <<netVars, slotVars, workerVars, direct, flushVars>>

\* Lines nobody asked for: a late answer or a PDU without its header in a
\* drain, a PDU inside a command, and what CMGR and CMGL collect.
Skipped ==
    /\ ReadLine
    /\ \/ AtRest /\ ~cmt_pending /\ Head(line).kind \notin {"+CMTI", "+CMT"}
       \/ On(Commands) /\ Head(line).kind = "pdu"
       \/ On({"CMGR", "CMGL"}) /\ Head(line).kind \in {"+CMTI", "+CMT"}
    /\ UNCHANGED <<netVars, slotVars, stack, workerVars, directVars, flushVars, publishVars,
                   faultVars>>
-----------------------------------------------------------------------------
(* Failures.                                                               *)

\* The serve loop ends: what it was doing is gone, the stale sets that it has
\* taken out of the assembler with it.
LinkDown ==
    /\ link' = "down" /\ line' = <<>> /\ stack' = <<>>
    /\ stale' = None
    /\ dropped' = dropped \cup PartsOf(stale)

\* An exception that no frame catches ends the serve loop; health queries and
\* setup catch every exception (sim.py, receive.storage_usage).
Raised == \/ LinkDown
          \/ stack[1].kind = "other" /\ stack' = <<>> /\ UNCHANGED <<link, line, flushVars>>

\* ATTimeout: nothing came, or what is on the line comes too late.  That of
\* CMGD ends in _delete_indices, that of CPMS? in storage_usage and that of
\* CMGL in the scan; that of CMGR goes through the command it interrupted and
\* ends where that one's would.
TimedOut ==
    /\ On(Commands)
    /\ IF line = <<>> THEN NoFault ELSE Fault("command")
    /\ \/ /\ \/ Top.kind \in {"CMGD", "CPMS"} /\ stack' = Outer
             \/ /\ Top.kind = "CMGL"
                /\ stack' = IF cfg.pdu_mode THEN Append(Outer, Frame("sweeping", NoSlot)) ELSE Outer
             \/ Top.kind = "CMGR" /\ Interrupted({"CMGD", "CPMS"}) /\ stack' = Front(Outer)
          /\ UNCHANGED <<link, line, flushVars>>
       \/ /\ Top.kind = "other" \/ (Top.kind = "CMGR" /\ ~Interrupted({"CMGD", "CPMS"}))
          /\ Raised
    /\ cmgl_broken' = (cmgl_broken \/ (Top.kind = "CMGL" /\ cfg.pdu_mode))
    /\ UNCHANGED <<netVars, slotVars, renotified, directVars, publishVars>>

\* OSError: the port is gone, which a drain, a command or the next one in a
\* loop finds out.
LinkLost ==
    /\ link # "down" /\ ~On({"entries"}) /\ (stack = <<>> => stale = None)
    /\ Fault("link") /\ LinkDown
    /\ UNCHANGED <<netVars, slotVars, cmgl_broken, renotified, directVars, publishVars>>

\* _connect takes a modem that is done with everything before.
Reconnect ==
    /\ link = "down" /\ link' = "connecting"
    /\ UNCHANGED <<netVars, slotVars, line, stack, cmgl_broken, renotified, directVars, flushVars,
                   publishVars, faultVars>>

\* The process dies: everything but the SIM and the files is gone.
Restart ==
    /\ Fault("restart")
    /\ link' = "down" /\ line' = <<>> /\ stack' = <<>> /\ cmgl_broken' = FALSE
    /\ parts' = None /\ stale' = None /\ seen' = <<>> /\ pending' = {} /\ jobs' = <<>>
    /\ cmt_pending' = FALSE /\ taken' = {} /\ dropped' = {}
    /\ UNCHANGED <<netVars, slotVars, renotified, direct, safe>>
-----------------------------------------------------------------------------
(* The worker's loops.                                                     *)

\* _delete_indices: AT+CMGD for one index.
DeleteNext(i) ==
    /\ On({"delete"}) /\ i \in Top.indices
    /\ Execute(Frame("CMGD", i), Then(Outer, Top.indices \ {i}), line)
    /\ UNCHANGED <<netVars, workerVars, directVars, flushVars, publishVars>>

\* The next entry of a CMGL listing.  Text mode publishes it as it is, each
\* part for itself; status reports have no body and are passed over.
EntryRead ==
    /\ On({"entries"})
    /\ LET e == Head(Top.entries)
           text == [msg |-> e.part.msg, seqs |-> {e.part.seq}]
           below == IF Tail(Top.entries) = <<>> THEN Outer
                    ELSE Append(Outer, Listing(Tail(Top.entries)))
           Go == UNCHANGED <<link, line, flushVars>>
       IN  \/ cfg.pdu_mode /\ Process(e.part, e.index, below) /\ Go
           \/ /\ ~cfg.pdu_mode /\ e.part.msg \in cfg.reports
              /\ stack' = below /\ UNCHANGED <<publishVars, faultVars>> /\ Go
           \/ /\ ~cfg.pdu_mode /\ e.part.msg \notin cfg.reports
              /\ UNCHANGED parts
              /\ \/ Publish(text, {e.index}, below) /\ NoFault /\ Go
                 \/ PublishFails(text) /\ Raised
    /\ UNCHANGED <<netVars, slotVars, cmgl_broken, renotified, directVars>>

\* The fallback of _scan_stored asks how many messages there are ...
SweepBegun ==
    /\ On({"sweeping"})
    /\ Execute(Frame("CPMS", NoSlot), Outer, line)
    /\ UNCHANGED <<netVars, workerVars, directVars, flushVars, publishVars>>

\* ... and reads one index after the other.
SweepRead ==
    /\ On({"sweep"})
    /\ Execute(Frame("CMGR", Top.index),
               IF Top.index + 1 \in Slots
               THEN Append(Outer, Sweep(Top.index + 1, Top.quota)) ELSE Outer, line)
    /\ UNCHANGED <<netVars, workerVars, directVars, flushVars, publishVars>>

\* The serve loop publishes the stale sets one after the other.  When saving
\* one fails, it ends as on a serial failure.
FlushNext(m) ==
    /\ stack = <<>> /\ stale[m] # {}
    /\ LET text == TextOf(m, stale[m])
       IN  \/ /\ Publish(text, IndicesOf(stale[m]), <<>>) /\ NoFault
              /\ stale' = [stale EXCEPT ![m] = {}]
              /\ UNCHANGED <<link, line, dropped>>
           \/ PublishFails(text) /\ LinkDown
    /\ UNCHANGED <<netVars, slotVars, cmgl_broken, renotified, directVars, parts>>
-----------------------------------------------------------------------------
(* The serve loop, which runs one job, drain, scan or flush at a time.     *)

\* The scan of _after_sim_ready, and every GTG_POLL_INTERVAL.
Scan ==
    /\ AtRest \/ (link = "connecting" /\ stack = <<>>)
    /\ Execute(Frame(IF cmgl_broken THEN "CPMS" ELSE "CMGL", NoSlot), <<>>, line)
    /\ link' = "up"
    /\ UNCHANGED <<netVars, cmgl_broken, renotified, directVars, flushVars, publishVars>>

\* Any other command: setup, health queries, AT+CMGS.  AT+CMGS drops all that
\* was sent before its prompt (at.py:100).
OtherCommand ==
    /\ AtRest \/ (link = "connecting" /\ stack = <<>>)
    /\ \E rest \in {line} \cup (IF AtRest THEN {<<>>} ELSE {}) :
          Execute(Frame("other", NoSlot), <<>>, rest)
    /\ UNCHANGED <<netVars, workerVars, directVars, flushVars, publishVars>>

\* A delete job reaches the head of the queue.
DeleteJob ==
    /\ AtRest /\ jobs # <<>>
    /\ stack' = <<Deletes(Head(jobs))>>
    /\ jobs' = Tail(jobs)
    /\ UNCHANGED <<netVars, slotVars, line, workerVars, directVars, flushVars, parts, seen,
                   pending, safe, faultVars>>

\* Assembler.flush_stale takes the sets that are incomplete for 300 s out of
\* the assembler, all at once.
Flush(old) ==
    /\ AtRest /\ old # {} /\ \A m \in old : parts[m] # {}
    /\ stale' = [m \in Msgs |-> IF m \in old THEN parts[m] ELSE {}]
    /\ parts' = [m \in Msgs |-> IF m \in old THEN {} ELSE parts[m]]
    /\ UNCHANGED <<netVars, slotVars, line, stack, workerVars, directVars, dropped, seen, hubVars,
                   safe, faultVars>>
-----------------------------------------------------------------------------
(* The hub: DeliveryContract!Deliver and DeliveryContract!Release.         *)

HubOnly == UNCHANGED <<netVars, slotVars, line, stack, workerVars, directVars, flushVars, parts, seen,
                       faultVars>>

Deliver(r) ==
    /\ r \in pending /\ ~r.sent
    /\ pending' = (pending \ {r}) \cup {[r EXCEPT !.sent = TRUE]}
    /\ safe' = safe \cup TextParts(r.text)
    /\ UNCHANGED jobs /\ HubOnly

\* (Bug: the delete hook is not called.)
ReleaseForgotten(r) ==
    /\ r \in pending /\ r.sent
    /\ pending' = pending \ {r}
    /\ UNCHANGED <<jobs, safe>> /\ HubOnly

\* confirm_delivered -> worker.request_delete
Release(r) ==
    /\ r \in pending /\ r.sent
    /\ pending' = pending \ {r}
    /\ jobs' = IF r.indices = {} THEN jobs ELSE Append(jobs, r.indices)
    /\ UNCHANGED safe /\ HubOnly

Hub == \E r \in pending : Deliver(r) \/ Release(r)

Urc == Notified \/ Header \/ AfterHeader \/ Skipped
Answer == CallAnswered \/ CmgrAnswered \/ CmglAnswered \/ CpmsAnswered
Loop == \/ \E i \in Slots : DeleteNext(i)
        \/ EntryRead \/ SweepBegun \/ SweepRead
        \/ \E m \in Msgs : FlushNext(m)

Next == \/ \E p \in AllParts : ArriveDirectly(p) \/ \E i \in Slots : Arrive(p, i)
        \/ Urc \/ Answer \/ Loop
        \/ TimedOut \/ LinkLost \/ Reconnect \/ Restart
        \/ Scan \/ OtherCommand \/ DeleteJob
        \/ \E old \in SUBSET Msgs : Flush(old)
        \/ Hub

Spec == Init /\ [][Next]_vars

\* The worker goes on with what it began, and connects again.  In every round
\* of the serve loop in which one is due it takes a job or drains the line,
\* scans, and flushes what is stale, so none of them starves the others (strong
\* fairness: each is enabled only between two commands).  Subscribers keep
\* reading.
Fairness == /\ WF_vars(Reconnect) /\ WF_vars(Hub)
            /\ WF_vars(Answer \/ Loop \/ TimedOut \/ (stack # <<>> /\ Urc))
            /\ SF_vars(Scan) /\ SF_vars(DeleteJob \/ (AtRest /\ Urc))
            /\ \A m \in Msgs : SF_vars(\E old \in SUBSET Msgs : m \in old /\ Flush(old))
FairSpec == Spec /\ Fairness
-----------------------------------------------------------------------------
Stored == {slots[i] : i \in Slots}
Deliverable(p) == p.msg \notin cfg.reports
InRam == PartsOf(parts) \cup PartsOf(stale) \cup (UNION {TextParts(r.text) : r \in pending})

\* The parts that are neither on the SIM nor sent nor saved.
Lost == {p \in arrived \ direct : Deliverable(p)} \ (Stored \cup safe)

\* "A power loss never eats messages that nobody saw" (PLAN.md:245-252): a
\* part the network stored is on the SIM until a subscriber was sent it or
\* the store has it.
NothingLost == Lost = {}

\* A part is lost through a failed save, which deletes the one part it was
\* called for (worker.py:380-387), or because it is in a slot the worker has a
\* wrong idea of: another part had it before, or the PDU of another slot was
\* taken for its own.  Whatever else happens - late answers, commands nested in
\* others, a scan that breaks off, dropped sets - deletes only what is safe.
LossIsASaveFailure == Cardinality(Lost \ exposed) <= save_failures

\* A part that was handed over directly has no copy on the SIM: while the
\* process lives and no save fails it is in the assembler, pending, sent or
\* saved - or it was in a set that a flush had taken out of the assembler when
\* the port was lost in the deletes of another one, which takes a store.
DirectIsHeld ==
    \/ save_failures > 0
    \/ /\ {p \in taken : Deliverable(p)} \subseteq InRam \cup safe \cup dropped
       /\ ~cfg.store => dropped = {}

\* Deduplication prevents double processing (PLAN.md:195): once a message was
\* published whole, no part of it is published again as a partial message.
WholeIsLast ==
    \A i, j \in DOMAIN seen : i < j /\ seen[i].msg = seen[j].msg =>
        seen[i].seqs # 1 .. cfg.total[seen[i].msg]

\* A message on the SIM is eventually sent to a subscriber or saved, unless
\* saving failed once: its hash then keeps it from being published again.  (Or
\* the worker has a wrong idea of its slot, see LossIsASaveFailure.)
StoredIsDelivered ==
    \A p \in AllParts : (p \in Stored /\ Deliverable(p)) ~>
                             (p \in safe \/ p \in exposed \/ save_failures > 0)

\* A delivered message eventually leaves the SIM, which does not fill up:
\* "Failed deletes are retried" (PLAN.md:195).  The code does not ensure it.
DeliveredLeavesSim == \A p \in AllParts : (p \in Stored /\ p \in safe) ~> p \notin Stored

\* What it ensures: the same of a modem and a process that never failed, a
\* network that delivers nothing twice and a worker that was never interrupted
\* twice in one command, which makes it file a part under another's slot.
DrainsWithoutFaults ==
    \A p \in AllParts : (p \in Stored /\ p \in safe) ~>
                             (p \notin Stored \/ faults > 0 \/ p \in doubled \/ renotified)
=============================================================================
