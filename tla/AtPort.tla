------------------------------- MODULE AtPort -------------------------------
(***************************************************************************)
(* The serial AT port (at.py) and the way the modem worker uses it: one    *)
(* execute() at a time, except that a notification read inside a command   *)
(* calls back into the worker, which executes AT+CMGR before the outer     *)
(* command has its answer, and perhaps AT+CMGD inside that.                *)
(*                                                                         *)
(* The modem works on what it is sent in order and answers every command   *)
(* with one final line, which may come after execute() gave up.  The line  *)
(* carries no mark of the command it answers: the first final line read is *)
(* the answer of the innermost execute().  PDU mode only.                  *)
(***************************************************************************)
EXTENDS Integers, Sequences, SequencesExt

CONSTANTS
    MaxCommands,  \* bound: commands executed
    MaxNotices,   \* bound: +CMTI notifications
    MaxTimeouts   \* bound: commands that time out

ASSUME AtPortAssumption ==
    MaxCommands \in Nat /\ MaxNotices \in Nat /\ MaxTimeouts \in Nat

VARIABLES
    stack,        \* the execute() calls under way, innermost last
    buf,          \* what the modem sent and execute() did not read: _buf and the line
    open,         \* is the port open?
    inbox,        \* what was written and the modem did not work on yet
    prompting,    \* <<the AT+CMGS the modem wants the PDU of>>
    garbled,      \* has the modem been sent other text at this prompt?
    commands,     \* number of commands so far
    report,       \* what the outbox says of each AT+CMGS
    verdict,      \* history: what became of its PDU in the modem
    interrupted,  \* history: commands a notification was read in
    notices, timeouts

portVars == <<stack, open>>
modemVars == <<inbox, prompting, garbled, verdict>>
vars == <<portVars, buf, modemVars, commands, report, interrupted, notices, timeouts>>

Ids == 1 .. MaxCommands
Kinds == {"send", "read", "delete"}    \* AT+CMGS, AT+CMGR, AT+CMGD
Command(kind) == [id |-> commands + 1, kind |-> kind]
Payload(c) == [id |-> c.id, kind |-> "payload"]
Line(what, c) == [what |-> what, cmd |-> c]
Notice == Line("cmti", [id |-> 0, kind |-> "none"])
Finals == {"ok", "error"}

Init == /\ stack = <<>> /\ buf = <<>> /\ open = TRUE
        /\ inbox = <<>> /\ prompting = <<>> /\ garbled = FALSE
        /\ commands = 0 /\ notices = 0 /\ timeouts = 0
        /\ report = [i \in Ids |-> "none"] /\ verdict = [i \in Ids |-> "none"]
        /\ interrupted = {}
-----------------------------------------------------------------------------
(* The modem.                                                              *)

\* AT+CMGS is answered with a prompt or refused, the others are answered.
\* At a prompt everything up to the PDU's Ctrl-Z is text; a PDU with other
\* text before it, or of another length than announced, is refused.
Modem ==
    /\ inbox # <<>>
    /\ inbox' = Tail(inbox)
    /\ LET c == Head(inbox)
           Answer(final) == buf' = Append(buf, Line(final, c))
       IN  \/ /\ prompting = <<>> /\ c.kind = "send"
              /\ \/ buf' = Append(buf, Line("prompt", c)) /\ prompting' = <<c.id>>
                 \/ Answer("error") /\ UNCHANGED prompting
              /\ UNCHANGED <<garbled, verdict>>
           \/ /\ prompting = <<>> /\ c.kind \in {"read", "delete"}
              /\ \E final \in Finals : Answer(final)
              /\ UNCHANGED <<prompting, garbled, verdict>>
           \/ /\ prompting # <<>> /\ c.kind # "payload"
              /\ garbled' = TRUE
              /\ UNCHANGED <<buf, prompting, verdict>>
           \/ /\ prompting # <<>> /\ c.kind = "payload"
              /\ \E final \in Finals :
                    /\ final = "ok" => prompting = <<c.id>> /\ ~garbled
                    /\ Answer(final)
                    /\ verdict' = [verdict EXCEPT ![c.id] =
                                      IF final = "ok" THEN "accepted" ELSE "refused"]
              /\ prompting' = <<>> /\ garbled' = FALSE
    /\ UNCHANGED <<portVars, commands, report, interrupted, notices, timeouts>>

\* A message arrives and is announced.
Notify ==
    /\ open /\ notices < MaxNotices /\ notices' = notices + 1
    /\ buf' = Append(buf, Notice)
    /\ UNCHANGED <<portVars, modemVars, commands, report, interrupted, timeouts>>
-----------------------------------------------------------------------------
(* The worker thread.                                                      *)

Top == stack[Len(stack)]
Outer == Front(stack)

\* execute: the command is written, above the calls in `below`.
Write(kind, below) ==
    /\ commands < MaxCommands /\ commands' = commands + 1
    /\ inbox' = Append(inbox, Command(kind))
    /\ stack' = Append(below, [id |-> commands + 1, kind |-> kind,
                               phase |-> IF kind = "send" THEN "prompt" ELSE "final"])

\* The call that ends speaks for the record it is sending.
Reported(c, state) ==
    report' = IF c.kind = "send" THEN [report EXCEPT ![c.id] = state] ELSE report

\* A job, the poll or the sweep of the storage executes a command.
Execute(kind) ==
    /\ open /\ stack = <<>>
    /\ Write(kind, <<>>)
    /\ UNCHANGED <<open, buf, prompting, garbled, verdict, report, interrupted, notices,
                   timeouts>>

\* drain_urcs: a notification is followed, any other line is ignored.
Drain ==
    /\ open /\ stack = <<>> /\ buf # <<>>
    /\ buf' = Tail(buf)
    /\ \/ Head(buf) = Notice /\ Write("read", <<>>)
       \/ Head(buf) # Notice /\ UNCHANGED <<inbox, stack, commands>>
    /\ UNCHANGED <<open, prompting, garbled, verdict, report, interrupted, notices, timeouts>>

\* Where the first line of one of these sorts is; 0 without one.
First(sorts) == SelectInSeq(buf, LAMBDA l : l.what \in sorts)

\* (Bug: the prompt is cut out and what came before it stays.)
AfterPromptKeeping(i) == SubSeq(buf, 1, i - 1) \o SubSeq(buf, i + 1, Len(buf))

\* self._buf[self._buf.find(b">") + 1:]
AfterPrompt(i) == SubSeq(buf, i + 1, Len(buf))

\* The prompt is there: the PDU is written, and all that came before the
\* prompt is dropped.
Prompted ==
    /\ stack # <<>> /\ Top.phase = "prompt"
    /\ LET i == First({"prompt", "error"})
       IN  /\ i # 0 /\ buf[i].what = "prompt"
           /\ buf' = AfterPrompt(i)
    /\ inbox' = Append(inbox, Payload(Top))
    /\ stack' = Append(Outer, [Top EXCEPT !.phase = "final"])
    /\ UNCHANGED <<open, prompting, garbled, verdict, commands, report, interrupted, notices,
                   timeouts>>

\* (Bug: the error that came instead of the prompt stays in the buffer.)
PromptRefusedKeeping ==
    /\ stack # <<>> /\ Top.phase = "prompt"
    /\ First({"prompt", "error"}) # 0 /\ buf[First({"prompt", "error"})].what = "error"
    /\ stack' = Outer /\ Reported(Top, "failed")
    /\ UNCHANGED <<open, buf, modemVars, commands, interrupted, notices, timeouts>>

\* An error comes before the prompt: the buffer is emptied, whatever else
\* the same read brought.
PromptRefused ==
    /\ stack # <<>> /\ Top.phase = "prompt"
    /\ LET i == First({"prompt", "error"})
       IN  /\ i # 0 /\ buf[i].what = "error"
           /\ \E last \in i .. Len(buf) : buf' = SubSeq(buf, last + 1, Len(buf))
    /\ stack' = Outer /\ Reported(Top, "failed")
    /\ UNCHANGED <<open, modemVars, commands, interrupted, notices, timeouts>>

\* execute takes the next final line for its own.  AT+CMGR's ERROR ends in
\* _read_index and AT+CMGD's in _delete_indices; a message that was read may
\* be deleted from the SIM next.
Answered ==
    /\ stack # <<>> /\ Top.phase = "final" /\ buf # <<>> /\ Head(buf).what \in Finals
    /\ buf' = Tail(buf)
    /\ Reported(Top, IF Head(buf).what = "ok" THEN "submitted" ELSE "failed")
    /\ \/ stack' = Outer /\ UNCHANGED <<inbox, commands>>
       \/ /\ Top.kind = "read" /\ Head(buf).what = "ok" /\ Head(buf).cmd.kind = "read"
          /\ Write("delete", Outer)
    /\ UNCHANGED <<open, prompting, garbled, verdict, interrupted, notices, timeouts>>

\* Any other line is one of the command's, except that a notification makes
\* the worker read the message at once; AT+CMGR collects even those.
OtherLine ==
    /\ stack # <<>> /\ Top.phase = "final" /\ buf # <<>> /\ Head(buf).what \notin Finals
    /\ buf' = Tail(buf)
    /\ \/ /\ Head(buf) = Notice /\ Top.kind # "read"
          /\ Write("read", stack)
          /\ interrupted' = interrupted \cup {c.id : c \in ToSet(stack)}
       \/ /\ Head(buf) # Notice \/ Top.kind = "read"
          /\ UNCHANGED <<stack, inbox, commands, interrupted>>
    /\ UNCHANGED <<open, prompting, garbled, verdict, report, notices, timeouts>>

Nothing == IF Top.phase = "final" THEN buf = <<>> ELSE First({"prompt", "error"}) = 0

\* ATTimeout, after the deadline with nothing to read.  AT+CMGD's ends in
\* _delete_indices, AT+CMGS's in _do_send.  AT+CMGR's goes through the
\* command it was called back from and ends where that one's would; in the
\* poll or in drain_urcs it makes the worker give up the port.
TimedOut ==
    /\ stack # <<>> /\ Nothing
    /\ timeouts < MaxTimeouts /\ timeouts' = timeouts + 1
    /\ IF Top.kind # "read"
       THEN stack' = Outer /\ Reported(Top, "unknown") /\ UNCHANGED <<open, buf>>
       ELSE IF Outer # <<>>
       THEN stack' = Front(Outer) /\ Reported(Last(Outer), "unknown") /\ UNCHANGED <<open, buf>>
       ELSE stack' = <<>> /\ open' = FALSE /\ buf' = <<>> /\ UNCHANGED report
    /\ UNCHANGED <<modemVars, commands, interrupted, notices>>

\* A new port: discovery takes a modem that answers, that is, one which is
\* done with everything before.
Reopen ==
    /\ ~open /\ inbox = <<>> /\ prompting = <<>>
    /\ open' = TRUE /\ buf' = <<>>
    /\ UNCHANGED <<stack, modemVars, commands, report, interrupted, notices, timeouts>>

Next == \/ Modem \/ Notify
        \/ \E kind \in Kinds : Execute(kind)
        \/ Drain \/ Prompted \/ PromptRefused \/ Answered \/ OtherLine \/ TimedOut \/ Reopen

Spec == Init /\ [][Next]_vars
-----------------------------------------------------------------------------
\* Commands nest only as the callbacks do, and at most one AT+CMGS is under
\* way, at the bottom.
TypeOK ==
    /\ stack \in Seq([id : Ids, kind : Kinds, phase : {"prompt", "final"}])
    /\ \A k \in DOMAIN stack :
          /\ stack[k].kind = "send" => k = 1
          /\ stack[k].phase = "prompt" => stack[k].kind = "send" /\ k = Len(stack)
          /\ k < Len(stack) => stack[k].kind # "read"
          /\ k > 1 => stack[k - 1].id < stack[k].id
    /\ open \in BOOLEAN /\ garbled \in BOOLEAN
    /\ inbox \in Seq([id : Ids, kind : Kinds \cup {"payload"}])
    /\ prompting \in Seq(Ids) /\ Len(prompting) <= 1
    /\ report \in [Ids -> {"none", "submitted", "failed", "unknown"}]
    /\ verdict \in [Ids -> {"none", "accepted", "refused"}]

\* An SMS is reported as submitted only if the modem accepted its PDU, and
\* as failed only if it did not, also when answers of earlier commands come
\* late -- unless a notification interrupted its submission: then the nested
\* AT+CMGR takes the answer of the AT+CMGS, which gets that of the AT+CMGR
\* (at.py:3-4 promises "responses matched to the active command").
TruthUnlessInterrupted ==
    \A i \in Ids \ interrupted :
        /\ report[i] = "submitted" => verdict[i] = "accepted"
        /\ report[i] = "failed" => verdict[i] # "accepted"

\* However notifications nest, every execute() takes one final line: without
\* timeouts an idle port has none outstanding, so that swapped answers do not
\* reach the next job.
InStepAtRest ==
    timeouts = 0 /\ stack = <<>> =>
        inbox = <<>> /\ prompting = <<>> /\ First(Finals \cup {"prompt"}) = 0
=============================================================================
