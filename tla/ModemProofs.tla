---------------------------- MODULE ModemProofs ----------------------------
(***************************************************************************)
(* The modem's two ends: the serial port and the coding of messages, each  *)
(* with an invariant of its own.                                           *)
(*                                                                         *)
(* AtPort, for any number of commands, notifications and timeouts: what    *)
(* the outbox says of an SMS is what the modem did unless a notification   *)
(* interrupted its submission, and without timeouts nothing of a job is    *)
(* left for the next one.  A final line carries no mark of its command, so *)
(* the invariant follows the order of what is under way: how calls nest    *)
(* (Nested), that the modem is at one prompt at a time and works on its    *)
(* PDU before anything later (AtPrompt), that the next final line of a     *)
(* call that wrote its PDU and was not interrupted is the verdict on that  *)
(* PDU (Own), and that without timeouts calls and answers to come are      *)
(* equally many (InStep).                                                  *)
(*                                                                         *)
(* SmsCodec, for any texts, phones and references and any number of        *)
(* messages: packing loses nothing, every PDU fits, and what the assembler *)
(* publishes whole is what was sent.  What Split and the decoder, which    *)
(* recurse over a text, do with each text is a hypothesis (SplitsToFit,    *)
(* DecodesBack) that TLC evaluates for the texts of its run.               *)
(***************************************************************************)
EXTENDS AtPort, SmsCodec, FiniteSetTheorems, FunctionTheorems, SequenceTheorems, TLAPS
-----------------------------------------------------------------------------
(* The port.                                                               *)

Calls == [id : Ids, kind : Kinds, phase : {"prompt", "final"}]
Sent == [id : Ids, kind : Kinds \cup {"payload"}]
Lines == [what : Finals \cup {"prompt"}, cmd : Sent] \cup {Notice}

\* The variables are well formed.
Types ==
    /\ stack \in Seq(Calls) /\ buf \in Seq(Lines) /\ inbox \in Seq(Sent)
    /\ open \in BOOLEAN /\ garbled \in BOOLEAN
    /\ prompting \in {<<>>} \cup {<<i>> : i \in Ids}
    /\ commands \in Nat /\ commands <= MaxCommands
    /\ report \in [Ids -> {"none", "submitted", "failed", "unknown"}]
    /\ verdict \in [Ids -> {"none", "accepted", "refused"}]
    /\ interrupted \in SUBSET Ids
    /\ notices \in Nat /\ timeouts \in Nat

\* How calls nest: as the callbacks do, each interrupted by the next.
Nested ==
    /\ \A k \in DOMAIN stack :
          /\ stack[k].kind = "send" => k = 1
          /\ stack[k].phase = "prompt" => stack[k].kind = "send" /\ k = Len(stack)
          /\ k < Len(stack) => stack[k].kind # "read" /\ stack[k].id \in interrupted
          /\ stack[k].id <= commands
          /\ report[stack[k].id] = "none"
    /\ \A j, k \in DOMAIN stack : j < k => stack[j].id < stack[k].id

Paid(i) == \E p \in DOMAIN inbox : inbox[p].kind = "payload" /\ inbox[p].id = i
IsPrompt(l) == l.what = "prompt"
IsFinal(l) == l.what \in Finals

\* The modem is at a prompt while its prompt or the PDU for it is under way,
\* one of them and one only, and sends nothing but notifications after it.
AtPrompt ==
    /\ \A p, q \in DOMAIN inbox :
          inbox[p].kind = "payload" /\ inbox[q].kind = "payload" => p = q
    /\ \A p \in DOMAIN inbox : inbox[p].kind = "payload" =>
          prompting # <<>> /\ \A k \in DOMAIN buf : ~IsPrompt(buf[k])
    /\ \A k \in DOMAIN buf : IsPrompt(buf[k]) =>
          prompting # <<>> /\ \A j \in DOMAIN buf : j > k => ~IsPrompt(buf[j]) /\ ~IsFinal(buf[j])

\* Nothing is known of commands that were not given.
Fresh == \A i \in Ids :
    /\ verdict[i] # "none" \/ report[i] # "none" \/ Paid(i) => i <= commands
    /\ \A k \in DOMAIN stack : stack[k].phase = "prompt" /\ stack[k].id = i =>
          verdict[i] = "none" /\ ~Paid(i)

\* The next final line read is the verdict on the PDU of c: it is to come,
\* or in the buffer.
NextIsOf(c) ==
    \/ /\ inbox # <<>> /\ inbox[Len(inbox)] = Payload(c)
       /\ \A k \in DOMAIN buf : ~IsFinal(buf[k])
    \/ /\ inbox = <<>>
       /\ \A k \in DOMAIN buf : /\ buf[k].what = "ok" => verdict[c.id] = "accepted"
                                /\ buf[k].what = "error" => verdict[c.id] = "refused"

\* So for an AT+CMGS that wrote its PDU and was not interrupted.
Own == stack # <<>> /\ stack[1].kind = "send" /\ stack[1].phase = "final"
       /\ stack[1].id \notin interrupted => NextIsOf(stack[1])

\* What was reported of it is true, and will be.
Told == \A i \in Ids \ interrupted : report[i] \in {"submitted", "failed"} =>
    ~Paid(i) /\ (report[i] = "submitted" <=> verdict[i] = "accepted")

Truth == Fresh /\ Own /\ Told

\* The number of final lines among these.
Answers(q) == Cardinality({k \in DOMAIN q : IsFinal(q[k])})

\* Without timeouts.  AT+CMGS waits for its prompt: it is the modem's next
\* command, or was answered with a prompt or an error.
Asking ==
    \/ /\ Len(inbox) = 1 /\ inbox[1].kind = "send" /\ prompting = <<>>
       /\ \A k \in DOMAIN buf : ~IsPrompt(buf[k]) /\ ~IsFinal(buf[k])
    \/ /\ inbox = <<>> /\ prompting # <<>>
       /\ \A k \in DOMAIN buf : ~IsFinal(buf[k])
    \/ /\ inbox = <<>> /\ prompting = <<>>
       /\ \A k \in DOMAIN buf : ~IsPrompt(buf[k])
       /\ \A j, k \in DOMAIN buf : IsFinal(buf[j]) /\ IsFinal(buf[k]) => j = k

\* Otherwise each call has one answer to come, from a command the modem has
\* still to work on or in the buffer.
Answering ==
    /\ Len(stack) = Len(inbox) + Answers(buf)
    /\ \A k \in DOMAIN buf : ~IsPrompt(buf[k])
    /\ \A p \in DOMAIN inbox : inbox[p].kind # "send" /\ (inbox[p].kind = "payload" => p = 1)
    /\ prompting # <<>> <=> (inbox # <<>> /\ inbox[1].kind = "payload")

\* Does the call at the bottom wait for its prompt?
Waiting == stack # <<>> /\ stack[1].phase = "prompt"
Matched == IF Waiting THEN Asking ELSE Answering

InStep == timeouts = 0 => open /\ Matched
-----------------------------------------------------------------------------
(* Lines, commands and sequences of them.                                  *)

\* A sequence and its elements, and what Head, Tail and Append do.
LEMMA SeqFacts ==
    ASSUME NEW S, NEW q \in Seq(S)
    PROVE  /\ Len(q) \in Nat /\ DOMAIN q = 1 .. Len(q)
           /\ \A k \in DOMAIN q : q[k] \in S
           /\ (q = <<>>) <=> (Len(q) = 0)
BY LenProperties, EmptySeq, ElementOfSeq

\* The head is the first element, the others move up.
LEMMA TailFacts ==
    ASSUME NEW S, NEW q \in Seq(S), q # <<>>
    PROVE  /\ Head(q) = q[1] /\ Head(q) \in S /\ Tail(q) \in Seq(S) /\ 1 \in DOMAIN q
           /\ Len(q) \in Nat \ {0} /\ Len(Tail(q)) = Len(q) - 1
           /\ \A k \in DOMAIN Tail(q) : k + 1 \in DOMAIN q /\ Tail(q)[k] = q[k + 1]
           /\ \A k \in DOMAIN q : k # 1 => k - 1 \in DOMAIN Tail(q) /\ q[k] = Tail(q)[k - 1]
<1>1. Len(q) \in Nat /\ Len(q) # 0 /\ DOMAIN q = 1 .. Len(q) /\ \A k \in DOMAIN q : q[k] \in S
  BY SeqFacts
<1>2. Head(q) = q[1]
  OBVIOUS
<1>3. /\ Tail(q) \in Seq(S) /\ Len(Tail(q)) = Len(q) - 1
      /\ \A k \in 1 .. Len(Tail(q)) : Tail(q)[k] = q[k + 1]
  BY HeadTailProperties
<1>4. DOMAIN Tail(q) = 1 .. Len(q) - 1
  BY <1>3, SeqFacts
<1> QED BY <1>1, <1>2, <1>3, <1>4

\* What is appended comes after all others.
LEMMA AppendFacts ==
    ASSUME NEW S, NEW q \in Seq(S), NEW e \in S
    PROVE  /\ Append(q, e) \in Seq(S) /\ Len(Append(q, e)) = Len(q) + 1
           /\ Append(q, e) # <<>>
           /\ DOMAIN Append(q, e) = 1 .. Len(q) + 1
           /\ \A k \in DOMAIN q : k \in DOMAIN Append(q, e) /\ Append(q, e)[k] = q[k]
           /\ Append(q, e)[Len(q) + 1] = e /\ Len(q) + 1 \in DOMAIN Append(q, e)
           /\ \A k \in DOMAIN Append(q, e) : k \in DOMAIN q \/ k = Len(q) + 1
<1>1. Len(q) \in Nat /\ DOMAIN q = 1 .. Len(q)
  BY SeqFacts
<1>2. /\ Append(q, e) \in Seq(S) /\ Len(Append(q, e)) = Len(q) + 1 /\ Append(q, e) # <<>>
      /\ \A k \in 1 .. Len(q) : Append(q, e)[k] = q[k]
      /\ Append(q, e)[Len(q) + 1] = e
  BY AppendProperties
<1>3. DOMAIN Append(q, e) = 1 .. Len(q) + 1
  BY <1>1, <1>2, SeqFacts
<1> QED BY <1>1, <1>2, <1>3

\* A prefix, and what follows a place.
LEMMA PrefixFacts ==
    ASSUME NEW S, NEW q \in Seq(S), NEW n \in 0 .. Len(q)
    PROVE  /\ SubSeq(q, 1, n) \in Seq(S) /\ Len(SubSeq(q, 1, n)) = n
           /\ DOMAIN SubSeq(q, 1, n) = 1 .. n
           /\ \A k \in 1 .. n : k \in DOMAIN q /\ SubSeq(q, 1, n)[k] = q[k]
<1>1. Len(q) \in Nat /\ DOMAIN q = 1 .. Len(q) /\ \A k \in DOMAIN q : q[k] \in S
  BY SeqFacts
<1>2. 1 \in Int /\ n \in Int /\ \A k \in 1 .. n : k \in DOMAIN q /\ q[k] \in S
  BY <1>1
<1>3. /\ SubSeq(q, 1, n) \in Seq(S)
      /\ Len(SubSeq(q, 1, n)) = IF 1 <= n THEN n - 1 + 1 ELSE 0
      /\ \A k \in 1 .. n - 1 + 1 : SubSeq(q, 1, n)[k] = q[1 + k - 1]
  BY <1>2, SubSeqProperties
<1>4. SubSeq(q, 1, n) \in Seq(S) /\ Len(SubSeq(q, 1, n)) = n
  BY <1>3
<1>5. DOMAIN SubSeq(q, 1, n) = 1 .. n
  BY <1>4, SeqFacts
<1> QED BY <1>2, <1>3, <1>4, <1>5

\* What follows place i.
LEMMA SuffixFacts ==
    ASSUME NEW S, NEW q \in Seq(S), NEW i \in 1 .. Len(q)
    PROVE  /\ SubSeq(q, i + 1, Len(q)) \in Seq(S)
           /\ DOMAIN SubSeq(q, i + 1, Len(q)) = 1 .. Len(q) - i
           /\ \A k \in 1 .. Len(q) - i : /\ k + i \in DOMAIN q /\ k + i > i
                                         /\ SubSeq(q, i + 1, Len(q))[k] = q[k + i]
<1>1. Len(q) \in Nat /\ DOMAIN q = 1 .. Len(q) /\ \A k \in DOMAIN q : q[k] \in S
  BY SeqFacts
<1> DEFINE r == SubSeq(q, i + 1, Len(q))
<1>2. i + 1 \in Int /\ Len(q) \in Int /\ \A k \in i + 1 .. Len(q) : q[k] \in S
  BY <1>1
<1>3. /\ r \in Seq(S) /\ Len(r) = IF i + 1 <= Len(q) THEN Len(q) - (i + 1) + 1 ELSE 0
      /\ \A k \in 1 .. Len(q) - (i + 1) + 1 : r[k] = q[i + 1 + k - 1]
  BY <1>2, SubSeqProperties
<1> HIDE DEF r
<1>4. Len(r) = Len(q) - i
  <2>1. i \in Int /\ i >= 1 /\ i <= Len(q) /\ Len(q) \in Int
    BY <1>1
  <2>2. CASE i + 1 <= Len(q)
    BY <1>3, <2>1, <2>2
  <2>3. CASE ~(i + 1 <= Len(q))
    BY <1>3, <2>1, <2>3
  <2> QED BY <2>2, <2>3
<1>5. DOMAIN r = 1 .. Len(q) - i
  BY <1>3, <1>4, SeqFacts
<1> QED BY <1>1, <1>3, <1>5 DEF r

\* Where the first line of some sorts is.
LEMMA FirstIs ==
    ASSUME buf \in Seq(Lines), NEW sorts
    PROVE  /\ First(sorts) = 0 => \A k \in DOMAIN buf : buf[k].what \notin sorts
           /\ First(sorts) # 0 => /\ First(sorts) \in 1 .. Len(buf)
                                  /\ buf[First(sorts)].what \in sorts
                                  /\ \A k \in DOMAIN buf : k < First(sorts) => buf[k].what \notin sorts
<1> DEFINE I == {k \in 1 .. Len(buf) : buf[k].what \in sorts}
<1>1. Len(buf) \in Nat /\ DOMAIN buf = 1 .. Len(buf)
  BY SeqFacts
<1>2. First(sorts) = IF I # {} THEN Min(I) ELSE 0
  BY DEF First, SelectInSeq
<1>3. ASSUME I # {} PROVE Min(I) \in I /\ \A k \in I : Min(I) <= k
  <2>1. \E m \in I : \A k \in I : m <= k
    <3>1. I \subseteq Nat
      BY <1>1
    <3>2. PICK m \in I : \A k \in I : ~(<<k, m>> \in OpToRel(<, Nat))
      BY <1>3, <3>1, NatLessThanWellFounded, WFMin
    <3>3. \A k \in I : m <= k
      <4>1. ASSUME NEW k \in I PROVE m <= k
        <5>1. k \in Nat /\ m \in Nat
          BY <3>1, <3>2
        <5>2. ~(k < m)
          BY <3>2, <5>1 DEF OpToRel
        <5> QED BY <5>1, <5>2
      <4> QED BY <4>1
    <3> QED BY <3>3
  <2> QED BY <2>1 DEF Min
<1>6. I \subseteq 1 .. Len(buf) /\ \A k \in 1 .. Len(buf) : k \in I <=> buf[k].what \in sorts
  OBVIOUS
<1> HIDE DEF I
<1>4. CASE I = {}
  BY <1>1, <1>2, <1>4, <1>6
<1>5. CASE I # {}
  <2> DEFINE m == Min(I)
  <2>1. First(sorts) = m /\ m \in I /\ \A k \in I : m <= k
    BY <1>2, <1>3, <1>5
  <2> HIDE DEF m
  <2>2. \A k \in 1 .. Len(buf) : k < m => k \notin I
    BY <1>1, <1>6, <2>1
  <2>3. m # 0
    BY <1>1, <1>6, <2>1
  <2> QED BY <1>1, <1>6, <2>1, <2>2, <2>3
<1> QED BY <1>4, <1>5
-----------------------------------------------------------------------------
(* The variables are well formed.                                          *)

\* What is left of the stack when the innermost calls end.
Under(s) ==
    /\ s \in Seq(Calls) /\ Len(s) <= Len(stack)
    /\ \A k \in DOMAIN s : k \in DOMAIN stack /\ s[k] = stack[k]

\* Every call is one of AT+CMGS, AT+CMGR and AT+CMGD.
LEMMA CallFacts ==
    ASSUME Types, NEW k \in DOMAIN stack
    PROVE  /\ stack[k] \in Calls /\ stack[k].id \in Ids /\ stack[k].id \in Nat
           /\ stack[k].kind \in Kinds /\ stack[k].phase \in {"prompt", "final"}
           /\ k \in Nat /\ k <= Len(stack) /\ k >= 1 /\ Len(stack) \in Nat
<1>1. stack \in Seq(Calls)
  BY DEF Types
<1>2. stack[k] \in Calls /\ Len(stack) \in Nat /\ DOMAIN stack = 1 .. Len(stack)
  BY <1>1, SeqFacts
<1> QED BY <1>2 DEF Calls, Ids

\* All of the stack, or nothing of it.
LEMMA UnderNone == ASSUME Types PROVE Under(<<>>) /\ Under(stack)
<1>1. stack \in Seq(Calls)
  BY DEF Types
<1>2. Len(stack) \in Nat
  BY <1>1, SeqFacts
<1>3. Under(<<>>)
  BY <1>2 DEF Under
<1>4. Under(stack)
  BY <1>1, <1>2 DEF Under
<1> QED BY <1>3, <1>4

\* The innermost call, and the ones it was called back from.
LEMMA TopFacts ==
    ASSUME Types, stack # <<>>
    PROVE  /\ Len(stack) \in Nat \ {0} /\ Len(stack) \in DOMAIN stack /\ DOMAIN stack = 1 .. Len(stack)
           /\ 1 \in DOMAIN stack
           /\ Top = stack[Len(stack)] /\ Top \in Calls
           /\ Under(Outer) /\ Len(Outer) = Len(stack) - 1
           /\ Outer # <<>> => /\ Under(Front(Outer)) /\ Len(Front(Outer)) = Len(stack) - 2
                              /\ Last(Outer) = stack[Len(stack) - 1] /\ Last(Outer) \in Calls
                              /\ Len(stack) - 1 \in DOMAIN stack
<1>1. stack \in Seq(Calls)
  BY DEF Types
<1>2. Len(stack) \in Nat /\ Len(stack) # 0 /\ DOMAIN stack = 1 .. Len(stack)
      /\ \A k \in DOMAIN stack : stack[k] \in Calls
  BY <1>1, SeqFacts
<1>3. Len(stack) - 1 \in 0 .. Len(stack) /\ Len(stack) \in DOMAIN stack /\ 1 \in DOMAIN stack
  BY <1>2
<1>4. Top = stack[Len(stack)] /\ Top \in Calls
  BY <1>2, <1>3 DEF Top
<1>5. Outer = SubSeq(stack, 1, Len(stack) - 1)
  BY DEF Outer, Front
<1>6. /\ Outer \in Seq(Calls) /\ Len(Outer) = Len(stack) - 1 /\ DOMAIN Outer = 1 .. Len(stack) - 1
      /\ \A k \in 1 .. Len(stack) - 1 : k \in DOMAIN stack /\ Outer[k] = stack[k]
  BY <1>1, <1>3, <1>5, PrefixFacts
<1>7. Under(Outer)
  BY <1>2, <1>6 DEF Under
<1>8. ASSUME Outer # <<>>
      PROVE  /\ Under(Front(Outer)) /\ Len(Front(Outer)) = Len(stack) - 2
             /\ Last(Outer) = stack[Len(stack) - 1] /\ Last(Outer) \in Calls
             /\ Len(stack) - 1 \in DOMAIN stack
  <2>1. Len(Outer) # 0
    BY <1>6, <1>8, SeqFacts
  <2>2. Len(stack) - 1 \in 1 .. Len(stack) - 1 /\ Len(stack) - 1 \in DOMAIN stack
        /\ Len(stack) - 2 \in 0 .. Len(Outer)
    BY <1>2, <1>6, <2>1
  <2>3. Last(Outer) = stack[Len(stack) - 1]
    BY <1>6, <2>2 DEF Last
  <2>4. Front(Outer) = SubSeq(Outer, 1, Len(stack) - 2)
    <3>1. Len(Outer) - 1 = Len(stack) - 2
      BY <1>2, <1>6
    <3> QED BY <3>1 DEF Front
  <2>5. /\ Front(Outer) \in Seq(Calls) /\ Len(Front(Outer)) = Len(stack) - 2
        /\ DOMAIN Front(Outer) = 1 .. Len(stack) - 2
        /\ \A k \in 1 .. Len(stack) - 2 : k \in DOMAIN Outer /\ Front(Outer)[k] = Outer[k]
    <3>1. \A n \in 0 .. Len(Outer) :
             /\ SubSeq(Outer, 1, n) \in Seq(Calls) /\ Len(SubSeq(Outer, 1, n)) = n
             /\ DOMAIN SubSeq(Outer, 1, n) = 1 .. n
             /\ \A k \in 1 .. n : k \in DOMAIN Outer /\ SubSeq(Outer, 1, n)[k] = Outer[k]
      BY <1>6, PrefixFacts
    <3> QED BY <2>2, <2>4, <3>1
  <2>6. Under(Front(Outer))
    BY <1>2, <1>6, <2>5 DEF Under
  <2> QED BY <1>2, <2>2, <2>3, <2>5, <2>6
<1> QED BY <1>2, <1>3, <1>4, <1>6, <1>7, <1>8

\* Writing a command above the calls that are left.
LEMMA WriteFacts ==
    ASSUME Types, NEW kind \in Kinds, NEW below, Under(below), Write(kind, below)
    PROVE  /\ commands + 1 \in Ids /\ commands' = commands + 1 /\ commands' <= MaxCommands
           /\ commands \in Nat /\ commands' \in Nat
           /\ Command(kind) \in Sent /\ Command(kind).id = commands + 1 /\ Command(kind).kind = kind
           /\ inbox' = Append(inbox, Command(kind)) /\ inbox' \in Seq(Sent)
           /\ stack' \in Seq(Calls) /\ DOMAIN stack' = 1 .. Len(below) + 1
           /\ Len(stack') = Len(below) + 1 /\ Len(below) \in Nat /\ stack' # <<>>
           /\ DOMAIN below = 1 .. Len(below)
           /\ \A k \in DOMAIN below : k \in DOMAIN stack' /\ stack'[k] = below[k]
           /\ stack'[Len(below) + 1].id = commands + 1 /\ stack'[Len(below) + 1].kind = kind
           /\ stack'[Len(below) + 1].phase = IF kind = "send" THEN "prompt" ELSE "final"
<1>1. commands \in Nat /\ commands < MaxCommands /\ MaxCommands \in Nat
  BY AtPortAssumption DEF Types, Write
<1>2. commands + 1 \in Ids /\ commands' = commands + 1 /\ commands' <= MaxCommands
  BY <1>1 DEF Ids, Write
<1>3. Command(kind) \in Sent /\ Command(kind).id = commands + 1 /\ Command(kind).kind = kind
  BY <1>2 DEF Command, Sent
<1>4. inbox \in Seq(Sent)
  BY DEF Types
<1>5. inbox' = Append(inbox, Command(kind)) /\ inbox' \in Seq(Sent)
  BY <1>3, <1>4, AppendFacts DEF Write
<1> DEFINE c == [id |-> commands + 1, kind |-> kind,
                 phase |-> IF kind = "send" THEN "prompt" ELSE "final"]
<1>6. c \in Calls /\ c.id = commands + 1 /\ c.kind = kind
      /\ c.phase = IF kind = "send" THEN "prompt" ELSE "final"
  BY <1>2 DEF Calls
<1>7. stack' = Append(below, c)
  BY DEF Write
<1> HIDE DEF c
<1>8. below \in Seq(Calls)
  BY DEF Under
<1>9. Len(below) \in Nat /\ DOMAIN below = 1 .. Len(below)
  BY <1>8, SeqFacts
<1>10. /\ stack' \in Seq(Calls) /\ DOMAIN stack' = 1 .. Len(below) + 1 /\ Len(stack') = Len(below) + 1
       /\ stack' # <<>>
       /\ \A k \in DOMAIN below : k \in DOMAIN stack' /\ stack'[k] = below[k]
       /\ stack'[Len(below) + 1] = c
  BY <1>6, <1>7, <1>8, AppendFacts
<1> QED BY <1>1, <1>2, <1>3, <1>5, <1>6, <1>9, <1>10

\* What is reported of the call that ends.
LEMMA ReportedFacts ==
    ASSUME Types, NEW c \in Calls, NEW state \in {"submitted", "failed", "unknown"},
           Reported(c, state)
    PROVE  /\ report' \in [Ids -> {"none", "submitted", "failed", "unknown"}]
           /\ \A i \in Ids : i # c.id \/ c.kind # "send" => report'[i] = report[i]
           /\ c.kind = "send" => report'[c.id] = state
<1>1. c.id \in Ids
  BY DEF Calls
<1>2. report \in [Ids -> {"none", "submitted", "failed", "unknown"}]
  BY DEF Types
<1>3. CASE c.kind = "send"
  BY <1>1, <1>2, <1>3 DEF Reported
<1>4. CASE c.kind # "send"
  BY <1>1, <1>2, <1>4 DEF Reported
<1> QED BY <1>3, <1>4

\* A line is an answer, a prompt or a notification.
LEMMA LineFacts ==
    /\ Notice \in Lines /\ Notice.what = "cmti" /\ ~IsPrompt(Notice) /\ ~IsFinal(Notice)
    /\ \A what \in Finals \cup {"prompt"}, c \in Sent :
          Line(what, c) \in Lines /\ Line(what, c).what = what
    /\ \A l \in Lines : l.what \in {"ok", "error", "prompt", "cmti"}
BY DEF Notice, Line, Lines, Finals, IsPrompt, IsFinal

\* The variables start well formed.
LEMMA TypesInit == Init => Types
<1> SUFFICES ASSUME Init PROVE Types
  OBVIOUS
<1>1. report \in [Ids -> {"none", "submitted", "failed", "unknown"}]
      /\ verdict \in [Ids -> {"none", "accepted", "refused"}]
  BY DEF Init
<1>2. stack \in Seq(Calls) /\ buf \in Seq(Lines) /\ inbox \in Seq(Sent)
  BY DEF Init
<1>3. commands \in Nat /\ commands <= MaxCommands /\ notices \in Nat /\ timeouts \in Nat
  BY AtPortAssumption DEF Init
<1> QED BY <1>1, <1>2, <1>3 DEF Init, Types

\* The modem keeps them so.
LEMMA TypesModem == ASSUME Types, Modem PROVE Types'
<1> DEFINE c == Head(inbox)
<1>1. inbox # <<>> /\ inbox \in Seq(Sent) /\ buf \in Seq(Lines)
  BY DEF Types, Modem
<1>2. c \in Sent /\ Tail(inbox) \in Seq(Sent)
  BY <1>1, TailFacts
<1>3. inbox' \in Seq(Sent)
  BY <1>2 DEF Modem
<1>4. c.id \in Ids \/ c.kind = "payload"
  BY <1>2 DEF Sent
<1>5. c.id \in Ids
  BY <1>2 DEF Sent
<1>6. \A what \in Finals \cup {"prompt"} : Append(buf, Line(what, c)) \in Seq(Lines)
  BY <1>1, <1>2, LineFacts, AppendFacts
<1> HIDE DEF c
<1>7. buf' = buf \/ \E what \in Finals \cup {"prompt"} : buf' = Append(buf, Line(what, c))
  BY DEF Modem, c, Finals
<1>8. buf' \in Seq(Lines)
  BY <1>1, <1>6, <1>7
<1>9. prompting' \in {prompting, <<c.id>>, <<>>}
  BY DEF Modem, c, Finals
<1>10. prompting' \in {<<>>} \cup {<<i>> : i \in Ids}
  BY <1>5, <1>9 DEF Types
<1>11. garbled' \in {garbled, TRUE, FALSE}
  BY DEF Modem
<1>12. garbled' \in BOOLEAN
  BY <1>11 DEF Types
<1>13. verdict' = verdict \/ \E final \in Finals : verdict' = [verdict EXCEPT ![c.id] =
                                      IF final = "ok" THEN "accepted" ELSE "refused"]
  BY DEF Modem, c, Finals
<1>14. verdict \in [Ids -> {"none", "accepted", "refused"}]
  BY DEF Types
<1>15. verdict' \in [Ids -> {"none", "accepted", "refused"}]
  BY <1>5, <1>13, <1>14
<1> QED BY <1>3, <1>8, <1>10, <1>12, <1>15 DEF Modem, Types, portVars

\* So does a step of the worker that writes what is well formed.
LEMMA TypesWorker ==
    ASSUME Types,
           stack' \in Seq(Calls), buf' \in Seq(Lines), inbox' \in Seq(Sent),
           open' \in BOOLEAN, UNCHANGED <<prompting, garbled, verdict>>,
           commands' \in Nat, commands' <= MaxCommands,
           report' \in [Ids -> {"none", "submitted", "failed", "unknown"}],
           interrupted' \in SUBSET Ids, notices' \in Nat, timeouts' \in Nat
    PROVE  Types'
BY DEF Types

\* The lines that are left when the first ones are read.
LEMMA BufLeft ==
    ASSUME Types
    PROVE  /\ buf \in Seq(Lines)
           /\ buf # <<>> => Tail(buf) \in Seq(Lines)
           /\ \A i \in 1 .. Len(buf) : SubSeq(buf, i + 1, Len(buf)) \in Seq(Lines)
<1>1. buf \in Seq(Lines)
  BY DEF Types
<1>2. buf # <<>> => Tail(buf) \in Seq(Lines)
  BY <1>1, TailFacts
<1>3. \A i \in 1 .. Len(buf) : SubSeq(buf, i + 1, Len(buf)) \in Seq(Lines)
  BY <1>1, SuffixFacts
<1> QED BY <1>1, <1>2, <1>3

\* So does every step.
LEMMA TypesStep == ASSUME Types, [Next]_vars PROVE Types'
<1> USE DEF portVars, modemVars
<1>0. /\ stack \in Seq(Calls) /\ buf \in Seq(Lines) /\ inbox \in Seq(Sent) /\ open \in BOOLEAN
      /\ commands \in Nat /\ commands <= MaxCommands /\ interrupted \in SUBSET Ids
      /\ report \in [Ids -> {"none", "submitted", "failed", "unknown"}]
      /\ notices \in Nat /\ timeouts \in Nat
  BY DEF Types
<1> DEFINE Kept == /\ stack' \in Seq(Calls) /\ inbox' \in Seq(Sent)
                   /\ commands' \in Nat /\ commands' <= MaxCommands
           Said == report' \in [Ids -> {"none", "submitted", "failed", "unknown"}]
<1>00. \A kind \in Kinds : \A below : Under(below) /\ Write(kind, below) => Kept
  BY WriteFacts
<1>01. ASSUME NEW c \in Calls, NEW state \in {"submitted", "failed", "unknown"}, Reported(c, state)
       PROVE  Said
  BY <1>01, ReportedFacts
<1>02. {"send", "read", "delete"} = Kinds /\ Under(<<>>) /\ Under(stack)
  BY UnderNone DEF Kinds
<1>03. stack # <<>> => Top \in Calls /\ Under(Outer) /\ Outer \in Seq(Calls)
  BY TopFacts DEF Under
<1>04. buf # <<>> => Tail(buf) \in Seq(Lines)
  BY BufLeft
<1> HIDE DEF Kept, Said
<1>1. CASE Modem
  BY <1>1, TypesModem
<1>2. CASE Notify
  <2>1. buf' \in Seq(Lines)
    BY <1>2, <1>0, LineFacts, AppendFacts DEF Notify
  <2>2. notices' \in Nat
    BY <1>2, <1>0 DEF Notify
  <2> QED BY <1>2, <1>0, <2>1, <2>2, TypesWorker DEF Notify
<1>3. CASE \E kind \in Kinds : Execute(kind)
  <2>1. PICK kind \in Kinds : Execute(kind)
    BY <1>3
  <2>2. Kept
    BY <2>1, <1>00, <1>02 DEF Execute
  <2> QED BY <1>0, <2>1, <2>2, TypesWorker DEF Execute, Kept
<1>4. CASE Drain
  <2>1. Kept
    <3>1. CASE Write("read", <<>>)
      BY <3>1, <1>00, <1>02
    <3>2. CASE UNCHANGED <<inbox, stack, commands>>
      BY <3>2, <1>0 DEF Kept
    <3> QED BY <1>4, <3>1, <3>2 DEF Drain
  <2>2. buf' \in Seq(Lines)
    BY <1>4, <1>04 DEF Drain
  <2> QED BY <1>4, <1>0, <2>1, <2>2, TypesWorker DEF Drain, Kept
<1>5. CASE Prompted
  <2>1. First({"prompt", "error"}) \in 1 .. Len(buf)
    BY <1>5, <1>0, FirstIs DEF Prompted
  <2>2. buf' \in Seq(Lines)
    BY <1>5, <2>1, BufLeft DEF Prompted, AfterPrompt
  <2>3. Payload(Top) \in Sent /\ [Top EXCEPT !.phase = "final"] \in Calls
    BY <1>5, <1>03 DEF Prompted, Calls, Sent, Payload
  <2>4. inbox' \in Seq(Sent)
    BY <1>5, <2>3, <1>0, AppendFacts DEF Prompted
  <2>5. stack' \in Seq(Calls)
    BY <1>5, <2>3, <1>03, AppendFacts DEF Prompted
  <2> QED BY <1>5, <1>0, <2>2, <2>4, <2>5, TypesWorker DEF Prompted
<1>6. CASE PromptRefused
  <2>1. First({"prompt", "error"}) \in 1 .. Len(buf)
    BY <1>6, <1>0, FirstIs DEF PromptRefused
  <2>2. PICK last \in First({"prompt", "error"}) .. Len(buf) : buf' = SubSeq(buf, last + 1, Len(buf))
    BY <1>6 DEF PromptRefused
  <2>3. last \in 1 .. Len(buf)
    <3>1. Len(buf) \in Nat
      BY <1>0, SeqFacts
    <3> QED BY <2>1, <2>2, <3>1
  <2>4. buf' \in Seq(Lines)
    BY <2>2, <2>3, BufLeft
  <2>5. Said
    BY <1>6, <1>01, <1>03 DEF PromptRefused
  <2> QED BY <1>6, <1>0, <1>03, <2>4, <2>5, TypesWorker DEF PromptRefused, Said
<1>7. CASE Answered
  <2>1. Kept
    <3>1. CASE Write("delete", Outer)
      BY <1>7, <3>1, <1>00, <1>02, <1>03 DEF Answered
    <3>2. CASE stack' = Outer /\ UNCHANGED <<inbox, commands>>
      BY <1>7, <3>2, <1>0, <1>03 DEF Answered, Kept
    <3> QED BY <1>7, <3>1, <3>2 DEF Answered
  <2>2. Said
    BY <1>7, <1>01, <1>03 DEF Answered
  <2>3. buf' \in Seq(Lines)
    BY <1>7, <1>04 DEF Answered
  <2> QED BY <1>7, <1>0, <2>1, <2>2, <2>3, TypesWorker DEF Answered, Kept, Said
<1>8. CASE OtherLine
  <2>1. buf' \in Seq(Lines)
    BY <1>8, <1>04 DEF OtherLine
  <2>2. CASE Write("read", stack) /\ interrupted' = interrupted \cup {c.id : c \in ToSet(stack)}
    <3>1. Kept
      BY <2>2, <1>00, <1>02
    <3>2. \A k \in DOMAIN stack : stack[k].id \in Ids
      <4>1. \A k \in DOMAIN stack : stack[k] \in Calls
        BY <1>0, SeqFacts
      <4> QED BY <4>1 DEF Calls
    <3>3. interrupted' \in SUBSET Ids
      BY <1>0, <2>2, <3>2 DEF ToSet
    <3> QED BY <1>8, <1>0, <2>1, <3>1, <3>3, TypesWorker DEF OtherLine, Kept
  <2>3. CASE UNCHANGED <<stack, inbox, commands, interrupted>>
    BY <1>8, <1>0, <2>1, <2>3, TypesWorker DEF OtherLine
  <2> QED BY <1>8, <2>2, <2>3 DEF OtherLine
<1>9. CASE TimedOut
  <2>1. stack' \in Seq(Calls)
    <3>1. Outer # <<>> => Front(Outer) \in Seq(Calls)
      BY <1>9, TopFacts DEF TimedOut, Under
    <3> QED BY <1>9, <3>1, <1>03 DEF TimedOut
  <2>2. Said
    <3>1. Outer # <<>> => Last(Outer) \in Calls
      BY <1>9, TopFacts DEF TimedOut
    <3>2. \/ UNCHANGED report \/ Reported(Top, "unknown")
          \/ Outer # <<>> /\ Reported(Last(Outer), "unknown")
      BY <1>9 DEF TimedOut
    <3> QED BY <1>9, <1>0, <1>01, <1>03, <3>1, <3>2 DEF TimedOut, Said
  <2>3. buf' \in Seq(Lines) /\ open' \in BOOLEAN
    <3>1. (buf' = buf \/ buf' = <<>>) /\ (open' = open \/ open' = FALSE)
      BY <1>9 DEF TimedOut
    <3>2. <<>> \in Seq(Lines)
      OBVIOUS
    <3>3. open' \in BOOLEAN
      BY <3>1, <1>0, Zenon
    <3> QED BY <1>0, <3>1, <3>2, <3>3
  <2>4. timeouts' \in Nat
    BY <1>9, <1>0 DEF TimedOut
  <2>5. UNCHANGED <<inbox, prompting, garbled, verdict, commands, interrupted, notices>>
    BY <1>9 DEF TimedOut
  <2> QED BY <1>0, <2>1, <2>2, <2>3, <2>4, <2>5, TypesWorker DEF Said
<1>10. CASE Reopen
  <2>1. <<>> \in Seq(Lines)
    OBVIOUS
  <2>2. buf' \in Seq(Lines) /\ open' \in BOOLEAN
    BY <1>10, <2>1 DEF Reopen
  <2> QED BY <1>10, <1>0, <2>2, TypesWorker DEF Reopen
<1>11. CASE UNCHANGED vars
  BY <1>11 DEF vars, Types
<1> QED BY <1>1, <1>2, <1>3, <1>4, <1>5, <1>6, <1>7, <1>8, <1>9, <1>10, <1>11 DEF Next

-----------------------------------------------------------------------------
(* How calls nest.                                                         *)

\* The innermost calls may end.
LEMMA NestedLeft ==
    ASSUME Types, Nested, Under(stack'), commands <= commands', commands' \in Nat,
           interrupted \subseteq interrupted',
           \A k \in DOMAIN stack' : report'[stack'[k].id] = "none"
    PROVE  Nested'
<1>1. stack' \in Seq(Calls) /\ stack \in Seq(Calls) /\ commands \in Nat
  BY DEF Under, Types
<1>2. /\ Len(stack') \in Nat /\ DOMAIN stack' = 1 .. Len(stack')
      /\ Len(stack) \in Nat /\ DOMAIN stack = 1 .. Len(stack) /\ Len(stack') <= Len(stack)
  BY <1>1, SeqFacts DEF Under
<1>3. \A k \in DOMAIN stack' : k \in DOMAIN stack /\ stack'[k] = stack[k]
  BY DEF Under
<1>4. ASSUME NEW k \in DOMAIN stack'
      PROVE  /\ stack'[k].kind = "send" => k = 1
             /\ stack'[k].phase = "prompt" => stack'[k].kind = "send" /\ k = Len(stack')
             /\ k < Len(stack') => stack'[k].kind # "read" /\ stack'[k].id \in interrupted'
             /\ stack'[k].id <= commands'
             /\ report'[stack'[k].id] = "none"
  <2>1. /\ k \in DOMAIN stack /\ stack'[k] = stack[k] /\ k \in Nat
        /\ k <= Len(stack') /\ k <= Len(stack)
    BY <1>2, <1>3
  <2>2. /\ stack[k].kind = "send" => k = 1
        /\ stack[k].phase = "prompt" => stack[k].kind = "send" /\ k = Len(stack)
        /\ k < Len(stack) => stack[k].kind # "read" /\ stack[k].id \in interrupted
        /\ stack[k].id <= commands
    BY <2>1 DEF Nested
  <2>3. stack[k].id \in Nat
    <3>1. stack[k] \in Calls
      BY <1>1, <2>1, SeqFacts
    <3> QED BY <3>1 DEF Calls, Ids
  <2> QED BY <1>1, <1>2, <2>1, <2>2, <2>3
<1>5. ASSUME NEW j \in DOMAIN stack', NEW k \in DOMAIN stack', j < k
      PROVE  stack'[j].id < stack'[k].id
  BY <1>3, <1>5 DEF Nested
<1> QED BY <1>4, <1>5 DEF Nested

\* A command is written above calls that are waiting for it.
LEMMA NestedWrite ==
    ASSUME Types, Nested, NEW kind \in Kinds, NEW below, Under(below), Write(kind, below),
           kind = "send" => below = <<>>, report'[commands + 1] = "none",
           \A k \in DOMAIN below : /\ below[k].kind # "read" /\ below[k].phase = "final"
                                   /\ below[k].id \in interrupted'
                                   /\ report'[below[k].id] = "none"
    PROVE  Nested'
<1> DEFINE n == Len(below)
<1>1. /\ commands \in Nat /\ commands' = commands + 1 /\ n \in Nat /\ DOMAIN below = 1 .. n
      /\ DOMAIN stack' = 1 .. n + 1 /\ Len(stack') = n + 1
      /\ \A k \in DOMAIN below : stack'[k] = below[k]
      /\ stack'[n + 1].id = commands + 1 /\ stack'[n + 1].kind = kind
      /\ stack'[n + 1].phase = IF kind = "send" THEN "prompt" ELSE "final"
  BY WriteFacts
<1>2. kind = "send" => n = 0
  OBVIOUS
<1>3. ASSUME NEW k \in DOMAIN below
      PROVE  /\ stack'[k].id \in Nat /\ stack'[k].id <= commands
             /\ stack'[k].kind = "send" => k = 1
  <2>1. k \in DOMAIN stack /\ stack'[k] = stack[k]
    BY <1>1 DEF Under
  <2>2. stack[k] \in Calls
    BY <2>1, SeqFacts DEF Types
  <2> QED BY <2>1, <2>2 DEF Nested, Calls, Ids
<1> HIDE DEF n
<1>4. ASSUME NEW k \in DOMAIN stack'
      PROVE  /\ stack'[k].kind = "send" => k = 1
             /\ stack'[k].phase = "prompt" => stack'[k].kind = "send" /\ k = Len(stack')
             /\ k < Len(stack') => stack'[k].kind # "read" /\ stack'[k].id \in interrupted'
             /\ stack'[k].id <= commands'
             /\ report'[stack'[k].id] = "none"
  <2>1. CASE k = n + 1
    BY <1>1, <1>2, <2>1
  <2>2. CASE k \in DOMAIN below
    <3>1. stack'[k] = below[k] /\ below[k].phase = "final" /\ below[k].kind # "read"
          /\ below[k].id \in interrupted' /\ report'[below[k].id] = "none"
      BY <1>1, <2>2
    <3> QED BY <1>1, <1>3, <2>2, <3>1
  <2> QED BY <1>1, <2>1, <2>2
<1>5. ASSUME NEW j \in DOMAIN stack', NEW k \in DOMAIN stack', j < k
      PROVE  stack'[j].id < stack'[k].id
  <2>1. j \in DOMAIN below
    BY <1>1, <1>5
  <2>2. CASE k = n + 1
    BY <1>1, <1>3, <2>1, <2>2
  <2>3. CASE k \in DOMAIN below
    <3>1. /\ j \in DOMAIN stack /\ stack'[j] = stack[j]
          /\ k \in DOMAIN stack /\ stack'[k] = stack[k]
      BY <1>1, <2>1, <2>3 DEF Under
    <3> QED BY <1>5, <3>1 DEF Nested
  <2> QED BY <1>1, <2>2, <2>3
<1> QED BY <1>4, <1>5 DEF Nested

\* The report of a call does not concern the calls it was called back from.
LEMMA NoReportLeft ==
    ASSUME Types, Nested, NEW m \in DOMAIN stack, NEW s, Under(s), Len(s) < m,
           \A i \in Ids : i # stack[m].id => report'[i] = report[i]
    PROVE  \A k \in DOMAIN s : report'[s[k].id] = "none" /\ s[k].id # stack[m].id
<1> SUFFICES ASSUME NEW k \in DOMAIN s
             PROVE  report'[s[k].id] = "none" /\ s[k].id # stack[m].id
  OBVIOUS
<1>1. s \in Seq(Calls) /\ k \in DOMAIN stack /\ s[k] = stack[k] /\ stack \in Seq(Calls)
  BY DEF Under, Types
<1>2. k < m
  <2>1. Len(s) \in Nat /\ DOMAIN s = 1 .. Len(s) /\ Len(stack) \in Nat /\ DOMAIN stack = 1 .. Len(stack)
    BY <1>1, SeqFacts
  <2> QED BY <2>1
<1>3. stack[k].id < stack[m].id /\ report[stack[k].id] = "none"
  BY <1>1, <1>2 DEF Nested
<1>4. stack[k].id \in Ids /\ stack[m].id \in Ids
  BY <1>1, CallFacts
<1>5. stack[k].id # stack[m].id
  BY <1>3, <1>4 DEF Ids
<1> QED BY <1>1, <1>3, <1>4, <1>5

\* No calls at the start.
LEMMA NestedInit == Init => Nested
BY DEF Init, Nested

\* Every step keeps the nesting.
LEMMA NestedStep == ASSUME Types, Nested, Fresh, [Next]_vars PROVE Nested'
<1> USE DEF portVars, modemVars
<1>0. Types'
  BY TypesStep
<1>1. /\ {"send", "read", "delete"} = Kinds /\ Under(<<>>) /\ Under(stack)
      /\ commands \in Nat /\ commands' \in Nat /\ interrupted \subseteq Ids
      /\ commands <= commands
  BY <1>0, UnderNone DEF Kinds, Types
<1>2. report[commands + 1] = "none" \/ commands + 1 \notin Ids
  BY <1>1 DEF Fresh
<1>3. \A k \in DOMAIN stack : report[stack[k].id] = "none"
  BY DEF Nested
<1>4. DOMAIN (<<>>) = {}
  OBVIOUS
<1>5. ASSUME NEW kind \in Kinds, Write(kind, <<>>), report' = report PROVE Nested'
  <2>1. commands + 1 \in Ids
    BY <1>1, <1>5, WriteFacts
  <2>2. report'[commands + 1] = "none"
    BY <1>2, <1>5, <2>1
  <2> QED BY <1>1, <1>4, <1>5, <2>2, NestedWrite
<1>6. ASSUME stack' = stack, report' = report, commands' = commands, interrupted' = interrupted
      PROVE  Nested'
  BY <1>6 DEF Nested
\* The ending call is at m, or it is no AT+CMGS.
<1>7. ASSUME NEW m \in DOMAIN stack, NEW s, Under(s), Len(s) < m,
             NEW state \in {"submitted", "failed", "unknown"}, Reported(stack[m], state)
      PROVE  \A k \in DOMAIN s : report'[s[k].id] = "none"
  <2>1. stack[m] \in Calls
    BY <1>7, SeqFacts DEF Types
  <2>2. \A i \in Ids : i # stack[m].id => report'[i] = report[i]
    BY <1>7, <2>1, ReportedFacts
  <2> QED BY <1>7, <2>2, NoReportLeft
<1>8. stack # <<>> => /\ Len(stack) \in DOMAIN stack /\ Top = stack[Len(stack)] /\ Under(Outer)
                      /\ Len(Outer) < Len(stack) /\ Len(Outer) = Len(stack) - 1
                      /\ Top \in Calls /\ Len(stack) \in Nat
  <2>1. ASSUME stack # <<>> PROVE Len(stack) - 1 < Len(stack)
    <3>1. Len(stack) \in Nat
      BY <2>1, TopFacts
    <3> QED BY <3>1
  <2> QED BY <2>1, TopFacts
<1>9. CASE Modem
  BY <1>6, <1>9 DEF Modem
<1>10. CASE Notify
  BY <1>6, <1>10 DEF Notify
<1>11. CASE \E kind \in Kinds : Execute(kind)
  BY <1>5, <1>11 DEF Execute
<1>12. CASE Drain
  BY <1>1, <1>5, <1>6, <1>12 DEF Drain
<1>13. CASE Prompted
  <2>1. stack # <<>> /\ Top.phase = "prompt"
    BY <1>13 DEF Prompted
  <2>2. Len(stack) = 1 /\ Top = stack[1] /\ 1 \in DOMAIN stack
    BY <1>8, <2>1 DEF Nested
  <2>3. Outer = <<>>
    <3>1. Outer \in Seq(Calls) /\ Len(Outer) = 0
      BY <1>8, <2>1, <2>2 DEF Under
    <3> QED BY <3>1, SeqFacts
  <2> DEFINE d == [Top EXCEPT !.phase = "final"]
  <2>4. d.id = stack[1].id /\ d.kind = stack[1].kind /\ d.phase = "final"
    BY <1>8, <2>1, <2>2 DEF Calls
  <2>5. stack' = <<d>>
    BY <1>13, <2>3 DEF Prompted
  <2> HIDE DEF d
  <2>6. DOMAIN stack' = {1} /\ Len(stack') = 1 /\ stack'[1] = d
    BY <2>5
  <2>7. d.id <= commands /\ report[d.id] = "none"
    BY <2>2, <2>4 DEF Nested
  <2>8. report' = report /\ commands' = commands
    BY <1>13 DEF Prompted
  <2> QED BY <2>4, <2>6, <2>7, <2>8 DEF Nested
<1>14. CASE PromptRefused
  <2>1. stack # <<>> /\ stack' = Outer /\ Reported(Top, "failed")
        /\ commands' = commands /\ interrupted' = interrupted
    BY <1>14 DEF PromptRefused
  <2>2. \A k \in DOMAIN Outer : report'[Outer[k].id] = "none"
    BY <1>7, <1>8, <2>1
  <2> QED BY <1>1, <1>8, <2>1, <2>2, NestedLeft
<1>15. CASE Answered
  <2>1. stack # <<>> /\ interrupted' = interrupted
        /\ \E state \in {"submitted", "failed", "unknown"} : Reported(Top, state)
    BY <1>15 DEF Answered
  <2>2. \A k \in DOMAIN Outer : report'[Outer[k].id] = "none"
    BY <1>7, <1>8, <2>1
  <2>3. CASE stack' = Outer /\ UNCHANGED <<inbox, commands>>
    BY <1>1, <1>8, <2>1, <2>2, <2>3, NestedLeft
  <2>4. CASE Top.kind = "read" /\ Write("delete", Outer)
    <3>1. report' = report
      BY <1>15, <2>4 DEF Answered, Reported
    <3>2. report'[commands + 1] = "none"
      <4>1. commands + 1 \in Ids
        BY <1>1, <1>8, <2>1, <2>4, WriteFacts
      <4> QED BY <1>2, <3>1, <4>1
    <3>3. ASSUME NEW k \in DOMAIN Outer
          PROVE  Outer[k].kind # "read" /\ Outer[k].phase = "final" /\ Outer[k].id \in interrupted'
      <4>1. k \in DOMAIN stack /\ Outer[k] = stack[k] /\ Outer \in Seq(Calls)
        BY <1>8, <2>1 DEF Under
      <4>2. k \in 1 .. Len(Outer)
        BY <4>1, SeqFacts
      <4>3. k < Len(stack)
        BY <1>8, <2>1, <4>2
      <4>4. stack[k].kind # "read" /\ stack[k].id \in interrupted
            /\ (stack[k].phase = "prompt" => k = Len(stack))
        BY <4>1, <4>3 DEF Nested
      <4>5. stack[k].phase \in {"prompt", "final"}
        BY <4>1, CallFacts
      <4> QED BY <2>1, <4>1, <4>3, <4>4, <4>5
    <3> QED BY <1>1, <1>8, <2>1, <2>2, <2>4, <3>2, <3>3, NestedWrite
  <2> QED BY <1>15, <2>3, <2>4 DEF Answered
<1>16. CASE OtherLine
  <2>1. stack # <<>> /\ Top.phase = "final" /\ report' = report
    BY <1>16 DEF OtherLine
  <2>2. CASE Top.kind # "read" /\ Write("read", stack)
             /\ interrupted' = interrupted \cup {c.id : c \in ToSet(stack)}
    <3>1. report'[commands + 1] = "none"
      <4>1. commands + 1 \in Ids
        BY <1>1, <2>2, WriteFacts
      <4> QED BY <1>2, <2>1, <4>1
    <3>2. ASSUME NEW k \in DOMAIN stack
          PROVE  stack[k].kind # "read" /\ stack[k].phase = "final" /\ stack[k].id \in interrupted'
      <4>1. k < Len(stack) \/ k = Len(stack)
        <5>1. Len(stack) \in Nat /\ DOMAIN stack = 1 .. Len(stack)
          BY SeqFacts DEF Types
        <5> QED BY <5>1
      <4>2. stack[k].kind # "read"
        BY <1>8, <2>1, <2>2, <4>1 DEF Nested
      <4>3. stack[k].phase \in {"prompt", "final"}
        BY CallFacts
      <4>4. stack[k].phase = "prompt" => k = Len(stack)
        BY DEF Nested
      <4>5. stack[k].id \in interrupted'
        BY <2>2 DEF ToSet
      <4> QED BY <1>8, <2>1, <4>2, <4>3, <4>4, <4>5
    <3>3. \A k \in DOMAIN stack : report'[stack[k].id] = "none"
      BY <1>3, <2>1
    <3> QED BY <1>1, <2>2, <3>1, <3>2, <3>3, NestedWrite
  <2>3. CASE UNCHANGED <<stack, inbox, commands, interrupted>>
    BY <1>6, <2>1, <2>3
  <2> QED BY <1>16, <2>2, <2>3 DEF OtherLine
<1>17. CASE TimedOut
  <2>1. stack # <<>> /\ commands' = commands /\ interrupted' = interrupted
    BY <1>17 DEF TimedOut
  <2>2. CASE stack' = Outer /\ Reported(Top, "unknown")
    <3>1. \A k \in DOMAIN Outer : report'[Outer[k].id] = "none"
      BY <1>7, <1>8, <2>1, <2>2
    <3> QED BY <1>1, <1>8, <2>1, <2>2, <3>1, NestedLeft
  <2>3. CASE Outer # <<>> /\ stack' = Front(Outer) /\ Reported(Last(Outer), "unknown")
    <3>1. /\ Under(Front(Outer)) /\ Len(Front(Outer)) = Len(stack) - 2
          /\ Last(Outer) = stack[Len(stack) - 1] /\ Len(stack) - 1 \in DOMAIN stack
      BY <2>1, <2>3, TopFacts
    <3>2. Len(Front(Outer)) < Len(stack) - 1
      BY <1>8, <2>1, <3>1
    <3>3. Reported(stack[Len(stack) - 1], "unknown")
      BY <2>3, <3>1
    <3>4. \A k \in DOMAIN Front(Outer) : report'[Front(Outer)[k].id] = "none"
      BY <1>7, <3>1, <3>2, <3>3
    <3> QED BY <1>1, <2>1, <2>3, <3>1, <3>4, NestedLeft
  <2>4. CASE stack' = <<>>
    BY <1>1, <2>1, <2>4, NestedLeft
  <2> QED BY <1>17, <2>2, <2>3, <2>4 DEF TimedOut
<1>18. CASE Reopen
  BY <1>6, <1>18 DEF Reopen
<1>19. CASE UNCHANGED vars
  BY <1>6, <1>19 DEF vars
<1> QED BY <1>9, <1>10, <1>11, <1>12, <1>13, <1>14, <1>15, <1>16, <1>17, <1>18, <1>19 DEF Next

-----------------------------------------------------------------------------
(* The prompt and the PDU.                                                 *)

\* The lines that are left when the first ones are read.
LinesLeft(b) ==
    /\ b \in Seq(Lines)
    /\ \E d \in Nat : \A k \in DOMAIN b : k + d \in DOMAIN buf /\ b[k] = buf[k + d]

\* Reading one line, or up to a place, or emptying the buffer.
LEMMA LinesLeftFacts ==
    ASSUME Types
    PROVE  /\ LinesLeft(buf) /\ LinesLeft(<<>>)
           /\ buf # <<>> => LinesLeft(Tail(buf))
           /\ \A i \in 1 .. Len(buf) : LinesLeft(SubSeq(buf, i + 1, Len(buf)))
<1>1. buf \in Seq(Lines)
  BY DEF Types
<1>2. Len(buf) \in Nat /\ DOMAIN buf = 1 .. Len(buf)
  BY <1>1, SeqFacts
<1>3. LinesLeft(buf)
  <2>1. \A k \in DOMAIN buf : k + 0 \in DOMAIN buf /\ buf[k] = buf[k + 0]
    BY <1>2
  <2> QED BY <1>1, <2>1 DEF LinesLeft
<1>4. LinesLeft(<<>>)
  BY DEF LinesLeft
<1>5. ASSUME buf # <<>> PROVE LinesLeft(Tail(buf))
  <2>1. Tail(buf) \in Seq(Lines) /\ \A k \in DOMAIN Tail(buf) : k + 1 \in DOMAIN buf /\ Tail(buf)[k] = buf[k + 1]
    BY <1>1, <1>5, TailFacts
  <2> QED BY <2>1 DEF LinesLeft
<1>6. ASSUME NEW i \in 1 .. Len(buf) PROVE LinesLeft(SubSeq(buf, i + 1, Len(buf)))
  <2> DEFINE b == SubSeq(buf, i + 1, Len(buf))
  <2>1. b \in Seq(Lines) /\ \A k \in DOMAIN b : k + i \in DOMAIN buf /\ b[k] = buf[k + i]
    BY <1>1, SuffixFacts
  <2>2. i \in Nat
    BY <1>2
  <2> HIDE DEF b
  <2>3. LinesLeft(b)
    BY <2>1, <2>2 DEF LinesLeft
  <2> QED BY <2>3 DEF b
<1> QED BY <1>3, <1>4, <1>5, <1>6

\* What is read or written by the worker, other than at a prompt.
Worked ==
    /\ LinesLeft(buf')
    /\ inbox' = inbox \/ \E kind \in Kinds : inbox' = Append(inbox, Command(kind))

\* A command has the next number and is no PDU.
LEMMA CommandFacts ==
    ASSUME Types, NEW kind \in Kinds, commands < MaxCommands
    PROVE  /\ Command(kind) \in Sent /\ Command(kind).kind = kind /\ kind # "payload"
           /\ Command(kind).id = commands + 1 /\ commands + 1 \in Ids
<1>1. commands + 1 \in Ids
  BY AtPortAssumption DEF Types, Ids
<1> QED BY <1>1 DEF Command, Sent, Kinds

\* A PDU in the inbox after a command was written was there before.
LEMMA PaidKept ==
    ASSUME Types, NEW kind \in Kinds, commands < MaxCommands,
           inbox' = Append(inbox, Command(kind))
    PROVE  /\ \A p \in DOMAIN inbox' : inbox'[p].kind = "payload" =>
                 p \in DOMAIN inbox /\ inbox'[p] = inbox[p]
           /\ inbox' \in Seq(Sent)
<1>1. inbox \in Seq(Sent) /\ Command(kind) \in Sent /\ Command(kind).kind # "payload"
  BY CommandFacts DEF Types
<1>2. /\ inbox' \in Seq(Sent)
      /\ \A p \in DOMAIN inbox : inbox'[p] = inbox[p]
      /\ inbox'[Len(inbox) + 1] = Command(kind)
      /\ \A p \in DOMAIN inbox' : p \in DOMAIN inbox \/ p = Len(inbox) + 1
  BY <1>1, AppendFacts
<1> QED BY <1>1, <1>2

\* Reading lines and giving commands.
LEMMA AtPromptWorked ==
    ASSUME Types, AtPrompt, Worked, commands < MaxCommands \/ inbox' = inbox,
           prompting' = prompting
    PROVE  AtPrompt'
<1>1. PICK d \in Nat : \A k \in DOMAIN buf' : k + d \in DOMAIN buf /\ buf'[k] = buf[k + d]
  BY DEF Worked, LinesLeft
<1>2. \A k \in DOMAIN buf' : k \in Nat
  <2>1. buf' \in Seq(Lines)
    BY DEF Worked, LinesLeft
  <2>2. Len(buf') \in Nat /\ DOMAIN buf' = 1 .. Len(buf')
    BY <2>1, SeqFacts
  <2> QED BY <2>2
<1>3. \A p \in DOMAIN inbox' : inbox'[p].kind = "payload" => p \in DOMAIN inbox /\ inbox'[p] = inbox[p]
  <2>1. CASE inbox' = inbox
    BY <2>1
  <2>2. CASE commands < MaxCommands /\ \E kind \in Kinds : inbox' = Append(inbox, Command(kind))
    BY <2>2, PaidKept
  <2> QED BY <2>1, <2>2 DEF Worked
<1>4. \A p, q \in DOMAIN inbox' :
          inbox'[p].kind = "payload" /\ inbox'[q].kind = "payload" => p = q
  BY <1>3 DEF AtPrompt
<1>5. ASSUME NEW p \in DOMAIN inbox', inbox'[p].kind = "payload"
      PROVE  prompting' # <<>> /\ \A k \in DOMAIN buf' : ~IsPrompt(buf'[k])
  <2>1. p \in DOMAIN inbox /\ inbox[p].kind = "payload"
    BY <1>3, <1>5
  <2>2. prompting # <<>> /\ \A k \in DOMAIN buf : ~IsPrompt(buf[k])
    BY <2>1 DEF AtPrompt
  <2> QED BY <1>1, <2>2
<1>6. ASSUME NEW k \in DOMAIN buf', IsPrompt(buf'[k])
      PROVE  prompting' # <<>> /\ \A j \in DOMAIN buf' : j > k => ~IsPrompt(buf'[j]) /\ ~IsFinal(buf'[j])
  <2>1. k + d \in DOMAIN buf /\ IsPrompt(buf[k + d])
    BY <1>1, <1>6
  <2>2. prompting # <<>>
        /\ \A j \in DOMAIN buf : j > k + d => ~IsPrompt(buf[j]) /\ ~IsFinal(buf[j])
    BY <2>1 DEF AtPrompt
  <2>3. ASSUME NEW j \in DOMAIN buf', j > k PROVE ~IsPrompt(buf'[j]) /\ ~IsFinal(buf'[j])
    <3>1. j + d \in DOMAIN buf /\ buf'[j] = buf[j + d] /\ j + d > k + d
      BY <1>1, <1>2, <2>3
    <3> QED BY <2>2, <3>1
  <2> QED BY <2>2, <2>3
<1> QED BY <1>4, <1>5, <1>6 DEF AtPrompt

\* A line comes: no prompt when there is one, no final line at a prompt.
LEMMA AtPromptLine ==
    ASSUME Types, AtPrompt, NEW l \in Lines, buf' = Append(buf, l),
           \A p \in DOMAIN inbox' : inbox'[p].kind = "payload" =>
               \E q \in DOMAIN inbox : inbox[q].kind = "payload",
           \A p, q \in DOMAIN inbox' :
               inbox'[p].kind = "payload" /\ inbox'[q].kind = "payload" => p = q,
           IsPrompt(l) \/ IsFinal(l) => /\ \A k \in DOMAIN buf : ~IsPrompt(buf[k])
                                        /\ \A p \in DOMAIN inbox' : inbox'[p].kind # "payload",
           ~IsPrompt(l) /\ ~IsFinal(l) => prompting' = prompting,
           IsPrompt(l) => prompting' # <<>>
    PROVE  AtPrompt'
<1>1. buf \in Seq(Lines)
  BY DEF Types
<1>2. /\ \A k \in DOMAIN buf : k \in DOMAIN buf' /\ buf'[k] = buf[k] /\ k \in Nat /\ k <= Len(buf)
      /\ buf'[Len(buf) + 1] = l /\ Len(buf) \in Nat
      /\ \A k \in DOMAIN buf' : k \in DOMAIN buf \/ k = Len(buf) + 1
  <2>1. Len(buf) \in Nat /\ DOMAIN buf = 1 .. Len(buf)
    BY <1>1, SeqFacts
  <2> QED BY <1>1, <2>1, AppendFacts
<1>3. ASSUME NEW p \in DOMAIN inbox', inbox'[p].kind = "payload"
      PROVE  prompting' # <<>> /\ \A k \in DOMAIN buf' : ~IsPrompt(buf'[k])
  <2>1. ~IsPrompt(l) /\ ~IsFinal(l) /\ prompting' = prompting
    BY <1>3
  <2>2. prompting # <<>> /\ \A k \in DOMAIN buf : ~IsPrompt(buf[k])
    BY <1>3 DEF AtPrompt
  <2> QED BY <1>2, <2>1, <2>2
<1>4. ASSUME NEW k \in DOMAIN buf', IsPrompt(buf'[k])
      PROVE  prompting' # <<>> /\ \A j \in DOMAIN buf' : j > k => ~IsPrompt(buf'[j]) /\ ~IsFinal(buf'[j])
  <2>1. CASE k = Len(buf) + 1
    <3>1. IsPrompt(l) /\ prompting' # <<>>
      BY <1>2, <1>4, <2>1
    <3>2. ASSUME NEW j \in DOMAIN buf', j > k PROVE FALSE
      BY <1>2, <2>1, <3>2
    <3> QED BY <3>1, <3>2
  <2>2. CASE k \in DOMAIN buf
    <3>1. IsPrompt(buf[k])
      BY <1>2, <1>4, <2>2
    <3>2. ~IsPrompt(l) /\ ~IsFinal(l) /\ prompting' = prompting
      BY <2>2, <3>1
    <3>3. prompting # <<>>
          /\ \A j \in DOMAIN buf : j > k => ~IsPrompt(buf[j]) /\ ~IsFinal(buf[j])
      BY <2>2, <3>1 DEF AtPrompt
    <3> QED BY <1>2, <3>2, <3>3
  <2> QED BY <1>2, <2>1, <2>2
<1> QED BY <1>3, <1>4 DEF AtPrompt

\* What the modem works on leaves the inbox.
LEMMA InboxTail ==
    ASSUME Types, inbox # <<>>, inbox' = Tail(inbox)
    PROVE  /\ Head(inbox) = inbox[1] /\ Head(inbox) \in Sent /\ 1 \in DOMAIN inbox
           /\ \A p \in DOMAIN inbox' : /\ p + 1 \in DOMAIN inbox /\ inbox'[p] = inbox[p + 1]
                                       /\ p \in Nat /\ p >= 1
           /\ inbox' \in Seq(Sent)
<1>1. inbox \in Seq(Sent)
  BY DEF Types
<1>2. inbox' \in Seq(Sent)
  BY <1>1, TailFacts
<1>3. \A p \in DOMAIN inbox' : p \in Nat /\ p >= 1
  <2>1. Len(inbox') \in Nat /\ DOMAIN inbox' = 1 .. Len(inbox')
    BY <1>2, SeqFacts
  <2> QED BY <2>1
<1> QED BY <1>1, <1>2, <1>3, TailFacts

\* The modem sends one prompt at a time, and answers the PDU after it.
LEMMA AtPromptModem == ASSUME Types, AtPrompt, Modem PROVE AtPrompt'
<1> DEFINE c == Head(inbox)
<1>1. inbox # <<>> /\ inbox' = Tail(inbox)
  BY DEF Modem
<1>2. /\ c = inbox[1] /\ c \in Sent /\ 1 \in DOMAIN inbox
      /\ \A p \in DOMAIN inbox' : /\ p + 1 \in DOMAIN inbox /\ inbox'[p] = inbox[p + 1]
                                  /\ p \in Nat /\ p >= 1
  BY <1>1, InboxTail
<1> HIDE DEF c
<1>3. \A p \in DOMAIN inbox' : inbox'[p].kind = "payload" =>
          \E q \in DOMAIN inbox : inbox[q].kind = "payload"
  BY <1>2
<1>4. ASSUME NEW p \in DOMAIN inbox', NEW q \in DOMAIN inbox',
             inbox'[p].kind = "payload", inbox'[q].kind = "payload"
      PROVE  p = q
  <2>1. p + 1 = q + 1
    BY <1>2, <1>4 DEF AtPrompt
  <2> QED BY <1>2, <2>1
<1>5. ASSUME prompting = <<>>
      PROVE  /\ \A p \in DOMAIN inbox' : inbox'[p].kind # "payload"
             /\ \A k \in DOMAIN buf : ~IsPrompt(buf[k])
  BY <1>2, <1>5 DEF AtPrompt
<1>6. \A what \in Finals \cup {"prompt"} : Line(what, c) \in Lines /\ Line(what, c).what = what
  BY <1>2, LineFacts
<1>7. CASE prompting = <<>> /\ buf' = Append(buf, Line("prompt", c)) /\ prompting' = <<c.id>>
  <2>1. IsPrompt(Line("prompt", c)) /\ Line("prompt", c) \in Lines /\ <<c.id>> # <<>>
    BY <1>6 DEF IsPrompt
  <2> QED BY <1>3, <1>4, <1>5, <1>7, <2>1, AtPromptLine
<1>8. CASE prompting = <<>> /\ \E final \in Finals : buf' = Append(buf, Line(final, c))
  <2>1. PICK final \in Finals : buf' = Append(buf, Line(final, c))
    BY <1>8
  <2>2. IsFinal(Line(final, c)) /\ ~IsPrompt(Line(final, c)) /\ Line(final, c) \in Lines
    BY <1>6 DEF IsFinal, IsPrompt, Finals
  <2> QED BY <1>3, <1>4, <1>5, <1>8, <2>1, <2>2, AtPromptLine
<1>9. CASE UNCHANGED <<buf, prompting>>
  BY <1>3, <1>4, <1>9 DEF AtPrompt
<1>10. CASE c.kind = "payload" /\ \E final \in Finals : buf' = Append(buf, Line(final, c))
  <2>1. PICK final \in Finals : buf' = Append(buf, Line(final, c))
    BY <1>10
  <2>2. IsFinal(Line(final, c)) /\ ~IsPrompt(Line(final, c)) /\ Line(final, c) \in Lines
    BY <1>6 DEF IsFinal, IsPrompt, Finals
  <2>3. \A k \in DOMAIN buf : ~IsPrompt(buf[k])
    BY <1>2, <1>10 DEF AtPrompt
  <2>4. ASSUME NEW p \in DOMAIN inbox', inbox'[p].kind = "payload" PROVE FALSE
    <3>1. p + 1 = 1
      BY <1>2, <1>10, <2>4 DEF AtPrompt
    <3> QED BY <1>2, <3>1
  <2> QED BY <1>3, <1>4, <2>1, <2>2, <2>3, <2>4, AtPromptLine
<1>11. \/ prompting = <<>> /\ buf' = Append(buf, Line("prompt", c)) /\ prompting' = <<c.id>>
       \/ prompting = <<>> /\ \E final \in Finals : buf' = Append(buf, Line(final, c))
       \/ UNCHANGED <<buf, prompting>>
       \/ c.kind = "payload" /\ \E final \in Finals : buf' = Append(buf, Line(final, c))
  BY DEF Modem, c, Finals
<1> QED BY <1>7, <1>8, <1>9, <1>10, <1>11

\* The worker's steps other than writing a PDU.
Works == \/ \E kind \in Kinds : Execute(kind)
         \/ Drain \/ PromptRefused \/ Answered \/ OtherLine \/ TimedOut

\* They read lines and give commands, and leave the modem alone.
LEMMA WorksFacts ==
    ASSUME Types, Works
    PROVE  /\ Worked /\ prompting' = prompting /\ verdict' = verdict
           /\ commands < MaxCommands \/ inbox' = inbox
           /\ \/ UNCHANGED <<inbox, commands>>
              \/ /\ commands' = commands + 1 /\ commands < MaxCommands
                 /\ \E kind \in Kinds : inbox' = Append(inbox, Command(kind))
<1> USE DEF modemVars, portVars
<1> DEFINE Gave == \/ UNCHANGED <<inbox, commands>>
                   \/ /\ commands' = commands + 1 /\ commands < MaxCommands
                      /\ \E kind \in Kinds : inbox' = Append(inbox, Command(kind))
<1>1. LinesLeft(buf) /\ LinesLeft(<<>>) /\ (buf # <<>> => LinesLeft(Tail(buf)))
      /\ buf \in Seq(Lines)
  BY LinesLeftFacts DEF Types
<1>2. ASSUME NEW kind \in Kinds, NEW below, Write(kind, below) PROVE Gave
  BY <1>2 DEF Write
<1>3. {"send", "read", "delete"} = Kinds
  BY DEF Kinds
<1> HIDE DEF Gave
<1>4. UNCHANGED <<inbox, commands>> => Gave
  BY DEF Gave
<1>5. Gave /\ LinesLeft(buf') /\ prompting' = prompting /\ verdict' = verdict
  <2>1. CASE \E kind \in Kinds : Execute(kind)
    BY <1>1, <1>2, <2>1 DEF Execute
  <2>2. CASE Drain
    BY <1>1, <1>2, <1>3, <1>4, <2>2 DEF Drain
  <2>3. CASE PromptRefused
    <3>1. First({"prompt", "error"}) \in 1 .. Len(buf)
      BY <1>1, <2>3, FirstIs DEF PromptRefused
    <3>2. PICK last \in First({"prompt", "error"}) .. Len(buf) : buf' = SubSeq(buf, last + 1, Len(buf))
      BY <2>3 DEF PromptRefused
    <3>3. last \in 1 .. Len(buf)
      <4>1. Len(buf) \in Nat
        BY <1>1, SeqFacts
      <4> QED BY <3>1, <3>2, <4>1
    <3>4. LinesLeft(buf')
      BY <3>2, <3>3, LinesLeftFacts
    <3> QED BY <1>4, <2>3, <3>4 DEF PromptRefused
  <2>4. CASE Answered
    BY <1>1, <1>2, <1>3, <1>4, <2>4 DEF Answered
  <2>5. CASE OtherLine
    BY <1>1, <1>2, <1>3, <1>4, <2>5 DEF OtherLine
  <2>6. CASE TimedOut
    BY <1>1, <1>4, <2>6 DEF TimedOut
  <2> QED BY <2>1, <2>2, <2>3, <2>4, <2>5, <2>6 DEF Works
<1> QED BY <1>5 DEF Gave, Worked

\* Writing the PDU: the call is the only one, the modem is at a prompt and
\* has no PDU yet, and only notifications are left to read.
LEMMA PromptedFacts ==
    ASSUME Types, Nested, AtPrompt, Prompted
    PROVE  /\ stack # <<>> /\ stack[1].kind = "send" /\ stack[1].phase = "prompt"
           /\ 1 \in DOMAIN stack /\ Len(stack) = 1 /\ stack[1] \in Calls
           /\ \E d \in Calls : /\ stack' = <<d>> /\ d.id = stack[1].id
                               /\ d.kind = "send" /\ d.phase = "final"
           /\ prompting # <<>> /\ \A p \in DOMAIN inbox : inbox[p].kind # "payload"
           /\ inbox' = Append(inbox, Payload(stack[1])) /\ Payload(stack[1]) \in Sent
           /\ buf' \in Seq(Lines)
           /\ \A k \in DOMAIN buf' : ~IsPrompt(buf'[k]) /\ ~IsFinal(buf'[k])
           /\ \E k \in DOMAIN buf : IsPrompt(buf[k])
<1>1. stack # <<>> /\ Top.phase = "prompt"
  BY DEF Prompted
<1>2. Len(stack) \in DOMAIN stack /\ Top = stack[Len(stack)] /\ Top \in Calls
      /\ Under(Outer) /\ Len(Outer) = Len(stack) - 1
  BY <1>1, TopFacts
<1>3. Len(stack) = 1 /\ Top = stack[1] /\ stack[1].kind = "send"
  BY <1>1, <1>2 DEF Nested
<1>4. Outer = <<>>
  <2>1. Outer \in Seq(Calls) /\ Len(Outer) = 0
    BY <1>2, <1>3 DEF Under
  <2> QED BY <2>1, SeqFacts
<1> DEFINE d == [Top EXCEPT !.phase = "final"]
           i == First({"prompt", "error"})
<1>5. d \in Calls /\ d.id = stack[1].id /\ d.kind = "send" /\ d.phase = "final" /\ stack' = <<d>>
  <2>1. stack' = <<d>>
    BY <1>4 DEF Prompted
  <2> QED BY <1>2, <1>3, <2>1 DEF Calls
<1>6. i \in 1 .. Len(buf) /\ buf[i].what = "prompt" /\ buf' = SubSeq(buf, i + 1, Len(buf))
      /\ \A k \in DOMAIN buf : k < i => buf[k].what \notin {"prompt", "error"}
  <2>1. buf \in Seq(Lines) /\ i # 0
    BY DEF Types, Prompted
  <2> QED BY <2>1, FirstIs DEF Prompted, AfterPrompt
<1> HIDE DEF d, i
<1>7. buf \in Seq(Lines) /\ Len(buf) \in Nat /\ DOMAIN buf = 1 .. Len(buf)
  BY SeqFacts DEF Types
<1>8. IsPrompt(buf[i]) /\ i \in DOMAIN buf
  BY <1>6, <1>7 DEF IsPrompt
<1>9. prompting # <<>> /\ \A p \in DOMAIN inbox : inbox[p].kind # "payload"
  BY <1>8 DEF AtPrompt
<1>10. \A j \in DOMAIN buf : j > i => ~IsPrompt(buf[j]) /\ ~IsFinal(buf[j])
  BY <1>8 DEF AtPrompt
<1>11. buf' \in Seq(Lines) /\ \A k \in DOMAIN buf' : /\ k + i \in DOMAIN buf /\ k + i > i
                                                     /\ buf'[k] = buf[k + i]
  BY <1>6, <1>7, SuffixFacts
<1>12. \A k \in DOMAIN buf' : ~IsPrompt(buf'[k]) /\ ~IsFinal(buf'[k])
  BY <1>10, <1>11
<1>13. inbox' = Append(inbox, Payload(stack[1])) /\ Payload(stack[1]) \in Sent
  BY <1>2, <1>3 DEF Prompted, Payload, Calls, Sent
<1> QED BY <1>1, <1>2, <1>3, <1>5, <1>8, <1>9, <1>11, <1>12, <1>13

\* The modem starts at no prompt.
LEMMA AtPromptInit == Init => AtPrompt
BY DEF Init, AtPrompt

\* Every step keeps the prompt and its PDU apart from all else.
LEMMA AtPromptStep == ASSUME Types, Nested, AtPrompt, [Next]_vars PROVE AtPrompt'
<1> USE DEF portVars, modemVars
<1>1. CASE Modem
  BY <1>1, AtPromptModem
<1>2. CASE Notify
  <2>1. buf' = Append(buf, Notice) /\ inbox' = inbox /\ prompting' = prompting
    BY <1>2 DEF Notify
  <2>2. \A p, q \in DOMAIN inbox :
          inbox[p].kind = "payload" /\ inbox[q].kind = "payload" => p = q
    BY DEF AtPrompt
  <2> QED BY <2>1, <2>2, LineFacts, AtPromptLine
<1>3. CASE Works
  BY <1>3, WorksFacts, AtPromptWorked
<1>4. CASE Prompted
  <2>1. /\ prompting # <<>> /\ \A p \in DOMAIN inbox : inbox[p].kind # "payload"
        /\ inbox' = Append(inbox, Payload(stack[1])) /\ Payload(stack[1]) \in Sent
        /\ \A k \in DOMAIN buf' : ~IsPrompt(buf'[k]) /\ ~IsFinal(buf'[k])
    BY <1>4, PromptedFacts
  <2>2. inbox \in Seq(Sent) /\ prompting' = prompting
    BY <1>4 DEF Types, Prompted
  <2>3. /\ \A p \in DOMAIN inbox : inbox'[p] = inbox[p]
        /\ \A p \in DOMAIN inbox' : p \in DOMAIN inbox \/ p = Len(inbox) + 1
    BY <2>1, <2>2, AppendFacts
  <2>4. \A p \in DOMAIN inbox' : inbox'[p].kind = "payload" => p = Len(inbox) + 1
    BY <2>1, <2>3
  <2> QED BY <2>1, <2>2, <2>4 DEF AtPrompt
<1>5. CASE Reopen
  BY <1>5 DEF Reopen, AtPrompt
<1>6. CASE UNCHANGED vars
  BY <1>6 DEF vars, AtPrompt
<1> QED BY <1>1, <1>2, <1>3, <1>4, <1>5, <1>6 DEF Next, Works

-----------------------------------------------------------------------------
(* What is reported is true.                                               *)

\* What the worker's steps do to the calls: nothing; some end, and another may
\* be called; the first is called; or one is called back.
LEMMA WorksStack ==
    ASSUME Types, Works
    PROVE  /\ interrupted \subseteq interrupted'
           /\ \/ UNCHANGED <<stack, inbox>>
              \/ \E s : /\ Under(s) /\ Len(s) < Len(stack)
                        /\ \/ stack' = s
                           \/ \E kind \in Kinds : Write(kind, s)
              \/ \E kind \in Kinds : Write(kind, <<>>)
              \/ Write("read", stack) /\ \A k \in DOMAIN stack : stack[k].id \in interrupted'
<1> USE DEF portVars, modemVars
<1>1. {"send", "read", "delete"} = Kinds /\ Under(<<>>) /\ Len(<<>>) = 0
  BY UnderNone DEF Kinds
<1>2. ASSUME stack # <<>>
      PROVE  /\ Under(Outer) /\ Len(Outer) < Len(stack) /\ Len(<<>>) < Len(stack)
             /\ Outer # <<>> => Under(Front(Outer)) /\ Len(Front(Outer)) < Len(stack)
  <2>1. Len(stack) \in Nat \ {0} /\ Under(Outer) /\ Len(Outer) = Len(stack) - 1
    BY <1>2, TopFacts
  <2>2. Outer # <<>> => Under(Front(Outer)) /\ Len(Front(Outer)) = Len(stack) - 2
    BY <1>2, TopFacts
  <2>3. Len(stack) - 1 < Len(stack) /\ Len(stack) - 2 < Len(stack) /\ 0 < Len(stack)
    BY <2>1
  <2> QED BY <1>1, <2>1, <2>2, <2>3
<1>3. CASE \E kind \in Kinds : Execute(kind)
  BY <1>3 DEF Execute
<1>4. CASE Drain
  BY <1>1, <1>4 DEF Drain
<1>5. CASE PromptRefused
  BY <1>2, <1>5 DEF PromptRefused
<1>6. CASE Answered
  BY <1>1, <1>2, <1>6 DEF Answered
<1>7. CASE OtherLine
  BY <1>7 DEF OtherLine, ToSet
<1>8. CASE TimedOut
  BY <1>1, <1>2, <1>8 DEF TimedOut
<1> QED BY <1>3, <1>4, <1>5, <1>6, <1>7, <1>8 DEF Works

\* The call at the bottom has written its PDU and was not interrupted: it was
\* there before, and nothing was written since.
LEMMA WorksOwn ==
    ASSUME Types, Nested, Works, stack' # <<>>, stack'[1].kind = "send",
           stack'[1].phase = "final", stack'[1].id \notin interrupted'
    PROVE  UNCHANGED <<stack, inbox>>
<1>1. interrupted \subseteq interrupted'
  BY WorksStack
<1>2. ASSUME NEW s, Under(s), Len(s) < Len(stack), s # <<>>
      PROVE  1 \in DOMAIN s /\ s[1].id \in interrupted
  <2>1. s \in Seq(Calls)
    BY <1>2 DEF Under
  <2>2. Len(s) \in Nat \ {0} /\ 1 \in DOMAIN s
    BY <1>2, <2>1, TailFacts
  <2>3. 1 \in DOMAIN stack /\ s[1] = stack[1] /\ 1 < Len(stack)
    <3>1. 1 \in DOMAIN stack /\ s[1] = stack[1]
      BY <1>2, <2>2 DEF Under
    <3>2. Len(stack) \in Nat
      BY <3>1, CallFacts
    <3> QED BY <1>2, <2>2, <3>1, <3>2
  <2> QED BY <2>2, <2>3 DEF Nested
<1>3. ASSUME NEW kind \in Kinds, NEW s, Under(s), Write(kind, s)
      PROVE  s # <<>> /\ 1 \in DOMAIN s => stack'[1] = s[1]
  BY <1>3, WriteFacts
<1>4. ASSUME NEW kind \in Kinds, Write(kind, <<>>) PROVE FALSE
  <2>1. Under(<<>>) /\ Len(<<>>) + 1 = 1
    BY UnderNone
  <2>2. /\ stack'[Len(<<>>) + 1].kind = kind
        /\ stack'[Len(<<>>) + 1].phase = IF kind = "send" THEN "prompt" ELSE "final"
    BY <1>4, <2>1, WriteFacts
  <2> QED BY <2>1, <2>2
<1>5. ASSUME NEW s, Under(s), Len(s) < Len(stack),
             stack' = s \/ \E kind \in Kinds : Write(kind, s)
      PROVE  FALSE
  <2>1. CASE s # <<>>
    <3>1. 1 \in DOMAIN s /\ s[1].id \in interrupted
      BY <1>2, <1>5, <2>1
    <3>2. stack'[1] = s[1]
      BY <1>3, <1>5, <2>1, <3>1
    <3> QED BY <1>1, <3>1, <3>2
  <2>2. CASE s = <<>>
    BY <1>4, <1>5, <2>2
  <2> QED BY <2>1, <2>2
<1>6. ASSUME Write("read", stack), \A k \in DOMAIN stack : stack[k].id \in interrupted'
      PROVE  FALSE
  <2>1. "read" \in Kinds /\ Under(stack)
    BY UnderNone DEF Kinds
  <2>2. CASE stack # <<>>
    <3>1. 1 \in DOMAIN stack
      BY <2>2, TopFacts
    <3>2. stack'[1] = stack[1]
      BY <1>3, <1>6, <2>1, <2>2, <3>1
    <3> QED BY <1>6, <3>1, <3>2
  <2>3. CASE stack = <<>>
    BY <1>4, <1>6, <2>1, <2>3
  <2> QED BY <2>2, <2>3
<1> QED BY <1>4, <1>5, <1>6, WorksStack

\* A call at its prompt was there before or is new.
LEMMA WorksPrompt ==
    ASSUME Types, Works, NEW k \in DOMAIN stack', stack'[k].phase = "prompt"
    PROVE  (k \in DOMAIN stack /\ stack'[k] = stack[k]) \/ stack'[k].id = commands + 1
<1>1. ASSUME NEW kind \in Kinds, NEW s, Under(s), Write(kind, s)
      PROVE  (k \in DOMAIN stack /\ stack'[k] = stack[k]) \/ stack'[k].id = commands + 1
  <2>1. /\ DOMAIN stack' = 1 .. Len(s) + 1 /\ DOMAIN s = 1 .. Len(s) /\ Len(s) \in Nat
        /\ \A j \in DOMAIN s : stack'[j] = s[j]
        /\ stack'[Len(s) + 1].id = commands + 1
    BY <1>1, WriteFacts
  <2>2. CASE k \in DOMAIN s
    BY <1>1, <2>1, <2>2 DEF Under
  <2>3. CASE k = Len(s) + 1
    BY <2>1, <2>3
  <2> QED BY <2>1, <2>2, <2>3
<1>2. ASSUME NEW s, Under(s), stack' = s
      PROVE  k \in DOMAIN stack /\ stack'[k] = stack[k]
  BY <1>2 DEF Under
<1>3. Under(<<>>) /\ Under(stack) /\ "read" \in Kinds
  BY UnderNone DEF Kinds
<1> QED BY <1>1, <1>2, <1>3, WorksStack

\* A PDU in the inbox was there before.
LEMMA WorksPaid ==
    ASSUME Types, Works, NEW i, Paid(i)'
    PROVE  Paid(i)
<1>1. CASE inbox' = inbox
  BY <1>1 DEF Paid
<1>2. CASE commands < MaxCommands /\ \E kind \in Kinds : inbox' = Append(inbox, Command(kind))
  <2>1. \A p \in DOMAIN inbox' : inbox'[p].kind = "payload" =>
                 p \in DOMAIN inbox /\ inbox'[p] = inbox[p]
    BY <1>2, PaidKept
  <2> QED BY <2>1 DEF Paid
<1> QED BY <1>1, <1>2, WorksFacts

\* What the worker's steps report.
LEMMA WorksReport ==
    ASSUME Types, Nested, Works, NEW i \in Ids, report'[i] # report[i]
    PROVE  /\ i <= commands
           /\ \/ report'[i] = "unknown"
              \/ PromptRefused /\ i = Top.id /\ Top \in Calls /\ report'[i] = "failed"
              \/ /\ Answered /\ i = Top.id /\ Top.kind = "send" /\ stack # <<>> /\ Top = stack[1]
                 /\ report'[i] = IF Head(buf).what = "ok" THEN "submitted" ELSE "failed"
<1>1. report' # report
  OBVIOUS
<1>2. PromptRefused \/ Answered \/ TimedOut
  BY <1>1 DEF Works, Execute, Drain, OtherLine
<1>3. stack # <<>>
  BY <1>2 DEF PromptRefused, Answered, TimedOut
<1>4. Len(stack) \in DOMAIN stack /\ Top = stack[Len(stack)] /\ Top \in Calls
  BY <1>3, TopFacts
<1>5. ASSUME NEW k \in DOMAIN stack, NEW state \in {"submitted", "failed", "unknown"},
             Reported(stack[k], state)
      PROVE  i = stack[k].id /\ stack[k].kind = "send" /\ report'[i] = state /\ k = 1 /\ i <= commands
  <2>1. stack[k] \in Calls
    BY CallFacts
  <2>2. i = stack[k].id /\ stack[k].kind = "send" /\ report'[i] = state
    BY <1>5, <2>1, ReportedFacts
  <2> QED BY <2>2 DEF Nested
<1>6. CASE PromptRefused
  <2>1. Reported(stack[Len(stack)], "failed")
    BY <1>4, <1>6 DEF PromptRefused
  <2> QED BY <1>4, <1>5, <1>6, <2>1
<1>7. CASE Answered
  <2>1. Reported(stack[Len(stack)], IF Head(buf).what = "ok" THEN "submitted" ELSE "failed")
    BY <1>4, <1>7 DEF Answered
  <2>2. (IF Head(buf).what = "ok" THEN "submitted" ELSE "failed") \in {"submitted", "failed", "unknown"}
    OBVIOUS
  <2>3. /\ i = stack[Len(stack)].id /\ stack[Len(stack)].kind = "send" /\ Len(stack) = 1 /\ i <= commands
        /\ report'[i] = IF Head(buf).what = "ok" THEN "submitted" ELSE "failed"
    BY <1>4, <1>5, <2>1, <2>2
  <2> QED BY <1>3, <1>4, <1>7, <2>3
<1>8. CASE TimedOut
  <2>1. Outer # <<>> => Last(Outer) = stack[Len(stack) - 1] /\ Len(stack) - 1 \in DOMAIN stack
    BY <1>3, TopFacts
  <2>2. Reported(Top, "unknown") \/ (Outer # <<>> /\ Reported(Last(Outer), "unknown"))
    BY <1>1, <1>8 DEF TimedOut
  <2> QED BY <1>4, <1>5, <2>1, <2>2
<1> QED BY <1>2, <1>6, <1>7, <1>8

\* What the modem does with a PDU.
LEMMA ModemFacts ==
    ASSUME Types, Modem
    PROVE  /\ Head(inbox) = inbox[1] /\ 1 \in DOMAIN inbox /\ Head(inbox) \in Sent
           /\ \A i : Paid(i)' => Paid(i)
           /\ \A i \in Ids : verdict'[i] # verdict[i] => Paid(i)
           /\ UNCHANGED <<stack, report, commands, interrupted>>
<1>1. inbox # <<>> /\ inbox' = Tail(inbox) /\ UNCHANGED <<stack, report, commands, interrupted>>
  BY DEF Modem, portVars
<1>2. /\ Head(inbox) = inbox[1] /\ Head(inbox) \in Sent /\ 1 \in DOMAIN inbox
      /\ \A p \in DOMAIN inbox' : p + 1 \in DOMAIN inbox /\ inbox'[p] = inbox[p + 1]
  BY <1>1, InboxTail
<1>3. \A i : Paid(i)' => Paid(i)
  BY <1>2 DEF Paid
<1>4. ASSUME NEW i \in Ids, verdict'[i] # verdict[i] PROVE Paid(i)
  <2>1. Head(inbox).kind = "payload"
        /\ \E v : verdict' = [verdict EXCEPT ![Head(inbox).id] = v]
    BY <1>4 DEF Modem
  <2>2. verdict \in [Ids -> {"none", "accepted", "refused"}]
    BY DEF Types
  <2>3. i = Head(inbox).id
    BY <1>4, <2>1, <2>2
  <2> QED BY <1>2, <2>1, <2>3 DEF Paid
<1> QED BY <1>1, <1>2, <1>3, <1>4

\* Nothing is known or reported at the start.
LEMMA FreshInit == Init => Fresh /\ Told
BY DEF Init, Fresh, Told, Paid

\* Verdicts and reports are about commands given, and come after the prompt.
LEMMA FreshStep == ASSUME Types, Nested, AtPrompt, Fresh, [Next]_vars PROVE Fresh'
<1> USE DEF portVars, modemVars
<1>0. commands \in Nat /\ commands' \in Nat
  <2>1. Types'
    BY TypesStep
  <2> QED BY <2>1 DEF Types
<1>1. CASE Modem
  <2>1. /\ \A i : Paid(i)' => Paid(i)
        /\ \A i \in Ids : verdict'[i] # verdict[i] => Paid(i)
        /\ UNCHANGED <<stack, report, commands, interrupted>>
    BY <1>1, ModemFacts
  <2>2. ASSUME NEW i \in Ids, verdict'[i] # "none" \/ report'[i] # "none" \/ Paid(i)'
        PROVE  i <= commands'
    BY <2>1, <2>2 DEF Fresh
  <2>3. ASSUME NEW i \in Ids, NEW k \in DOMAIN stack', stack'[k].phase = "prompt", stack'[k].id = i
        PROVE  verdict'[i] = "none" /\ ~Paid(i)'
    <3>1. verdict[i] = "none" /\ ~Paid(i)
      BY <2>1, <2>3 DEF Fresh
    <3> QED BY <2>1, <3>1
  <2> QED BY <2>2, <2>3 DEF Fresh
<1>2. CASE Works
  <2>1. verdict' = verdict /\ commands <= commands'
    <3>1. verdict' = verdict /\ (commands' = commands \/ commands' = commands + 1)
      BY <1>2, WorksFacts
    <3> QED BY <1>0, <3>1
  <2>2. \A i : Paid(i)' => Paid(i)
    BY <1>2, WorksPaid
  <2>3. \A i \in Ids : report'[i] # report[i] => i <= commands
    BY <1>2, WorksReport
  <2>4. ASSUME NEW i \in Ids, verdict'[i] # "none" \/ report'[i] # "none" \/ Paid(i)'
        PROVE  i <= commands'
    <3>1. i <= commands /\ i \in Nat
      BY <2>1, <2>2, <2>3, <2>4 DEF Fresh, Ids
    <3> QED BY <1>0, <2>1, <3>1
  <2>5. ASSUME NEW i \in Ids, NEW k \in DOMAIN stack', stack'[k].phase = "prompt", stack'[k].id = i
        PROVE  verdict'[i] = "none" /\ ~Paid(i)'
    <3>1. CASE k \in DOMAIN stack /\ stack'[k] = stack[k]
      <4>1. verdict[i] = "none" /\ ~Paid(i)
        BY <2>5, <3>1 DEF Fresh
      <4> QED BY <2>1, <2>2, <4>1
    <3>2. CASE stack'[k].id = commands + 1
      <4>1. ~(i <= commands)
        BY <1>0, <2>5, <3>2
      <4>2. verdict[i] = "none" /\ ~Paid(i)
        BY <4>1 DEF Fresh
      <4> QED BY <2>1, <2>2, <4>2
    <3> QED BY <1>2, <2>5, <3>1, <3>2, WorksPrompt
  <2> QED BY <2>4, <2>5 DEF Fresh
<1>3. CASE Prompted
  <2>1. UNCHANGED <<verdict, report, commands>>
    BY <1>3 DEF Prompted
  <2>2. /\ inbox' = Append(inbox, Payload(stack[1])) /\ Payload(stack[1]) \in Sent
        /\ \E d \in Calls : stack' = <<d>> /\ d.phase = "final"
        /\ 1 \in DOMAIN stack
    BY <1>3, PromptedFacts
  <2>3. \A k \in DOMAIN stack' : stack'[k].phase = "final"
    BY <2>2
  <2>4. /\ \A p \in DOMAIN inbox : inbox'[p] = inbox[p]
        /\ \A p \in DOMAIN inbox' : p \in DOMAIN inbox \/ p = Len(inbox) + 1
        /\ inbox'[Len(inbox) + 1] = Payload(stack[1])
    BY <2>2, AppendFacts DEF Types
  <2>5. \A i : Paid(i)' => Paid(i) \/ i = stack[1].id
    BY <2>4 DEF Paid, Payload
  <2>6. stack[1].id <= commands
    BY <2>2 DEF Nested
  <2> QED BY <2>1, <2>3, <2>5, <2>6 DEF Fresh
<1>4. CASE Notify \/ Reopen \/ UNCHANGED vars
  <2>1. UNCHANGED <<verdict, report, commands, stack, inbox>>
    BY <1>4 DEF Notify, Reopen, vars
  <2> QED BY <2>1 DEF Fresh, Paid
<1> QED BY <1>1, <1>2, <1>3, <1>4 DEF Next, Works

\* The modem works on what came before the PDU as on text, then on the PDU.
LEMMA OwnModem ==
    ASSUME Types, AtPrompt, Modem, NEW c \in Calls, NextIsOf(c)
    PROVE  NextIsOf(c)'
<1> DEFINE h == Head(inbox)
<1>1. /\ inbox # <<>> /\ inbox' = Tail(inbox) /\ inbox \in Seq(Sent) /\ buf \in Seq(Lines)
      /\ c.id \in Ids /\ verdict \in [Ids -> {"none", "accepted", "refused"}]
  BY DEF Modem, Types, Calls
<1>2. /\ inbox[Len(inbox)] = Payload(c)
      /\ \A k \in DOMAIN buf : ~IsFinal(buf[k])
  BY <1>1 DEF NextIsOf
<1>3. /\ h = inbox[1] /\ h \in Sent /\ 1 \in DOMAIN inbox /\ Len(inbox) \in Nat \ {0}
      /\ Len(inbox') = Len(inbox) - 1 /\ Len(inbox) \in DOMAIN inbox
      /\ inbox' \in Seq(Sent) /\ DOMAIN inbox' = 1 .. Len(inbox')
      /\ \A p \in DOMAIN inbox' : inbox'[p] = inbox[p + 1]
  <2>1. DOMAIN inbox = 1 .. Len(inbox)
    BY <1>1, SeqFacts
  <2>2. /\ h = inbox[1] /\ h \in Sent /\ inbox' \in Seq(Sent) /\ 1 \in DOMAIN inbox
        /\ Len(inbox) \in Nat \ {0} /\ Len(inbox') = Len(inbox) - 1
        /\ \A p \in DOMAIN inbox' : inbox'[p] = inbox[p + 1]
    BY <1>1, TailFacts
  <2>3. DOMAIN inbox' = 1 .. Len(inbox')
    BY <2>2, SeqFacts
  <2>4. Len(inbox) \in DOMAIN inbox
    BY <2>1, <2>2
  <2> QED BY <2>2, <2>3, <2>4
<1> HIDE DEF h
<1>4. inbox[Len(inbox)].kind = "payload" /\ inbox[Len(inbox)].id = c.id
  BY <1>2 DEF Payload
<1>5. CASE Len(inbox) = 1
  <2>1. h.kind = "payload" /\ h.id = c.id
    BY <1>3, <1>4, <1>5
  <2>2. inbox' = <<>>
    <3>1. Len(inbox') = 0
      BY <1>3, <1>5
    <3> QED BY <1>3, <3>1, SeqFacts
  <2>3. PICK final \in Finals :
           /\ buf' = Append(buf, Line(final, h))
           /\ verdict' = [verdict EXCEPT ![h.id] = IF final = "ok" THEN "accepted" ELSE "refused"]
    BY <2>1 DEF Modem, h
  <2>4. verdict'[c.id] = IF final = "ok" THEN "accepted" ELSE "refused"
    BY <1>1, <2>1, <2>3
  <2>5. Line(final, h) \in Lines /\ Line(final, h).what = final
    BY <1>3, LineFacts
  <2>6. \A k \in DOMAIN buf' : (k \in DOMAIN buf /\ buf'[k] = buf[k]) \/ buf'[k] = Line(final, h)
    BY <1>1, <2>3, <2>5, AppendFacts
  <2>7. ASSUME NEW k \in DOMAIN buf', buf'[k].what \in Finals PROVE buf'[k].what = final
    BY <1>2, <2>5, <2>6, <2>7 DEF IsFinal
  <2>8. ASSUME NEW k \in DOMAIN buf'
        PROVE  /\ buf'[k].what = "ok" => verdict'[c.id] = "accepted"
               /\ buf'[k].what = "error" => verdict'[c.id] = "refused"
    BY <2>4, <2>7 DEF Finals
  <2> QED BY <2>2, <2>8 DEF NextIsOf
<1>6. CASE Len(inbox) # 1
  <2>1. h.kind # "payload"
    BY <1>3, <1>4, <1>6 DEF AtPrompt
  <2>2. prompting # <<>>
    BY <1>3, <1>4 DEF AtPrompt
  <2>3. UNCHANGED <<buf, verdict>>
    BY <2>1, <2>2 DEF Modem, h
  <2>4. Len(inbox') \in DOMAIN inbox' /\ Len(inbox') + 1 = Len(inbox)
    BY <1>3, <1>6
  <2>5. inbox'[Len(inbox')] = inbox[Len(inbox)] /\ inbox' # <<>>
    BY <1>3, <2>4
  <2> QED BY <1>2, <2>3, <2>5 DEF NextIsOf
<1> QED BY <1>5, <1>6

\* No call at the start.
LEMMA OwnInit == Init => Own
BY DEF Init, Own

\* Every step keeps the verdict on the PDU next, unless a notification interrupts.
LEMMA OwnStep == ASSUME Types, Nested, AtPrompt, Own, [Next]_vars PROVE Own'
<1> USE DEF portVars, modemVars
<1> SUFFICES ASSUME stack' # <<>>, NEW c, c = stack'[1], c.kind = "send", c.phase = "final",
                    c.id \notin interrupted'
             PROVE  NextIsOf(c)'
  BY DEF Own, NextIsOf, Payload
<1>1. ASSUME UNCHANGED <<stack, interrupted>>
      PROVE  NextIsOf(c) /\ c \in Calls /\ stack # <<>>
  <2>1. stack # <<>> /\ c = stack[1]
    BY <1>1
  <2>2. 1 \in DOMAIN stack
    BY <2>1, TopFacts
  <2> QED BY <1>1, <2>1, <2>2, CallFacts DEF Own
<1>2. CASE Modem
  BY <1>1, <1>2, OwnModem DEF Modem
<1>3. CASE Notify
  <2>1. UNCHANGED <<stack, interrupted, inbox, verdict>> /\ buf' = Append(buf, Notice)
        /\ buf \in Seq(Lines)
    BY <1>3 DEF Notify, Types
  <2>2. Notice \in Lines /\ Notice.what = "cmti" /\ ~IsFinal(Notice)
    BY LineFacts
  <2>3. \A k \in DOMAIN buf' : (k \in DOMAIN buf /\ buf'[k] = buf[k]) \/ buf'[k] = Notice
    BY <2>1, <2>2, AppendFacts
  <2>4. NextIsOf(c)
    BY <1>1, <2>1
  <2> QED BY <2>1, <2>2, <2>3, <2>4 DEF NextIsOf
<1>4. CASE Works
  <2>1. UNCHANGED <<stack, inbox>>
    BY <1>4, WorksOwn
  <2>2. interrupted \subseteq interrupted'
    BY <1>4, WorksStack
  <2>3. NextIsOf(c)
    BY <2>1, <2>2 DEF Own
  <2>4. verdict' = verdict /\ Worked
    BY <1>4, WorksFacts
  <2>5. PICK d \in Nat : \A k \in DOMAIN buf' : k + d \in DOMAIN buf /\ buf'[k] = buf[k + d]
    BY <2>4 DEF Worked, LinesLeft
  <2> QED BY <2>1, <2>3, <2>4, <2>5 DEF NextIsOf
<1>5. CASE Prompted
  <2>1. /\ \E d \in Calls : stack' = <<d>> /\ d.id = stack[1].id
        /\ inbox' = Append(inbox, Payload(stack[1])) /\ Payload(stack[1]) \in Sent
        /\ \A k \in DOMAIN buf' : ~IsFinal(buf'[k])
    BY <1>5, PromptedFacts
  <2>2. Payload(c) = Payload(stack[1])
    BY <2>1 DEF Payload
  <2>3. /\ inbox' # <<>> /\ Len(inbox') = Len(inbox) + 1
        /\ inbox'[Len(inbox) + 1] = Payload(stack[1])
    BY <2>1, AppendFacts DEF Types
  <2>4. inbox'[Len(inbox')] = Payload(c)
    BY <2>2, <2>3
  <2> QED BY <2>1, <2>3, <2>4 DEF NextIsOf, Payload
<1>6. CASE Reopen
  <2>1. UNCHANGED <<stack, interrupted, verdict>> /\ inbox = <<>> /\ inbox' = <<>> /\ buf' = <<>>
    BY <1>6 DEF Reopen
  <2> QED BY <2>1 DEF NextIsOf
<1>7. CASE UNCHANGED vars
  <2>1. UNCHANGED <<stack, interrupted, inbox, buf, verdict>>
    BY <1>7 DEF vars
  <2> QED BY <1>1, <2>1 DEF NextIsOf
<1> QED BY <1>2, <1>3, <1>4, <1>5, <1>6, <1>7 DEF Next, Works

\* Every report of an SMS that was not interrupted is that verdict.
LEMMA ToldStep ==
    ASSUME Types, Nested, Fresh, Own, Told, [Next]_vars, AtPrompt
    PROVE  Told'
<1> USE DEF portVars, modemVars
<1> SUFFICES ASSUME NEW i \in Ids \ interrupted', report'[i] \in {"submitted", "failed"}
             PROVE  ~Paid(i)' /\ (report'[i] = "submitted" <=> verdict'[i] = "accepted")
  BY DEF Told
<1>1. ASSUME interrupted \subseteq interrupted', report'[i] = report[i]
      PROVE  ~Paid(i) /\ (report[i] = "submitted" <=> verdict[i] = "accepted")
  BY <1>1 DEF Told
<1>2. CASE Modem
  <2>1. /\ Paid(i)' => Paid(i)
        /\ verdict'[i] # verdict[i] => Paid(i)
        /\ UNCHANGED <<report, interrupted>>
    BY <1>2, ModemFacts
  <2>2. ~Paid(i) /\ (report[i] = "submitted" <=> verdict[i] = "accepted")
    BY <1>1, <2>1
  <2> QED BY <2>1, <2>2
<1>3. CASE Works
  <2>1. verdict' = verdict /\ interrupted \subseteq interrupted'
    BY <1>3, WorksFacts, WorksStack
  <2>2. Paid(i)' => Paid(i)
    BY <1>3, WorksPaid
  <2>3. CASE report'[i] = report[i]
    BY <1>1, <2>1, <2>2, <2>3
  <2>4. CASE PromptRefused /\ i = Top.id /\ report'[i] = "failed"
    <3>1. stack # <<>> /\ Top.phase = "prompt"
      BY <2>4 DEF PromptRefused
    <3>2. Len(stack) \in DOMAIN stack /\ Top = stack[Len(stack)]
      BY <3>1, TopFacts
    <3>3. verdict[i] = "none" /\ ~Paid(i)
      BY <2>4, <3>1, <3>2 DEF Fresh
    <3> QED BY <2>1, <2>2, <2>4, <3>3
  <2>5. CASE /\ Answered /\ i = Top.id /\ Top.kind = "send" /\ stack # <<>> /\ Top = stack[1]
             /\ report'[i] = IF Head(buf).what = "ok" THEN "submitted" ELSE "failed"
    <3>1. Top.phase = "final" /\ buf # <<>> /\ Head(buf).what \in Finals
      BY <2>5 DEF Answered
    <3>2. NextIsOf(stack[1])
      BY <2>1, <2>5, <3>1 DEF Own
    <3>3. 1 \in DOMAIN buf /\ Head(buf) = buf[1]
      BY <3>1, TailFacts DEF Types
    <3>4. /\ inbox = <<>>
          /\ buf[1].what = "ok" => verdict[i] = "accepted"
          /\ buf[1].what = "error" => verdict[i] = "refused"
      BY <2>5, <3>1, <3>2, <3>3 DEF NextIsOf, IsFinal
    <3>5. ~Paid(i)
      BY <3>4 DEF Paid
    <3>6. report'[i] = "submitted" <=> verdict[i] = "accepted"
      BY <2>5, <3>1, <3>3, <3>4 DEF Finals
    <3> QED BY <2>1, <2>2, <3>5, <3>6
  <2> QED BY <1>3, <2>3, <2>4, <2>5, WorksReport
<1>4. CASE Prompted
  <2>1. UNCHANGED <<verdict, report, interrupted>>
    BY <1>4 DEF Prompted
  <2>2. /\ inbox' = Append(inbox, Payload(stack[1])) /\ Payload(stack[1]) \in Sent
        /\ 1 \in DOMAIN stack
    BY <1>4, PromptedFacts
  <2>3. /\ \A p \in DOMAIN inbox : inbox'[p] = inbox[p]
        /\ \A p \in DOMAIN inbox' : p \in DOMAIN inbox \/ p = Len(inbox) + 1
        /\ inbox'[Len(inbox) + 1] = Payload(stack[1])
    BY <2>2, AppendFacts DEF Types
  <2>4. Paid(i)' => Paid(i) \/ i = stack[1].id
    BY <2>3 DEF Paid, Payload
  <2>5. report[stack[1].id] = "none"
    BY <2>2 DEF Nested
  <2> QED BY <1>1, <2>1, <2>4, <2>5
<1>5. CASE Notify \/ Reopen \/ UNCHANGED vars
  <2>1. UNCHANGED <<verdict, report, interrupted, inbox>>
    BY <1>5 DEF Notify, Reopen, vars
  <2>2. Paid(i)' <=> Paid(i)
    BY <2>1 DEF Paid
  <2> QED BY <1>1, <2>1, <2>2
<1> QED BY <1>2, <1>3, <1>4, <1>5 DEF Next, Works

-----------------------------------------------------------------------------
(* Without timeouts no answer is left over.                                *)

\* The number of answers is zero if there are none.
LEMMA AnswersType ==
    ASSUME NEW q \in Seq(Lines)
    PROVE  /\ Answers(q) \in Nat /\ IsFiniteSet({k \in DOMAIN q : IsFinal(q[k])})
           /\ Answers(q) = 0 <=> \A k \in DOMAIN q : ~IsFinal(q[k])
<1> DEFINE F == {k \in DOMAIN q : IsFinal(q[k])}
<1>1. Len(q) \in Nat /\ DOMAIN q = 1 .. Len(q)
  BY SeqFacts
<1>2. IsFiniteSet(DOMAIN q)
  BY <1>1, FS_Interval
<1>3. IsFiniteSet(F)
  <2>1. F \in SUBSET DOMAIN q
    OBVIOUS
  <2> QED BY <1>2, <2>1, FS_Subset
<1>4. Cardinality(F) \in Nat /\ (Cardinality(F) = 0 <=> F = {})
  BY <1>3, FS_CardinalityType, FS_EmptySet
<1> QED BY <1>3, <1>4 DEF Answers

\* A line that comes counts if it is final.
LEMMA AnswersAppend ==
    ASSUME NEW q \in Seq(Lines), NEW l \in Lines
    PROVE  Answers(Append(q, l)) = Answers(q) + (IF IsFinal(l) THEN 1 ELSE 0)
<1> DEFINE r == Append(q, l)
           F == {k \in DOMAIN q : IsFinal(q[k])}
           G == {k \in DOMAIN r : IsFinal(r[k])}
<1>1. /\ \A k \in DOMAIN q : k \in DOMAIN r /\ r[k] = q[k]
      /\ r[Len(q) + 1] = l /\ Len(q) + 1 \in DOMAIN r
      /\ \A k \in DOMAIN r : k \in DOMAIN q \/ k = Len(q) + 1
  BY AppendFacts
<1>2. Len(q) + 1 \notin DOMAIN q
  <2>1. Len(q) \in Nat /\ DOMAIN q = 1 .. Len(q)
    BY SeqFacts
  <2> QED BY <2>1
<1> HIDE DEF r
<1>3. IsFiniteSet(F) /\ Answers(q) = Cardinality(F) /\ Answers(q) \in Nat
  BY AnswersType DEF Answers
<1>4. Answers(r) = Cardinality(G)
  BY DEF Answers
<1>5. CASE IsFinal(l)
  <2>1. G = F \cup {Len(q) + 1} /\ Len(q) + 1 \notin F
    BY <1>1, <1>2, <1>5
  <2> HIDE DEF F, G
  <2>2. Cardinality(G) = Cardinality(F) + 1
    BY <1>3, <2>1, FS_AddElement
  <2> QED BY <1>3, <1>4, <1>5, <2>2 DEF r
<1>6. CASE ~IsFinal(l)
  <2>1. G = F
    BY <1>1, <1>6
  <2> HIDE DEF F, G
  <2> QED BY <1>3, <1>4, <1>6, <2>1 DEF r
<1> QED BY <1>5, <1>6

\* A line that is read no longer counts.
LEMMA AnswersTail ==
    ASSUME NEW q \in Seq(Lines), q # <<>>
    PROVE  Answers(Tail(q)) = Answers(q) - (IF IsFinal(Head(q)) THEN 1 ELSE 0)
<1> DEFINE r == Tail(q)
           F == {k \in DOMAIN q : IsFinal(q[k])}
           G == {k \in DOMAIN r : IsFinal(r[k])}
           Older == [k \in G |-> k + 1]
<1>1. /\ Head(q) = q[1] /\ r \in Seq(Lines) /\ 1 \in DOMAIN q
      /\ \A k \in DOMAIN r : k + 1 \in DOMAIN q /\ r[k] = q[k + 1]
      /\ \A k \in DOMAIN q : k # 1 => k - 1 \in DOMAIN r /\ q[k] = r[k - 1]
  BY TailFacts
<1>2. /\ IsFiniteSet(F) /\ Answers(q) = Cardinality(F) /\ Answers(q) \in Nat
      /\ IsFiniteSet(G) /\ Answers(r) = Cardinality(G) /\ Answers(r) \in Nat
  BY <1>1, AnswersType DEF Answers
<1>3. (\A k \in DOMAIN r : k \in Nat /\ k >= 1) /\ (\A k \in DOMAIN q : k \in Nat)
  <2>1. Len(q) \in Nat /\ DOMAIN q = 1 .. Len(q) /\ Len(r) \in Nat /\ DOMAIN r = 1 .. Len(r)
    BY <1>1, SeqFacts
  <2> HIDE DEF r
  <2> QED BY <2>1
<1> HIDE DEF r
<1>4. Cardinality(F \ {1}) = Cardinality(G)
  <2>1. ASSUME NEW k \in G PROVE k + 1 \in F \ {1}
    BY <1>1, <1>3
  <2>2. ASSUME NEW k \in F \ {1} PROVE k - 1 \in G /\ (k - 1) + 1 = k
    BY <1>1, <1>3
  <2>3. ASSUME NEW j \in G, NEW k \in G, j + 1 = k + 1 PROVE j = k
    BY <1>3, <2>3
  <2> HIDE DEF F, G
  <2>4. Older \in [G -> F \ {1}]
    BY <2>1
  <2>5. \A k \in F \ {1} : \E j \in G : Older[j] = k
    BY <2>2
  <2>6. \A j, k \in G : Older[j] = Older[k] => j = k
    BY <2>3
  <2> HIDE DEF Older
  <2>7. Older \in Bijection(G, F \ {1})
    BY <2>4, <2>5, <2>6, Fun_IsBij
  <2>8. ExistsBijection(G, F \ {1})
    BY <2>7, Fun_ExistsBij
  <2> QED BY <1>2, <2>8, FS_Bijection
<1>5. CASE IsFinal(Head(q))
  <2>1. 1 \in F
    BY <1>1, <1>5
  <2> HIDE DEF F, G
  <2>2. Cardinality(F \ {1}) = Cardinality(F) - 1
    BY <1>2, <2>1, FS_RemoveElement
  <2> QED BY <1>2, <1>4, <1>5, <2>2 DEF r
<1>6. CASE ~IsFinal(Head(q))
  <2>1. F \ {1} = F
    BY <1>1, <1>6
  <2> HIDE DEF F, G
  <2>2. Answers(r) = Answers(q)
    BY <1>2, <1>4, <2>1
  <2> QED BY <1>2, <1>6, <2>2 DEF r
<1> QED BY <1>5, <1>6

\* A call that waits for its prompt is the only one.
LEMMA WaitingFacts ==
    ASSUME Types, Nested, stack # <<>>
    PROVE  /\ Waiting <=> Top.phase = "prompt"
           /\ Waiting => Len(stack) = 1 /\ Outer = <<>>
           /\ Top.phase = "final" => ~Waiting
<1>1. /\ Len(stack) \in DOMAIN stack /\ 1 \in DOMAIN stack /\ Top = stack[Len(stack)]
      /\ Under(Outer) /\ Len(Outer) = Len(stack) - 1
  BY TopFacts
<1>2. Top.phase = "prompt" => Len(stack) = 1
  BY <1>1 DEF Nested
<1>3. Waiting => Len(stack) = 1
  BY <1>1 DEF Nested, Waiting
<1>4. Len(stack) = 1 => Outer = <<>>
  <2>1. Outer \in Seq(Calls)
    BY <1>1 DEF Under
  <2> QED BY <1>1, <2>1, SeqFacts
<1>5. Waiting <=> Top.phase = "prompt"
  BY <1>1, <1>2, <1>3 DEF Waiting
<1> QED BY <1>3, <1>4, <1>5

\* Without a call there is nothing to answer.
LEMMA AnsweringRest ==
    ASSUME Types, Answering, stack = <<>>
    PROVE  /\ inbox = <<>> /\ prompting = <<>> /\ Answers(buf) = 0
           /\ \A k \in DOMAIN buf : ~IsPrompt(buf[k]) /\ ~IsFinal(buf[k])
<1>1. inbox \in Seq(Sent) /\ buf \in Seq(Lines)
  BY DEF Types
<1>2. Len(inbox) \in Nat /\ (inbox = <<>> <=> Len(inbox) = 0)
      /\ Answers(buf) \in Nat /\ (Answers(buf) = 0 <=> \A k \in DOMAIN buf : ~IsFinal(buf[k]))
  BY <1>1, SeqFacts, AnswersType
<1>3. Len(stack) = 0 /\ Len(stack) = Len(inbox) + Answers(buf)
  BY DEF Answering
<1>4. Len(inbox) = 0 /\ Answers(buf) = 0
  BY <1>2, <1>3
<1> QED BY <1>2, <1>4 DEF Answering

\* AT+CMGR or AT+CMGD is given while every call has its answer to come.
LEMMA AnsweringWrite ==
    ASSUME Types, Answering, NEW kind \in {"read", "delete"}, NEW below, Under(below),
           Write(kind, below), prompting' = prompting,
           \A k \in DOMAIN buf' : ~IsPrompt(buf'[k]), Answers(buf') \in Nat,
           Len(below) = Len(inbox) + Answers(buf')
    PROVE  Answering'
<1>1. kind \in Kinds /\ kind # "payload" /\ kind # "send"
  BY DEF Kinds
<1>2. /\ Len(stack') = Len(below) + 1 /\ Len(below) \in Nat
      /\ inbox' = Append(inbox, Command(kind)) /\ Command(kind) \in Sent /\ Command(kind).kind = kind
  BY <1>1, WriteFacts
<1>3. inbox \in Seq(Sent)
  BY DEF Types
<1>4. /\ Len(inbox') = Len(inbox) + 1 /\ Len(inbox) \in Nat /\ inbox' # <<>>
      /\ \A p \in DOMAIN inbox : inbox'[p] = inbox[p]
      /\ inbox'[Len(inbox) + 1] = Command(kind)
      /\ \A p \in DOMAIN inbox' : p \in DOMAIN inbox \/ p = Len(inbox) + 1
      /\ inbox # <<>> => 1 \in DOMAIN inbox
      /\ inbox = <<>> => Len(inbox) + 1 = 1
  BY <1>2, <1>3, SeqFacts, AppendFacts, TailFacts
<1>5. Len(stack') = Len(inbox') + Answers(buf')
  BY <1>2, <1>4
<1>6. \A p \in DOMAIN inbox' : inbox'[p].kind # "send" /\ (inbox'[p].kind = "payload" => p = 1)
  BY <1>1, <1>2, <1>4 DEF Answering
<1>7. inbox'[1].kind = "payload" <=> (inbox # <<>> /\ inbox[1].kind = "payload")
  BY <1>1, <1>2, <1>4
<1>8. prompting' # <<>> <=> (inbox' # <<>> /\ inbox'[1].kind = "payload")
  BY <1>4, <1>7 DEF Answering
<1> QED BY <1>5, <1>6, <1>8 DEF Answering

\* What the modem does is in step.
LEMMA AskingModem ==
    ASSUME Types, Asking, Modem
    PROVE  Asking'
<1>1. inbox # <<>> /\ inbox' = Tail(inbox) /\ inbox \in Seq(Sent) /\ buf \in Seq(Lines)
  BY DEF Modem, Types
<1>2. /\ Len(inbox) = 1 /\ inbox[1].kind = "send" /\ prompting = <<>>
      /\ \A k \in DOMAIN buf : ~IsPrompt(buf[k]) /\ ~IsFinal(buf[k])
  BY <1>1 DEF Asking
<1>3. Head(inbox) = inbox[1] /\ Head(inbox) \in Sent /\ inbox' \in Seq(Sent)
      /\ Len(inbox') = Len(inbox) - 1
  BY <1>1, TailFacts
<1>4. inbox' = <<>>
  <2>1. Len(inbox') = 0
    BY <1>2, <1>3
  <2> QED BY <1>3, <2>1, SeqFacts
<1>5. \/ buf' = Append(buf, Line("prompt", Head(inbox))) /\ prompting' = <<Head(inbox).id>>
      \/ buf' = Append(buf, Line("error", Head(inbox))) /\ prompting' = <<>>
  BY <1>2, <1>3 DEF Modem
<1>6. ASSUME NEW what \in Finals \cup {"prompt"}, buf' = Append(buf, Line(what, Head(inbox)))
      PROVE  /\ Line(what, Head(inbox)).what = what
             /\ \A k \in DOMAIN buf' : (k \in DOMAIN buf /\ buf'[k] = buf[k])
                                       \/ (k = Len(buf) + 1 /\ buf'[k] = Line(what, Head(inbox)))
  <2>1. Line(what, Head(inbox)) \in Lines /\ Line(what, Head(inbox)).what = what
    BY <1>3, LineFacts
  <2> QED BY <1>1, <1>6, <2>1, AppendFacts
<1>7. CASE buf' = Append(buf, Line("prompt", Head(inbox))) /\ prompting' = <<Head(inbox).id>>
  <2>1. \A k \in DOMAIN buf' : ~IsFinal(buf'[k])
    BY <1>2, <1>6, <1>7 DEF IsFinal, Finals
  <2> QED BY <1>4, <1>7, <2>1 DEF Asking
<1>8. CASE buf' = Append(buf, Line("error", Head(inbox))) /\ prompting' = <<>>
  <2>1. "error" \in Finals \cup {"prompt"}
    BY DEF Finals
  <2>2. \A k \in DOMAIN buf' : ~IsPrompt(buf'[k])
    BY <1>2, <1>6, <1>8, <2>1 DEF IsPrompt
  <2>3. \A j, k \in DOMAIN buf' : IsFinal(buf'[j]) /\ IsFinal(buf'[k]) => j = k
    BY <1>2, <1>6, <1>8, <2>1
  <2> QED BY <1>4, <1>8, <2>2, <2>3 DEF Asking
<1> QED BY <1>5, <1>7, <1>8

\* The modem answers a command or a PDU: one fewer to work on, one more to read.
LEMMA AnsweringModem ==
    ASSUME Types, Answering, Modem
    PROVE  Answering'
<1>1. inbox # <<>> /\ inbox' = Tail(inbox) /\ inbox \in Seq(Sent) /\ buf \in Seq(Lines)
      /\ stack' = stack
  BY DEF Modem, Types, portVars
<1>2. /\ Head(inbox) = inbox[1] /\ Head(inbox) \in Sent /\ inbox' \in Seq(Sent)
      /\ Len(inbox') = Len(inbox) - 1 /\ Len(inbox) \in Nat /\ 1 \in DOMAIN inbox
  BY <1>1, TailFacts
<1>3. \A p \in DOMAIN inbox' : p + 1 \in DOMAIN inbox /\ inbox'[p] = inbox[p + 1] /\ p + 1 # 1
  BY <1>1, InboxTail
<1>4. Head(inbox).kind # "send"
      /\ (prompting # <<>> <=> Head(inbox).kind = "payload")
  BY <1>1, <1>2 DEF Answering
<1>5. PICK final \in Finals : buf' = Append(buf, Line(final, Head(inbox)))
  BY <1>4 DEF Modem
<1>6. prompting' = <<>>
  BY <1>4 DEF Modem
<1>7. Line(final, Head(inbox)) \in Lines /\ Line(final, Head(inbox)).what = final
  BY <1>2, LineFacts
<1>8. IsFinal(Line(final, Head(inbox))) /\ ~IsPrompt(Line(final, Head(inbox)))
  BY <1>7 DEF IsFinal, IsPrompt, Finals
<1>9. Answers(buf') = Answers(buf) + 1 /\ Answers(buf) \in Nat
  BY <1>1, <1>5, <1>7, <1>8, AnswersAppend, AnswersType
<1>10. \A k \in DOMAIN buf' : (k \in DOMAIN buf /\ buf'[k] = buf[k])
                              \/ buf'[k] = Line(final, Head(inbox))
  BY <1>1, <1>5, <1>7, AppendFacts
<1>11. \A k \in DOMAIN buf' : ~IsPrompt(buf'[k])
  BY <1>8, <1>10 DEF Answering
<1>12. Len(stack') = Len(inbox') + Answers(buf')
  <2>1. Len(stack) = Len(inbox) + Answers(buf)
    BY DEF Answering
  <2> QED BY <1>1, <1>2, <1>9, <2>1
<1>13. \A p \in DOMAIN inbox' : inbox'[p].kind # "send" /\ inbox'[p].kind # "payload"
  BY <1>3 DEF Answering
<1>14. ~(inbox' # <<>> /\ inbox'[1].kind = "payload")
  <2>1. inbox' # <<>> => 1 \in DOMAIN inbox'
    BY <1>2, TailFacts
  <2> QED BY <1>13, <2>1
<1> QED BY <1>6, <1>11, <1>12, <1>13, <1>14 DEF Answering

\* With an empty inbox and nothing to read the stack is empty, or a command is
\* given and the modem is to work on it.
LEMMA MatchedFirst ==
    ASSUME Types, inbox = <<>>, prompting = <<>>, NEW kind \in Kinds, Write(kind, <<>>),
           prompting' = prompting, buf' \in Seq(Lines),
           \A k \in DOMAIN buf' : ~IsPrompt(buf'[k]) /\ ~IsFinal(buf'[k])
    PROVE  Matched'
<1>1. Under(<<>>) /\ Len(<<>>) = 0
  BY UnderNone
<1>2. /\ stack' # <<>> /\ stack'[1].kind = kind /\ Len(stack') = 1
      /\ stack'[1].phase = IF kind = "send" THEN "prompt" ELSE "final"
      /\ inbox' = Append(inbox, Command(kind)) /\ Command(kind).kind = kind
  <2>1. /\ stack' # <<>> /\ stack'[Len(<<>>) + 1].kind = kind /\ Len(stack') = Len(<<>>) + 1
        /\ stack'[Len(<<>>) + 1].phase = IF kind = "send" THEN "prompt" ELSE "final"
        /\ inbox' = Append(inbox, Command(kind)) /\ Command(kind).kind = kind
    BY <1>1, WriteFacts
  <2>2. Len(<<>>) + 1 = 1
    BY <1>1
  <2> QED BY <2>1, <2>2
<1>3. inbox' = <<Command(kind)>>
  BY <1>2
<1>4. Len(inbox') = 1 /\ DOMAIN inbox' = {1} /\ inbox'[1].kind = kind /\ inbox' # <<>>
  BY <1>2, <1>3
<1>5. Answers(buf') = 0
  BY AnswersType
<1>6. CASE kind = "send"
  <2>1. Asking'
    BY <1>4, <1>6 DEF Asking
  <2>2. Waiting'
    BY <1>2, <1>6 DEF Waiting
  <2> QED BY <2>1, <2>2 DEF Matched
<1>7. CASE kind # "send"
  <2>1. Answering'
    BY <1>2, <1>4, <1>5, <1>7 DEF Answering, Kinds
  <2>2. ~Waiting'
    BY <1>2, <1>7 DEF Waiting
  <2> QED BY <2>1, <2>2 DEF Matched
<1> QED BY <1>6, <1>7

\* A notification is no answer.
LEMMA MatchedNotify == ASSUME Types, Matched, Notify PROVE Matched'
<1>1. UNCHANGED <<stack, inbox, prompting>> /\ buf' = Append(buf, Notice) /\ buf \in Seq(Lines)
  BY DEF Notify, Types, portVars, modemVars
<1>2. Notice \in Lines /\ ~IsPrompt(Notice) /\ ~IsFinal(Notice)
  BY LineFacts
<1>3. /\ \A k \in DOMAIN buf' : (k \in DOMAIN buf /\ buf'[k] = buf[k]) \/ buf'[k] = Notice
      /\ Answers(buf') = Answers(buf)
  <2>1. Answers(buf') = Answers(buf) + 0 /\ Answers(buf) \in Nat
    BY <1>1, <1>2, AnswersAppend, AnswersType
  <2> QED BY <1>1, <1>2, <2>1, AppendFacts
<1>4. Waiting' <=> Waiting
  BY <1>1 DEF Waiting
<1>5. Asking => Asking'
  BY <1>1, <1>2, <1>3 DEF Asking
<1>6. Answering => Answering'
  BY <1>1, <1>2, <1>3 DEF Answering
<1> QED BY <1>4, <1>5, <1>6 DEF Matched

\* Before a first command nothing is under way.
LEMMA MatchedRest ==
    ASSUME Types, Matched, stack = <<>>
    PROVE  /\ inbox = <<>> /\ prompting = <<>>
           /\ \A k \in DOMAIN buf : ~IsPrompt(buf[k]) /\ ~IsFinal(buf[k])
BY AnsweringRest DEF Matched, Waiting

\* A line is read.
LEMMA ReadFacts ==
    ASSUME Types, buf # <<>>, buf' = Tail(buf)
    PROVE  /\ buf' \in Seq(Lines) /\ Answers(buf') \in Nat /\ Answers(buf) \in Nat
           /\ Answers(buf') = Answers(buf) - (IF Head(buf).what \in Finals THEN 1 ELSE 0)
           /\ \A k \in DOMAIN buf' : k + 1 \in DOMAIN buf /\ buf'[k] = buf[k + 1]
<1>1. buf \in Seq(Lines)
  BY DEF Types
<1>2. /\ buf' \in Seq(Lines)
      /\ \A k \in DOMAIN buf' : k + 1 \in DOMAIN buf /\ buf'[k] = buf[k + 1]
  BY <1>1, TailFacts
<1>3. Answers(buf') = Answers(buf) - (IF IsFinal(Head(buf)) THEN 1 ELSE 0)
  BY <1>1, AnswersTail
<1> QED BY <1>1, <1>2, <1>3, AnswersType DEF IsFinal

\* A job starts with nothing outstanding.
LEMMA MatchedExecute ==
    ASSUME Types, Matched, NEW kind \in Kinds, Execute(kind)
    PROVE  Matched'
<1>1. stack = <<>> /\ Write(kind, <<>>) /\ prompting' = prompting /\ buf' = buf
  BY DEF Execute
<1> QED BY <1>1, MatchedRest, MatchedFirst DEF Types

\* drain_urcs reads what is not an answer and may read the message announced.
LEMMA MatchedDrain == ASSUME Types, Matched, Drain PROVE Matched'
<1>1. stack = <<>> /\ buf # <<>> /\ buf' = Tail(buf) /\ prompting' = prompting
  BY DEF Drain
<1>2. /\ inbox = <<>> /\ prompting = <<>>
      /\ \A k \in DOMAIN buf : ~IsPrompt(buf[k]) /\ ~IsFinal(buf[k])
  BY <1>1, MatchedRest
<1>3. buf' \in Seq(Lines) /\ \A k \in DOMAIN buf' : k + 1 \in DOMAIN buf /\ buf'[k] = buf[k + 1]
  BY <1>1, ReadFacts
<1>4. \A k \in DOMAIN buf' : ~IsPrompt(buf'[k]) /\ ~IsFinal(buf'[k])
  BY <1>2, <1>3
<1>5. CASE Write("read", <<>>)
  <2>1. "read" \in Kinds
    BY DEF Kinds
  <2> QED BY <1>1, <1>2, <1>3, <1>4, <1>5, <2>1, MatchedFirst
<1>6. CASE UNCHANGED <<inbox, stack>>
  <2>1. Answers(buf') = 0
    BY <1>3, <1>4, AnswersType
  <2>2. stack' = <<>> /\ inbox' = <<>> /\ prompting' = <<>>
    BY <1>1, <1>2, <1>6
  <2>3. Len(stack') = 0 /\ Len(inbox') = 0
    BY <2>2
  <2>4. Answering'
    BY <1>4, <2>1, <2>2, <2>3 DEF Answering
  <2> QED BY <2>2, <2>4 DEF Matched, Waiting
<1> QED BY <1>5, <1>6 DEF Drain

\* The prompt is read and the PDU written: its answer is to come.
LEMMA MatchedPrompted == ASSUME Types, Nested, AtPrompt, Matched, Prompted PROVE Matched'
<1>1. /\ stack # <<>> /\ stack[1].phase = "prompt" /\ stack[1].kind = "send"
      /\ \E d \in Calls : stack' = <<d>> /\ d.phase = "final"
      /\ inbox' = Append(inbox, Payload(stack[1]))
      /\ buf' \in Seq(Lines) /\ \A k \in DOMAIN buf' : ~IsPrompt(buf'[k]) /\ ~IsFinal(buf'[k])
      /\ \E k \in DOMAIN buf : IsPrompt(buf[k])
  BY PromptedFacts
<1>2. Asking
  BY <1>1 DEF Matched, Waiting
<1>3. inbox = <<>> /\ prompting # <<>> /\ prompting' = prompting
  BY <1>1, <1>2 DEF Asking, Prompted
<1>4. inbox' = <<Payload(stack[1])>>
  BY <1>1, <1>3
<1>5. Len(inbox') = 1 /\ DOMAIN inbox' = {1} /\ inbox'[1].kind = "payload" /\ inbox' # <<>>
  BY <1>4 DEF Payload
<1>6. Len(stack') = 1 /\ stack'[1].phase = "final" /\ stack' # <<>>
  BY <1>1
<1>7. Answers(buf') = 0
  BY <1>1, AnswersType
<1>8. Answering'
  BY <1>1, <1>3, <1>5, <1>6, <1>7 DEF Answering
<1> QED BY <1>6, <1>8 DEF Matched, Waiting

\* An error instead of the prompt is the only answer; it is dropped with the rest.
LEMMA MatchedRefused == ASSUME Types, Nested, Matched, PromptRefused PROVE Matched'
<1> DEFINE i == First({"prompt", "error"})
<1>1. stack # <<>> /\ Top.phase = "prompt" /\ stack' = Outer /\ UNCHANGED <<inbox, prompting>>
      /\ i # 0 /\ buf[i].what = "error" /\ buf \in Seq(Lines)
  BY DEF PromptRefused, modemVars, Types
<1>2. Waiting /\ Outer = <<>>
  BY <1>1, WaitingFacts
<1>3. i \in 1 .. Len(buf) /\ Len(buf) \in Nat /\ DOMAIN buf = 1 .. Len(buf)
  BY <1>1, FirstIs, SeqFacts
<1>4. PICK last \in i .. Len(buf) : buf' = SubSeq(buf, last + 1, Len(buf))
  BY DEF PromptRefused
<1> HIDE DEF i
<1>5. i \in DOMAIN buf /\ IsFinal(buf[i]) /\ last \in 1 .. Len(buf) /\ last >= i
  BY <1>1, <1>3, <1>4 DEF IsFinal, Finals
<1>6. /\ inbox = <<>> /\ prompting = <<>>
      /\ \A k \in DOMAIN buf : ~IsPrompt(buf[k])
      /\ \A j, k \in DOMAIN buf : IsFinal(buf[j]) /\ IsFinal(buf[k]) => j = k
  BY <1>2, <1>5 DEF Matched, Asking
<1>7. buf' \in Seq(Lines) /\ \A k \in DOMAIN buf' : /\ k + last \in DOMAIN buf /\ k + last > last
                                                    /\ buf'[k] = buf[k + last]
  BY <1>1, <1>4, <1>5, SuffixFacts
<1>8. ASSUME NEW k \in DOMAIN buf' PROVE ~IsPrompt(buf'[k]) /\ ~IsFinal(buf'[k])
  <2>1. k + last \in DOMAIN buf /\ buf'[k] = buf[k + last] /\ k + last > last
    BY <1>7
  <2>2. k + last # i
    BY <1>3, <1>5, <2>1
  <2> QED BY <1>5, <1>6, <2>1, <2>2
<1>9. Answers(buf') = 0
  BY <1>7, <1>8, AnswersType
<1>10. stack' = <<>> /\ inbox' = <<>> /\ prompting' = <<>>
  BY <1>1, <1>2, <1>6
<1>11. Len(stack') = 0 /\ Len(inbox') = 0
  BY <1>10
<1>12. Answering'
  BY <1>8, <1>9, <1>10, <1>11 DEF Answering
<1> QED BY <1>10, <1>12 DEF Matched, Waiting

\* The calls that are left do not wait for a prompt.
LEMMA LeftWaiting ==
    ASSUME Types, ~Waiting, Under(stack')
    PROVE  ~Waiting'
<1>1. stack' \in Seq(Calls)
  BY DEF Under
<1>2. ASSUME stack' # <<>> PROVE stack # <<>> /\ stack'[1] = stack[1]
  <2>1. 1 \in DOMAIN stack'
    BY <1>1, <1>2, TailFacts
  <2>2. 1 \in DOMAIN stack /\ stack'[1] = stack[1]
    BY <2>1 DEF Under
  <2> QED BY <2>2
<1> QED BY <1>2 DEF Waiting

\* Nor does AT+CMGR or AT+CMGD.
LEMMA WrittenWaiting ==
    ASSUME Types, ~Waiting, NEW kind \in {"read", "delete"}, NEW below, Under(below),
           Write(kind, below)
    PROVE  ~Waiting'
<1>1. kind \in Kinds /\ kind # "send"
  BY DEF Kinds
<1>2. /\ Len(below) \in Nat /\ stack' # <<>> /\ DOMAIN below = 1 .. Len(below)
      /\ \A k \in DOMAIN below : stack'[k] = below[k]
      /\ stack'[Len(below) + 1].phase = IF kind = "send" THEN "prompt" ELSE "final"
  BY <1>1, WriteFacts
<1>3. CASE Len(below) = 0
  <2>1. Len(below) + 1 = 1
    BY <1>3
  <2>2. stack'[1].phase = "final"
    BY <1>1, <1>2, <2>1
  <2> QED BY <2>2 DEF Waiting
<1>4. CASE Len(below) # 0
  <2>1. 1 \in DOMAIN below
    BY <1>2, <1>4
  <2>2. 1 \in DOMAIN stack /\ stack'[1] = stack[1]
    BY <1>2, <2>1 DEF Under
  <2> QED BY <2>2 DEF Waiting
<1> QED BY <1>3, <1>4

\* A call takes one answer and ends.
LEMMA MatchedAnswered == ASSUME Types, Nested, Matched, Answered PROVE Matched'
<1>1. stack # <<>> /\ Top.phase = "final" /\ buf # <<>> /\ Head(buf).what \in Finals
      /\ buf' = Tail(buf) /\ prompting' = prompting
  BY DEF Answered
<1>2. ~Waiting /\ Answering
  BY <1>1, WaitingFacts DEF Matched
<1>3. Under(Outer) /\ Len(Outer) = Len(stack) - 1 /\ Len(stack) \in Nat
  BY <1>1, TopFacts
<1>4. /\ buf' \in Seq(Lines) /\ Answers(buf') \in Nat /\ Answers(buf) \in Nat
      /\ Answers(buf') = Answers(buf) - 1
      /\ \A k \in DOMAIN buf' : k + 1 \in DOMAIN buf /\ buf'[k] = buf[k + 1]
  BY <1>1, ReadFacts
<1>5. \A k \in DOMAIN buf' : ~IsPrompt(buf'[k])
  BY <1>2, <1>4 DEF Answering
<1>6. Len(Outer) = Len(inbox) + Answers(buf') /\ Len(inbox) \in Nat
  <2>1. Len(stack) = Len(inbox) + Answers(buf)
    BY <1>2 DEF Answering
  <2>2. Len(inbox) \in Nat
    BY SeqFacts DEF Types
  <2> QED BY <1>3, <1>4, <2>1, <2>2
<1>7. CASE stack' = Outer /\ UNCHANGED <<inbox, commands>>
  <2>1. ~Waiting'
    BY <1>2, <1>3, <1>7, LeftWaiting
  <2>2. Answering'
    BY <1>1, <1>2, <1>5, <1>6, <1>7 DEF Answering
  <2> QED BY <2>1, <2>2 DEF Matched
<1>8. CASE Write("delete", Outer)
  <2>1. ~Waiting'
    BY <1>2, <1>3, <1>8, WrittenWaiting
  <2>2. Answering'
    BY <1>1, <1>2, <1>3, <1>4, <1>5, <1>6, <1>8, AnsweringWrite
  <2> QED BY <2>1, <2>2 DEF Matched
<1> QED BY <1>7, <1>8 DEF Answered

\* A line that is no answer ends no call.
LEMMA MatchedOtherLine == ASSUME Types, Nested, Matched, OtherLine PROVE Matched'
<1>1. stack # <<>> /\ Top.phase = "final" /\ buf # <<>> /\ Head(buf).what \notin Finals
      /\ buf' = Tail(buf) /\ prompting' = prompting
  BY DEF OtherLine
<1>2. ~Waiting /\ Answering
  BY <1>1, WaitingFacts DEF Matched
<1>3. /\ buf' \in Seq(Lines) /\ Answers(buf') \in Nat /\ Answers(buf) \in Nat
      /\ Answers(buf') = Answers(buf) - 0
      /\ \A k \in DOMAIN buf' : k + 1 \in DOMAIN buf /\ buf'[k] = buf[k + 1]
  BY <1>1, ReadFacts
<1>4. \A k \in DOMAIN buf' : ~IsPrompt(buf'[k])
  BY <1>2, <1>3 DEF Answering
<1>5. Len(stack) = Len(inbox) + Answers(buf')
  <2>1. Answers(buf') = Answers(buf)
    BY <1>3
  <2> QED BY <1>2, <2>1 DEF Answering
<1>6. Under(stack)
  BY UnderNone
<1>7. CASE Write("read", stack)
  <2>1. ~Waiting'
    BY <1>2, <1>6, <1>7, WrittenWaiting
  <2>2. Answering'
    BY <1>1, <1>2, <1>3, <1>4, <1>5, <1>6, <1>7, AnsweringWrite
  <2> QED BY <2>1, <2>2 DEF Matched
<1>8. CASE UNCHANGED <<stack, inbox>>
  <2>1. ~Waiting'
    BY <1>2, <1>8 DEF Waiting
  <2>2. Answering'
    BY <1>1, <1>2, <1>4, <1>5, <1>8 DEF Answering
  <2> QED BY <2>1, <2>2 DEF Matched
<1> QED BY <1>7, <1>8 DEF OtherLine

\* At the start there are no calls and no answers.
LEMMA InStepInit == Init => InStep
<1> SUFFICES ASSUME Init PROVE InStep
  OBVIOUS
<1>1. stack = <<>> /\ inbox = <<>> /\ buf = <<>> /\ prompting = <<>> /\ open
  BY DEF Init
<1>2. <<>> \in Seq(Lines) /\ \A k \in DOMAIN <<>> : ~IsFinal(<<>>[k])
  OBVIOUS
<1>3. Answers(<<>>) = 0
  BY <1>2, AnswersType
<1>4. Len(<<>>) = Len(<<>>) + 0
  OBVIOUS
<1>5. Answering
  BY <1>1, <1>3, <1>4 DEF Answering
<1> QED BY <1>1, <1>5 DEF InStep, Matched, Waiting

\* Every step but a timeout keeps calls and answers in step; a timeout is counted.
LEMMA InStepStep == ASSUME Types, Nested, AtPrompt, InStep, [Next]_vars PROVE InStep'
<1> USE DEF portVars, modemVars
<1>1. InStep <=> (timeouts = 0 => open /\ Matched)
  BY DEF InStep
<1>2. InStep' <=> (timeouts' = 0 => open' /\ Matched')
  BY DEF InStep
<1> SUFFICES ASSUME timeouts' = 0 PROVE open' /\ Matched'
  BY <1>2
<1>3. ASSUME UNCHANGED timeouts PROVE open /\ Matched
  BY <1>1, <1>3
<1>4. CASE Modem
  <2>1. open /\ Matched /\ UNCHANGED <<open, stack>>
    BY <1>3, <1>4 DEF Modem
  <2>2. Waiting' <=> Waiting
    BY <2>1 DEF Waiting
  <2> QED BY <1>4, <2>1, <2>2, AskingModem, AnsweringModem DEF Matched
<1>5. CASE Notify
  BY <1>3, <1>5, MatchedNotify DEF Notify
<1>6. CASE \E kind \in Kinds : Execute(kind)
  BY <1>3, <1>6, MatchedExecute DEF Execute
<1>7. CASE Drain
  BY <1>3, <1>7, MatchedDrain DEF Drain
<1>8. CASE Prompted
  BY <1>3, <1>8, MatchedPrompted DEF Prompted
<1>9. CASE PromptRefused
  BY <1>3, <1>9, MatchedRefused DEF PromptRefused
<1>10. CASE Answered
  BY <1>3, <1>10, MatchedAnswered DEF Answered
<1>11. CASE OtherLine
  BY <1>3, <1>11, MatchedOtherLine DEF OtherLine
<1>12. CASE TimedOut
  <2>1. timeouts' = timeouts + 1 /\ timeouts \in Nat
    BY <1>12 DEF TimedOut, Types
  <2> QED BY <2>1
<1>13. CASE Reopen
  BY <1>3, <1>13 DEF Reopen
<1>14. CASE UNCHANGED vars
  <2>1. UNCHANGED <<stack, buf, inbox, prompting, open, timeouts>>
    BY <1>14 DEF vars
  <2> QED BY <1>3, <2>1 DEF Matched, Waiting, Asking, Answering
<1> QED BY <1>4, <1>5, <1>6, <1>7, <1>8, <1>9, <1>10, <1>11, <1>12, <1>13, <1>14 DEF Next

-----------------------------------------------------------------------------
(* Theorems.                                                               *)

IInv == Types /\ Nested /\ AtPrompt /\ Truth /\ InStep

\* The inductive invariant: how calls nest, what the modem is at, what the
\* next final line is about and how many are to come, whatever comes when.
THEOREM Invariant == Spec => []IInv
<1>1. Init => IInv
  BY TypesInit, NestedInit, AtPromptInit, FreshInit, OwnInit, InStepInit DEF IInv, Truth
<1>2. IInv /\ [Next]_vars => IInv'
  <2> SUFFICES ASSUME IInv, [Next]_vars PROVE IInv'
    OBVIOUS
  <2>1. Types /\ Nested /\ AtPrompt /\ Fresh /\ Own /\ Told /\ InStep
    BY DEF IInv, Truth
  <2>2. Types'
    BY <2>1, TypesStep
  <2>3. Nested'
    BY <2>1, NestedStep
  <2>4. AtPrompt'
    BY <2>1, AtPromptStep
  <2>5. Fresh'
    BY <2>1, FreshStep
  <2>6. Own'
    BY <2>1, OwnStep
  <2>7. Told'
    BY <2>1, ToldStep
  <2>8. InStep'
    BY <2>1, InStepStep
  <2> QED BY <2>2, <2>3, <2>4, <2>5, <2>6, <2>7, <2>8 DEF IInv, Truth
<1> QED BY <1>1, <1>2, PTL DEF Spec

\* The variables are well formed, commands nest only as the callbacks of at.py
\* do, and at most one AT+CMGS is under way, at the bottom.
THEOREM TypeInvariant == Spec => []TypeOK
<1>1. ASSUME IInv PROVE TypeOK
  <2>1. Types /\ Nested
    BY <1>1 DEF IInv
  <2>2. stack \in Seq([id : Ids, kind : Kinds, phase : {"prompt", "final"}])
        /\ inbox \in Seq([id : Ids, kind : Kinds \cup {"payload"}])
    BY <2>1 DEF Types, Calls, Sent
  <2>3. open \in BOOLEAN /\ garbled \in BOOLEAN
        /\ report \in [Ids -> {"none", "submitted", "failed", "unknown"}]
        /\ verdict \in [Ids -> {"none", "accepted", "refused"}]
    BY <2>1 DEF Types
  <2>4. prompting \in Seq(Ids) /\ Len(prompting) <= 1
    <3>1. prompting = <<>> \/ \E i \in Ids : prompting = <<i>>
      BY <2>1 DEF Types
    <3>2. CASE prompting = <<>>
      BY <3>2
    <3>3. CASE \E i \in Ids : prompting = <<i>>
      BY <3>3
    <3> QED BY <3>1, <3>2, <3>3
  <2>5. ASSUME NEW k \in DOMAIN stack, k > 1 PROVE stack[k - 1].id < stack[k].id
    <3>1. k \in Nat /\ Len(stack) \in Nat /\ DOMAIN stack = 1 .. Len(stack)
      BY <2>1, SeqFacts DEF Types
    <3>2. k - 1 \in DOMAIN stack /\ k - 1 < k
      BY <2>5, <3>1
    <3> QED BY <2>1, <3>2 DEF Nested
  <2>6. \A k \in DOMAIN stack :
          /\ stack[k].kind = "send" => k = 1
          /\ stack[k].phase = "prompt" => stack[k].kind = "send" /\ k = Len(stack)
          /\ k < Len(stack) => stack[k].kind # "read"
    BY <2>1 DEF Nested
  <2> QED BY <2>2, <2>3, <2>4, <2>5, <2>6 DEF TypeOK
<1> QED BY <1>1, Invariant, PTL

\* However late the answers of earlier commands come, the outbox says of an SMS
\* whose submission no notification interrupted what the modem did with it.
THEOREM ReportsAreTrue == Spec => []TruthUnlessInterrupted
<1>1. ASSUME IInv PROVE TruthUnlessInterrupted
  <2>1. Told
    BY <1>1 DEF IInv, Truth
  <2> QED BY <2>1 DEF Told, TruthUnlessInterrupted
<1> QED BY <1>1, Invariant, PTL

\* However many notifications come and nest, an idle port has no answer
\* outstanding if no command timed out.
THEOREM RestInStep == Spec => []InStepAtRest
<1>1. ASSUME IInv PROVE InStepAtRest
  <2> SUFFICES ASSUME timeouts = 0, stack = <<>>
               PROVE  inbox = <<>> /\ prompting = <<>> /\ First(Finals \cup {"prompt"}) = 0
    BY DEF InStepAtRest
  <2>1. Types /\ Answering
    BY <1>1 DEF IInv, InStep, Matched, Waiting
  <2>2. /\ inbox = <<>> /\ prompting = <<>>
        /\ \A k \in DOMAIN buf : ~IsPrompt(buf[k]) /\ ~IsFinal(buf[k])
    BY <2>1, AnsweringRest
  <2>3. buf \in Seq(Lines) /\ DOMAIN buf = 1 .. Len(buf)
    BY <2>1, SeqFacts DEF Types
  <2>4. ASSUME First(Finals \cup {"prompt"}) # 0 PROVE FALSE
    <3> DEFINE i == First(Finals \cup {"prompt"})
    <3>1. i \in DOMAIN buf /\ buf[i].what \in Finals \cup {"prompt"}
      BY <2>3, <2>4, FirstIs
    <3> QED BY <2>2, <3>1 DEF IsPrompt, IsFinal
  <2> QED BY <2>2, <2>4
<1> QED BY <1>1, Invariant, PTL

-----------------------------------------------------------------------------
(* The codec: packing and unpacking.                                       *)

\* Powers of two double: SUBSET (1 .. n + 1) is SUBSET (1 .. n) and as many
\* sets with n + 1.
LEMMA PowerDoubles == ASSUME NEW n \in Nat PROVE 2^(n + 1) = 2 * 2^n
<1> DEFINE S == SUBSET (1 .. n)
           T == {A \cup {n + 1} : A \in S}
           f == [A \in S |-> A \cup {n + 1}]
<1>1. /\ IsFiniteSet(S) /\ Cardinality(S) = 2^n
      /\ Cardinality(SUBSET (1 .. n + 1)) = 2^(n + 1)
  <2>1. IsFiniteSet(1 .. n) /\ Cardinality(1 .. n) = n
    BY FS_Interval
  <2>2. IsFiniteSet(1 .. n + 1) /\ Cardinality(1 .. n + 1) = n + 1
    BY FS_Interval
  <2>. QED
    BY <2>1, <2>2, FS_SUBSET
<1>2. f \in Bijection(S, T)
  <2>1. f \in [S -> T]
    OBVIOUS
  <2>2. \A A, B \in S : f[A] = f[B] => A = B
    <3>. SUFFICES ASSUME NEW A \in S, NEW B \in S, A \cup {n + 1} = B \cup {n + 1}
                  PROVE  A = B
      OBVIOUS
    <3>1. n + 1 \notin A /\ n + 1 \notin B
      BY SMT
    <3>. QED
      BY <3>1
  <2>3. \A y \in T : \E A \in S : f[A] = y
    OBVIOUS
  <2>. QED
    BY <2>1, <2>2, <2>3, Fun_IsBij
<1>3. IsFiniteSet(T) /\ Cardinality(T) = 2^n
  <2>1. ExistsBijection(S, T)
    BY <1>2 DEF ExistsBijection
  <2>. QED
    BY <1>1, <2>1, FS_Bijection
<1>4. SUBSET (1 .. n + 1) = S \cup T
  <2>1. ASSUME NEW A \in SUBSET (1 .. n + 1) PROVE A \in S \cup T
    <3>1. CASE n + 1 \in A
      <4>1. A \ {n + 1} \in S
        BY SMT
      <4>2. A = (A \ {n + 1}) \cup {n + 1}
        BY <3>1
      <4>. QED
        BY <4>1, <4>2
    <3>2. CASE n + 1 \notin A
      <4>1. A \in S
        BY <3>2, SMT
      <4>. QED
        BY <4>1
    <3>. QED
      BY <3>1, <3>2
  <2>2. ASSUME NEW A \in S PROVE A \in SUBSET (1 .. n + 1) /\ A \cup {n + 1} \in SUBSET (1 .. n + 1)
    BY SMT
  <2>. HIDE DEF S
  <2>3. SUBSET (1 .. n + 1) \subseteq S \cup T
    BY <2>1
  <2>4. S \cup T \subseteq SUBSET (1 .. n + 1)
    BY <2>2
  <2>. QED
    BY <2>3, <2>4
<1>5. S \cap T = {}
  <2>1. \A A \in S : n + 1 \notin A
    BY SMT
  <2>. QED
    BY <2>1
<1>6. Cardinality(S \cup T) = Cardinality(S) + Cardinality(T) - Cardinality(S \cap T)
  BY <1>1, <1>3, FS_Union
<1>7. 2^n \in Nat
  BY <1>1, FS_CardinalityType
<1>. HIDE DEF S, T, f
<1>8. Cardinality(S \cap T) = 0
  BY <1>5, FS_EmptySet
<1>9. Cardinality(S \cup T) = 2^(n + 1)
  BY <1>1, <1>4
<1>. QED
  BY <1>1, <1>3, <1>6, <1>7, <1>8, <1>9

\* The powers of two that pack_septets and unpack_septets shift by.
LEMMA Powers ==
    /\ 2^0 = 1 /\ 2^1 = 2 /\ 2^2 = 4 /\ 2^3 = 8 /\ 2^4 = 16 /\ 2^5 = 32 /\ 2^6 = 64
    /\ 2^7 = 128 /\ 2^8 = 256 /\ 2^9 = 512 /\ 2^10 = 1024 /\ 2^11 = 2048
    /\ 2^12 = 4096 /\ 2^13 = 8192 /\ 2^14 = 16384
<1>1. 2^0 = 1
  <2>1. SUBSET {} = {{}}
    OBVIOUS
  <2>2. Cardinality({}) = 0 /\ IsFiniteSet({}) /\ Cardinality({{}}) = 1
    BY FS_EmptySet, FS_Singleton
  <2>3. Cardinality(SUBSET {}) = 2^Cardinality({})
    BY <2>2, FS_SUBSET
  <2>. QED
    BY <2>1, <2>2, <2>3
<1>2. \A n \in Nat : 2^(n + 1) = 2 * 2^n
  BY PowerDoubles
<1>3. /\ 2^(0+1) = 2 * 2^0 /\ 2^(1+1) = 2 * 2^1 /\ 2^(2+1) = 2 * 2^2 /\ 2^(3+1) = 2 * 2^3
      /\ 2^(4+1) = 2 * 2^4 /\ 2^(5+1) = 2 * 2^5 /\ 2^(6+1) = 2 * 2^6
  BY <1>2
<1>4. /\ 2^(7+1) = 2 * 2^7 /\ 2^(8+1) = 2 * 2^8 /\ 2^(9+1) = 2 * 2^9 /\ 2^(10+1) = 2 * 2^10
      /\ 2^(11+1) = 2 * 2^11 /\ 2^(12+1) = 2 * 2^12 /\ 2^(13+1) = 2 * 2^13
  BY <1>2
<1>. QED
  BY <1>1, <1>3, <1>4

\* An octet that begins with bit r of septet x and goes on with y and z.
OctetOf(x, y, z, r) == (x \div 2^r + y * 2^(7 - r) + z * 2^(14 - r)) % 256

\* A septet put together from octet o, where it starts at bit b, and the next one.
Joined(o, next, b) == (o \div 2^b + next * 2^(8 - b)) % 128

Septets == 0 .. 127

\* Remainders of a sum with a multiple.
LEMMA Remainders ==
    /\ \A a \in 0 .. 255, c \in Int : (a + 256 * c) % 256 = a
    /\ \A a \in 0 .. 127, c \in Int : (a + 128 * c) % 128 = a
    /\ \A a \in Int : a \div 256 \in Int /\ a % 256 = a - 256 * (a \div 256)
OBVIOUS

\* A septet y within one octet, whatever octet c comes next.
LEMMA WithinOctet ==
    ASSUME NEW x \in Septets, NEW y \in Septets, NEW z \in Septets, NEW w \in Septets,
           NEW c \in Int
    PROVE  /\ Joined(OctetOf(y, z, w, 0), c, 0) = y
           /\ Joined(OctetOf(x, y, z, 6), c, 1) = y
<1>1. Joined(OctetOf(y, z, w, 0), c, 0) = y
  <2>1. OctetOf(y, z, w, 0) = (y \div 1 + z * 128 + w * 16384) % 256
    BY Powers DEF OctetOf
  <2> DEFINE o == (y \div 1 + z * 128 + w * 16384) % 256
  <2>2. o \in Int /\ (o \div 1) % 128 = y
    BY DEF Septets
  <2>3. (o \div 1 + c * 256) % 128 = y
    <3>. HIDE DEF o
    <3>. QED
      BY <2>2
  <2>. QED
    BY <2>1, <2>3, Powers DEF Joined
<1>2. Joined(OctetOf(x, y, z, 6), c, 1) = y
  <2>1. OctetOf(x, y, z, 6) = (x \div 64 + y * 2 + z * 256) % 256
    BY Powers DEF OctetOf
  <2> DEFINE o == (x \div 64 + y * 2 + z * 256) % 256
  <2>2. o \in Int /\ (o \div 2) % 128 = y
    BY DEF Septets
  <2>3. (o \div 2 + c * 128) % 128 = y
    <3>. HIDE DEF o
    <3>. QED
      BY <2>2
  <2>. QED
    BY <2>1, <2>3, Powers DEF Joined
<1>. QED
  BY <1>1, <1>2

\* A septet y that starts at bit b of an octet and ends in the next one.  In
\* each case h and l are its bits in the second and in the first octet.
LEMMA AcrossOctets ==
    ASSUME NEW x \in Septets, NEW y \in Septets, NEW z \in Septets, NEW w \in Septets,
           NEW b \in 2 .. 7, NEW r \in 0 .. 6, NEW s \in 0 .. 6, r = 7 - b, s = 8 - b
    PROVE  Joined(OctetOf(x, y, z, r), OctetOf(y, z, w, s), b) = y
<1>2. CASE b = 2
  <2> DEFINE p == x \div 32
             h == y \div 64
             l == y % 64
             o == h + z * 2 + w * 256
             e == o \div 256
  <2>1. p \in 0 .. 3 /\ h \in 0 .. 1 /\ l \in 0 .. 63 /\ y = 64 * h + l
    BY DEF Septets
  <2>2. OctetOf(x, y, z, r) = (p + y * 4 + z * 512) % 256
    BY <1>2, Powers DEF OctetOf
  <2>3. OctetOf(y, z, w, s) = o % 256
    BY <1>2, Powers DEF OctetOf
  <2>4. o \in Int /\ e \in Int /\ o % 256 = o - 256 * e
    <3>1. o \in Int
      BY <2>1 DEF Septets
    <3>. HIDE DEF o
    <3>. QED
      BY <3>1, Remainders
  <2>. HIDE DEF p, h, l, e
  <2>5. (p + y * 4 + z * 512) % 256 = p + 4 * l
    <3>1. p + y * 4 + z * 512 = (p + 4 * l) + 256 * (h + z * 2)
      BY <2>1 DEF Septets
    <3>2. p + 4 * l \in 0 .. 255 /\ h + z * 2 \in Int
      BY <2>1 DEF Septets
    <3>. QED
      BY <3>1, <3>2, Remainders
  <2>6. (p + 4 * l) \div 4 = l
    BY <2>1
  <2>7. l + (o % 256) * 64 = y + 128 * (z + w * 128 - 128 * e)
    BY <2>1, <2>4 DEF Septets
  <2>8. (l + (o % 256) * 64) % 128 = y
    <3>1. z + w * 128 - 128 * e \in Int
      BY <2>4 DEF Septets
    <3>. HIDE DEF o
    <3>. QED
      BY <2>7, <3>1, Remainders DEF Septets
  <2>9. 2^b = 4 /\ 2^(8 - b) = 64
    BY <1>2, Powers
  <2>. HIDE DEF o
  <2>. QED
    BY <2>2, <2>3, <2>5, <2>6, <2>8, <2>9 DEF Joined
<1>3. CASE b = 3
  <2> DEFINE p == x \div 16
             h == y \div 32
             l == y % 32
             o == h + z * 4 + w * 512
             e == o \div 256
  <2>1. p \in 0 .. 7 /\ h \in 0 .. 3 /\ l \in 0 .. 31 /\ y = 32 * h + l
    BY DEF Septets
  <2>2. OctetOf(x, y, z, r) = (p + y * 8 + z * 1024) % 256
    BY <1>3, Powers DEF OctetOf
  <2>3. OctetOf(y, z, w, s) = o % 256
    BY <1>3, Powers DEF OctetOf
  <2>4. o \in Int /\ e \in Int /\ o % 256 = o - 256 * e
    <3>1. o \in Int
      BY <2>1 DEF Septets
    <3>. HIDE DEF o
    <3>. QED
      BY <3>1, Remainders
  <2>. HIDE DEF p, h, l, e
  <2>5. (p + y * 8 + z * 1024) % 256 = p + 8 * l
    <3>1. p + y * 8 + z * 1024 = (p + 8 * l) + 256 * (h + z * 4)
      BY <2>1 DEF Septets
    <3>2. p + 8 * l \in 0 .. 255 /\ h + z * 4 \in Int
      BY <2>1 DEF Septets
    <3>. QED
      BY <3>1, <3>2, Remainders
  <2>6. (p + 8 * l) \div 8 = l
    BY <2>1
  <2>7. l + (o % 256) * 32 = y + 128 * (z + w * 128 - 64 * e)
    BY <2>1, <2>4 DEF Septets
  <2>8. (l + (o % 256) * 32) % 128 = y
    <3>1. z + w * 128 - 64 * e \in Int
      BY <2>4 DEF Septets
    <3>. HIDE DEF o
    <3>. QED
      BY <2>7, <3>1, Remainders DEF Septets
  <2>9. 2^b = 8 /\ 2^(8 - b) = 32
    BY <1>3, Powers
  <2>. HIDE DEF o
  <2>. QED
    BY <2>2, <2>3, <2>5, <2>6, <2>8, <2>9 DEF Joined
<1>4. CASE b = 4
  <2> DEFINE p == x \div 8
             h == y \div 16
             l == y % 16
             o == h + z * 8 + w * 1024
             e == o \div 256
  <2>1. p \in 0 .. 15 /\ h \in 0 .. 7 /\ l \in 0 .. 15 /\ y = 16 * h + l
    BY DEF Septets
  <2>2. OctetOf(x, y, z, r) = (p + y * 16 + z * 2048) % 256
    BY <1>4, Powers DEF OctetOf
  <2>3. OctetOf(y, z, w, s) = o % 256
    BY <1>4, Powers DEF OctetOf
  <2>4. o \in Int /\ e \in Int /\ o % 256 = o - 256 * e
    <3>1. o \in Int
      BY <2>1 DEF Septets
    <3>. HIDE DEF o
    <3>. QED
      BY <3>1, Remainders
  <2>. HIDE DEF p, h, l, e
  <2>5. (p + y * 16 + z * 2048) % 256 = p + 16 * l
    <3>1. p + y * 16 + z * 2048 = (p + 16 * l) + 256 * (h + z * 8)
      BY <2>1 DEF Septets
    <3>2. p + 16 * l \in 0 .. 255 /\ h + z * 8 \in Int
      BY <2>1 DEF Septets
    <3>. QED
      BY <3>1, <3>2, Remainders
  <2>6. (p + 16 * l) \div 16 = l
    BY <2>1
  <2>7. l + (o % 256) * 16 = y + 128 * (z + w * 128 - 32 * e)
    BY <2>1, <2>4 DEF Septets
  <2>8. (l + (o % 256) * 16) % 128 = y
    <3>1. z + w * 128 - 32 * e \in Int
      BY <2>4 DEF Septets
    <3>. HIDE DEF o
    <3>. QED
      BY <2>7, <3>1, Remainders DEF Septets
  <2>9. 2^b = 16 /\ 2^(8 - b) = 16
    BY <1>4, Powers
  <2>. HIDE DEF o
  <2>. QED
    BY <2>2, <2>3, <2>5, <2>6, <2>8, <2>9 DEF Joined
<1>5. CASE b = 5
  <2> DEFINE p == x \div 4
             h == y \div 8
             l == y % 8
             o == h + z * 16 + w * 2048
             e == o \div 256
  <2>1. p \in 0 .. 31 /\ h \in 0 .. 15 /\ l \in 0 .. 7 /\ y = 8 * h + l
    BY DEF Septets
  <2>2. OctetOf(x, y, z, r) = (p + y * 32 + z * 4096) % 256
    BY <1>5, Powers DEF OctetOf
  <2>3. OctetOf(y, z, w, s) = o % 256
    BY <1>5, Powers DEF OctetOf
  <2>4. o \in Int /\ e \in Int /\ o % 256 = o - 256 * e
    <3>1. o \in Int
      BY <2>1 DEF Septets
    <3>. HIDE DEF o
    <3>. QED
      BY <3>1, Remainders
  <2>. HIDE DEF p, h, l, e
  <2>5. (p + y * 32 + z * 4096) % 256 = p + 32 * l
    <3>1. p + y * 32 + z * 4096 = (p + 32 * l) + 256 * (h + z * 16)
      BY <2>1 DEF Septets
    <3>2. p + 32 * l \in 0 .. 255 /\ h + z * 16 \in Int
      BY <2>1 DEF Septets
    <3>. QED
      BY <3>1, <3>2, Remainders
  <2>6. (p + 32 * l) \div 32 = l
    BY <2>1
  <2>7. l + (o % 256) * 8 = y + 128 * (z + w * 128 - 16 * e)
    BY <2>1, <2>4 DEF Septets
  <2>8. (l + (o % 256) * 8) % 128 = y
    <3>1. z + w * 128 - 16 * e \in Int
      BY <2>4 DEF Septets
    <3>. HIDE DEF o
    <3>. QED
      BY <2>7, <3>1, Remainders DEF Septets
  <2>9. 2^b = 32 /\ 2^(8 - b) = 8
    BY <1>5, Powers
  <2>. HIDE DEF o
  <2>. QED
    BY <2>2, <2>3, <2>5, <2>6, <2>8, <2>9 DEF Joined
<1>6. CASE b = 6
  <2> DEFINE p == x \div 2
             h == y \div 4
             l == y % 4
             o == h + z * 32 + w * 4096
             e == o \div 256
  <2>1. p \in 0 .. 63 /\ h \in 0 .. 31 /\ l \in 0 .. 3 /\ y = 4 * h + l
    BY DEF Septets
  <2>2. OctetOf(x, y, z, r) = (p + y * 64 + z * 8192) % 256
    BY <1>6, Powers DEF OctetOf
  <2>3. OctetOf(y, z, w, s) = o % 256
    BY <1>6, Powers DEF OctetOf
  <2>4. o \in Int /\ e \in Int /\ o % 256 = o - 256 * e
    <3>1. o \in Int
      BY <2>1 DEF Septets
    <3>. HIDE DEF o
    <3>. QED
      BY <3>1, Remainders
  <2>. HIDE DEF p, h, l, e
  <2>5. (p + y * 64 + z * 8192) % 256 = p + 64 * l
    <3>1. p + y * 64 + z * 8192 = (p + 64 * l) + 256 * (h + z * 32)
      BY <2>1 DEF Septets
    <3>2. p + 64 * l \in 0 .. 255 /\ h + z * 32 \in Int
      BY <2>1 DEF Septets
    <3>. QED
      BY <3>1, <3>2, Remainders
  <2>6. (p + 64 * l) \div 64 = l
    BY <2>1
  <2>7. l + (o % 256) * 4 = y + 128 * (z + w * 128 - 8 * e)
    BY <2>1, <2>4 DEF Septets
  <2>8. (l + (o % 256) * 4) % 128 = y
    <3>1. z + w * 128 - 8 * e \in Int
      BY <2>4 DEF Septets
    <3>. HIDE DEF o
    <3>. QED
      BY <2>7, <3>1, Remainders DEF Septets
  <2>9. 2^b = 64 /\ 2^(8 - b) = 4
    BY <1>6, Powers
  <2>. HIDE DEF o
  <2>. QED
    BY <2>2, <2>3, <2>5, <2>6, <2>8, <2>9 DEF Joined
<1>7. CASE b = 7
  <2> DEFINE p == x \div 1
             h == y \div 2
             l == y % 2
             o == h + z * 64 + w * 8192
             e == o \div 256
  <2>1. p \in 0 .. 127 /\ h \in 0 .. 63 /\ l \in 0 .. 1 /\ y = 2 * h + l
    BY DEF Septets
  <2>2. OctetOf(x, y, z, r) = (p + y * 128 + z * 16384) % 256
    BY <1>7, Powers DEF OctetOf
  <2>3. OctetOf(y, z, w, s) = o % 256
    BY <1>7, Powers DEF OctetOf
  <2>4. o \in Int /\ e \in Int /\ o % 256 = o - 256 * e
    <3>1. o \in Int
      BY <2>1 DEF Septets
    <3>. HIDE DEF o
    <3>. QED
      BY <3>1, Remainders
  <2>. HIDE DEF p, h, l, e
  <2>5. (p + y * 128 + z * 16384) % 256 = p + 128 * l
    <3>1. p + y * 128 + z * 16384 = (p + 128 * l) + 256 * (h + z * 64)
      BY <2>1 DEF Septets
    <3>2. p + 128 * l \in 0 .. 255 /\ h + z * 64 \in Int
      BY <2>1 DEF Septets
    <3>. QED
      BY <3>1, <3>2, Remainders
  <2>6. (p + 128 * l) \div 128 = l
    BY <2>1
  <2>7. l + (o % 256) * 2 = y + 128 * (z + w * 128 - 4 * e)
    BY <2>1, <2>4 DEF Septets
  <2>8. (l + (o % 256) * 2) % 128 = y
    <3>1. z + w * 128 - 4 * e \in Int
      BY <2>4 DEF Septets
    <3>. HIDE DEF o
    <3>. QED
      BY <2>7, <3>1, Remainders DEF Septets
  <2>9. 2^b = 128 /\ 2^(8 - b) = 2
    BY <1>7, Powers
  <2>. HIDE DEF o
  <2>. QED
    BY <2>2, <2>3, <2>5, <2>6, <2>8, <2>9 DEF Joined
<1>. QED
  BY <1>2, <1>3, <1>4, <1>5, <1>6, <1>7

\* Division by 7, with the quotient and the remainder given.
LEMMA DivideBy7 ==
    \A a, q \in Int, r \in 0 .. 6 : a = 7 * (q - 1) + r => a \div 7 + 1 = q /\ a % 7 = r
OBVIOUS

\* The shifts of pack_septets are whole numbers.
LEMMA ShiftsAreNat ==
    ASSUME NEW r \in 0 .. 6
    PROVE  2^r \in Nat \ {0} /\ 2^(7 - r) \in Nat /\ 2^(14 - r) \in Nat
<1>1. r = 0 \/ r = 1 \/ r = 2 \/ r = 3 \/ r = 4 \/ r = 5 \/ r = 6
  OBVIOUS
<1>2. CASE r = 0
  BY <1>2, Powers
<1>3. CASE r = 1
  BY <1>3, Powers
<1>4. CASE r = 2
  BY <1>4, Powers
<1>5. CASE r = 3
  BY <1>5, Powers
<1>6. CASE r = 4
  BY <1>6, Powers
<1>7. CASE r = 5
  BY <1>7, Powers
<1>8. CASE r = 6
  BY <1>8, Powers
<1>. QED
  BY <1>1, <1>2, <1>3, <1>4, <1>5, <1>6, <1>7, <1>8

\* A sequence has a septet or 0 at every place.
LEMMA AtValue ==
    ASSUME NEW septets \in Seq(0 .. 127), NEW j \in Int
    PROVE  At(septets, j) \in 0 .. 127
<1>1. j \in DOMAIN septets => septets[j] \in 0 .. 127
  <2>1. DOMAIN septets = 1 .. Len(septets)
    OBVIOUS
  <2>. QED
    BY <2>1, ElementOfSeq
<1>2. 0 \in 0 .. 127
  OBVIOUS
<1>. QED
  BY <1>1, <1>2 DEF At

\* The octet whose first bit is bit r of septet q.
Octet(septets, q, r) == OctetOf(At(septets, q), At(septets, q + 1), At(septets, q + 2), r)

\* What pack_septets puts in octet i.
LEMMA PackedOctet ==
    ASSUME NEW septets \in Seq(0 .. 127), NEW fill \in 0 .. 6,
           NEW i \in 1 .. ((fill + 7 * Len(septets) + 7) \div 8),
           NEW q \in Int, NEW r \in 0 .. 6, 8 * (i - 1) - fill = 7 * (q - 1) + r
    PROVE  pack_septets(septets, fill)[i] = Octet(septets, q, r)
<1>1. Len(septets) \in Nat /\ i \in Int /\ 8 * (i - 1) - fill \in Int
  OBVIOUS
<1>2. (8 * (i - 1) - fill) \div 7 + 1 = q /\ (8 * (i - 1) - fill) % 7 = r
  BY <1>1, DivideBy7
<1>3. pack_septets(septets, fill)[i] =
          Octet(septets, (8 * (i - 1) - fill) \div 7 + 1, (8 * (i - 1) - fill) % 7)
  BY DEF pack_septets, Octet, OctetOf
<1>. QED
  BY <1>2, <1>3

\* It is a number.
LEMMA PackedValue ==
    ASSUME NEW septets \in Seq(0 .. 127), NEW fill \in 0 .. 6, NEW j \in Int
    PROVE  At(pack_septets(septets, fill), j) \in Int
<1> DEFINE data == pack_septets(septets, fill)
           size == (fill + 7 * Len(septets) + 7) \div 8
<1>1. DOMAIN data = 1 .. size
  BY DEF pack_septets
<1>2. ASSUME j \in 1 .. size PROVE data[j] \in Int
  <2>1. \A a \in Int : a \div 7 + 1 \in Int /\ a % 7 \in 0 .. 6 /\ a = 7 * ((a \div 7 + 1) - 1) + (a % 7)
    <3>. SUFFICES ASSUME NEW a \in Int
                  PROVE  a \div 7 + 1 \in Int /\ a % 7 \in 0 .. 6
                             /\ a = 7 * ((a \div 7 + 1) - 1) + (a % 7)
      OBVIOUS
    <3>. QED
      OBVIOUS
  <2>2. PICK q \in Int, r \in 0 .. 6 : 8 * (j - 1) - fill = 7 * (q - 1) + r
    <3>1. 8 * (j - 1) - fill \in Int
      OBVIOUS
    <3>. QED
      BY <2>1, <3>1
  <2>3. data[j] = Octet(septets, q, r)
    BY <1>2, <2>2, PackedOctet
  <2>4. At(septets, q) \in Int /\ At(septets, q + 1) \in Int /\ At(septets, q + 2) \in Int
    <3>1. q + 1 \in Int /\ q + 2 \in Int
      OBVIOUS
    <3>2. At(septets, q) \in 0 .. 127 /\ At(septets, q + 1) \in 0 .. 127 /\ At(septets, q + 2) \in 0 .. 127
      BY <3>1, AtValue
    <3>3. \A a \in 0 .. 127 : a \in Int
      OBVIOUS
    <3>. QED
      BY <3>2, <3>3, Zenon
  <2>5. 2^r \in Nat \ {0} /\ 2^(7 - r) \in Nat /\ 2^(14 - r) \in Nat
    BY ShiftsAreNat
  <2>6. \A a, c, e, g, h \in Int : \A d \in Nat \ {0} : (a \div d + c * e + g * h) % 256 \in Int
    <3>. SUFFICES ASSUME NEW a \in Int, NEW c \in Int, NEW e \in Int, NEW g \in Int, NEW h \in Int,
                         NEW d \in Nat \ {0}
                  PROVE  (a \div d + c * e + g * h) % 256 \in Int
      OBVIOUS
    <3>1. a \div d \in Int /\ c * e \in Int /\ g * h \in Int
      OBVIOUS
    <3>2. a \div d + c * e + g * h \in Int
      BY <3>1
    <3>3. \A x \in Int : x % 256 \in Int
      OBVIOUS
    <3>. QED
      BY <3>2, <3>3
  <2>7. Octet(septets, q, r) \in Int
    BY <2>4, <2>5, <2>6 DEF Octet, OctetOf
  <2>. QED
    BY <2>3, <2>7
<1>. QED
  BY <1>1, <1>2 DEF At

\* Septet k of L septets behind `fill` bits starts at bit b of octet i, and ends
\* in the next octet unless b is 0 or 1.
LEMMA WhereSeptetIs ==
    ASSUME NEW L \in Nat, NEW fill \in 0 .. 6, NEW k \in 1 .. L
    PROVE  LET bit == fill + 7 * (k - 1)
               i == bit \div 8 + 1
               b == bit % 8
               size == (fill + 7 * L + 7) \div 8
           IN  /\ i \in 1 .. size /\ b \in 0 .. 7 /\ bit = 8 * (i - 1) + b
               /\ b >= 2 => i + 1 \in 1 .. size
<1> DEFINE bit == fill + 7 * (k - 1)
           i == bit \div 8 + 1
           b == bit % 8
           size == (fill + 7 * L + 7) \div 8
<1>1. bit \in Nat /\ bit <= fill + 7 * L - 7
  OBVIOUS
<1>2. \A a \in Nat : a \div 8 \in Nat /\ a % 8 \in 0 .. 7 /\ a = 8 * (a \div 8) + (a % 8)
  <2>. SUFFICES ASSUME NEW a \in Nat
                PROVE  a \div 8 \in Nat /\ a % 8 \in 0 .. 7 /\ a = 8 * (a \div 8) + (a % 8)
    OBVIOUS
  <2>. QED
    OBVIOUS
<1>3. i \in Nat /\ i >= 1 /\ b \in 0 .. 7 /\ bit = 8 * (i - 1) + b
  <2>1. bit \div 8 \in Nat /\ bit % 8 \in 0 .. 7 /\ bit = 8 * (bit \div 8) + (bit % 8)
    <3>. HIDE DEF bit
    <3>. QED
      BY <1>1, <1>2
  <2>. HIDE DEF bit
  <2>. QED
    BY <2>1
<1>4. /\ size \in Nat /\ 8 * size <= fill + 7 * L + 7 /\ fill + 7 * L + 7 <= 8 * size + 7
  <2> DEFINE a == fill + 7 * L + 7
  <2>1. a \in Nat
    OBVIOUS
  <2>2. a \div 8 \in Nat /\ a % 8 \in 0 .. 7 /\ a = 8 * (a \div 8) + (a % 8)
    <3>. HIDE DEF a
    <3>. QED
      BY <2>1, <1>2
  <2>. HIDE DEF a
  <2>3. a \div 8 \in Nat /\ 8 * (a \div 8) <= a /\ a <= 8 * (a \div 8) + 7
    BY <2>2
  <2>. QED
    BY <2>3 DEF a
<1>. HIDE DEF i, b, size
<1>5. i <= size
  BY <1>1, <1>3, <1>4
<1>6. b >= 2 => i + 1 <= size
  BY <1>1, <1>3, <1>4
<1>7. i \in 1 .. size /\ b \in 0 .. 7 /\ bit = 8 * (i - 1) + b /\ (b >= 2 => i + 1 \in 1 .. size)
  BY <1>3, <1>4, <1>5, <1>6
<1>. QED
  BY <1>7 DEF i, b, size

\* unpack_septets inverts pack_septets, for every number of septets and of fill
\* bits: what the codec packs behind a header of any length is what it reads.
THEOREM PackingRoundTrip ==
    ASSUME NEW septets \in Seq(0 .. 127), NEW fill \in 0 .. 6
    PROVE  unpack_septets(pack_septets(septets, fill), Len(septets), fill) = septets
<1> DEFINE data == pack_septets(septets, fill)
           size == (fill + 7 * Len(septets) + 7) \div 8
           V(j) == At(septets, j)
<1>1. Len(septets) \in Nat /\ DOMAIN septets = 1 .. Len(septets)
  OBVIOUS
<1>2. DOMAIN data = 1 .. size
  BY DEF pack_septets
<1>5. ASSUME NEW k \in 1 .. Len(septets)
      PROVE  unpack_septets(data, Len(septets), fill)[k] = septets[k]
  <2> DEFINE bit == fill + 7 * (k - 1)
             i == bit \div 8 + 1
             b == bit % 8
  <2>1. /\ i \in 1 .. size /\ b \in 0 .. 7 /\ bit = 8 * (i - 1) + b
        /\ b >= 2 => i + 1 \in 1 .. size
    BY <1>1, WhereSeptetIs
  <2>2. unpack_septets(data, Len(septets), fill)[k] =
            Joined(At(data, i), At(data, i + 1), b)
    BY DEF unpack_septets, Joined
  <2>. HIDE DEF i, b
  <2>3. septets[k] = V(k) /\ At(data, i) = data[i]
    BY <1>1, <1>2, <2>1 DEF At
  <2>4. V(k - 1) \in Septets /\ V(k) \in Septets /\ V(k + 1) \in Septets /\ V(k + 2) \in Septets
    <3>1. k - 1 \in Int /\ k \in Int /\ k + 1 \in Int /\ k + 2 \in Int
      OBVIOUS
    <3>. QED
      BY <3>1, AtValue DEF Septets
  <2>5. At(data, i + 1) \in Int
    <3>1. i + 1 \in Int
      BY <2>1
    <3>. QED
      BY <3>1, PackedValue
  <2>6. i \in Int /\ k \in Int /\ fill \in Int /\ fill + 7 * (k - 1) = 8 * (i - 1) + b
    BY <2>1
  <2>7. ASSUME NEW q \in Int, NEW r \in 0 .. 6, 8 * (i - 1) - fill = 7 * (q - 1) + r
        PROVE  data[i] = Octet(septets, q, r)
    BY <2>1, <2>7, PackedOctet
  <2>8. ASSUME b >= 2, NEW r \in 0 .. 6, 8 * i - fill = 7 * (k - 1) + r
        PROVE  At(data, i + 1) = Octet(septets, k, r)
    <3>1. i + 1 \in 1 .. size /\ i + 1 \in Int /\ 8 * ((i + 1) - 1) - fill = 7 * (k - 1) + r
      BY <2>1, <2>6, <2>8
    <3>2. At(data, i + 1) = data[i + 1]
      BY <1>2, <3>1 DEF At
    <3>3. data[i + 1] = Octet(septets, k, r)
      BY <2>6, <3>1, PackedOctet
    <3>. QED
      BY <3>2, <3>3
  <2>. HIDE DEF bit, V, data, size
  <2>9. CASE b = 0
    <3>1. data[i] = Octet(septets, k, 0)
      BY <2>6, <2>7, <2>9
    <3>2. data[i] = OctetOf(V(k), V(k + 1), V(k + 2), 0)
      BY <3>1 DEF Octet, V
    <3>. QED
      BY <2>2, <2>3, <2>4, <2>5, <2>9, <3>2, WithinOctet
  <2>10. CASE b = 1
    <3>1. data[i] = Octet(septets, k - 1, 6)
      <4>1. k - 1 \in Int /\ 8 * (i - 1) - fill = 7 * ((k - 1) - 1) + 6
        BY <2>6, <2>10
      <4>. QED
        BY <2>7, <4>1
    <3>2. data[i] = OctetOf(V(k - 1), V(k), V(k + 1), 6)
      <4>1. (k - 1) + 1 = k /\ (k - 1) + 2 = k + 1
        OBVIOUS
      <4>. QED
        BY <3>1, <4>1 DEF Octet, V
    <3>. QED
      BY <2>2, <2>3, <2>4, <2>5, <2>10, <3>2, WithinOctet
  <2>11. CASE b >= 2
    <3>1. PICK r \in 0 .. 6, s \in 0 .. 6 : r = 7 - b /\ s = 8 - b /\ b \in 2 .. 7
      BY <2>1, <2>11
    <3>2. data[i] = OctetOf(V(k - 1), V(k), V(k + 1), r)
      <4>1. k - 1 \in Int /\ 8 * (i - 1) - fill = 7 * ((k - 1) - 1) + r
        BY <2>6, <3>1
      <4>2. data[i] = Octet(septets, k - 1, r)
        BY <2>7, <4>1
      <4>3. (k - 1) + 1 = k /\ (k - 1) + 2 = k + 1
        OBVIOUS
      <4>. QED
        BY <4>2, <4>3 DEF Octet, V
    <3>3. At(data, i + 1) = OctetOf(V(k), V(k + 1), V(k + 2), s)
      <4>1. 8 * i - fill = 7 * (k - 1) + s
        BY <2>6, <3>1
      <4>2. At(data, i + 1) = Octet(septets, k, s)
        BY <2>8, <2>11, <4>1
      <4>. QED
        BY <4>2 DEF Octet, V
    <3>. QED
      BY <2>2, <2>3, <2>4, <3>1, <3>2, <3>3, AcrossOctets

  <2>. QED
    BY <2>1, <2>9, <2>10, <2>11
<1>. HIDE DEF data
<1>6. unpack_septets(data, Len(septets), fill) = [k \in 1 .. Len(septets) |-> septets[k]]
  <2>1. unpack_septets(data, Len(septets), fill) =
            [k \in 1 .. Len(septets) |-> unpack_septets(data, Len(septets), fill)[k]]
    BY DEF unpack_septets
  <2>. QED
    BY <1>5, <2>1
<1>7. septets = [k \in 1 .. Len(septets) |-> septets[k]]
  BY <1>1
<1>. QED
  BY <1>6, <1>7 DEF data

\* A function on 1 .. n is a sequence of n elements.
LEMMA FunctionIsSeq ==
    ASSUME NEW n \in Nat, NEW f, f = [i \in 1 .. n |-> f[i]]
    PROVE  f \in Seq({f[i] : i \in 1 .. n}) /\ Len(f) = n /\ DOMAIN f = 1 .. n
<1> DEFINE S == {f[i] : i \in 1 .. n}
<1>1. f \in [1 .. n -> S]
  OBVIOUS
<1>2. f \in Seq(S)
  BY <1>1, SeqDef
<1>. QED
  BY <1>1, <1>2, LenProperties

-----------------------------------------------------------------------------
(* The codec: what the receiver reads, and its segments in order.          *)

\* A phone numbers its messages with 16 bits or with 8.
LEMMA WideIsBoolean == \A p \in Phones : p.wide \in BOOLEAN
BY PhonesAssumption

\* The segments of a message, and what they look like in the assembler.
Total(m) == Len(m.pdus)
Piece(m, n) == [key |-> Key(m), seq |-> n, text |-> Read(m, n).text]
Pieces(m) == {Piece(m, n) : n \in 1 .. Total(m)}
Whole(m) == [sender |-> m.from, text |-> m.text, partial |-> FALSE]

\* A message that reads as it was written.
Faithful(m) ==
    /\ Total(m) \in Nat \ {0} /\ DOMAIN m.pdus = 1 .. Total(m)
    /\ \A n \in 1 .. Total(m) :
          /\ Read(m, n).sender = m.from
          /\ Read(m, n).concat = IF Total(m) = 1 THEN <<>> ELSE <<m.ref, Total(m), n>>
    /\ FlattenSeq([n \in 1 .. Total(m) |-> Read(m, n).text]) = m.text
    /\ Total(m) = 1 => Read(m, 1).text = m.text
AllFaithful == \A m \in Messages : Faithful(m)

\* There is a PDU for each segment.
LEMMA PdusAreParts ==
    ASSUME NEW t, NEW r, NEW wide, NEW S, PartsOf(t, wide) \in Seq(S)
    PROVE  /\ Len(build_submit_pdus(t, r, wide)) = Len(PartsOf(t, wide))
           /\ Len(PartsOf(t, wide)) \in Nat
           /\ DOMAIN build_submit_pdus(t, r, wide) = 1 .. Len(PartsOf(t, wide))
<1> DEFINE pdus == build_submit_pdus(t, r, wide)
           n == Len(PartsOf(t, wide))
<1>1. n \in Nat /\ DOMAIN PartsOf(t, wide) = 1 .. n
  BY LenProperties
<1>2. DOMAIN pdus = DOMAIN PartsOf(t, wide) /\ pdus = [i \in DOMAIN PartsOf(t, wide) |-> pdus[i]]
  BY DEF build_submit_pdus
<1>. HIDE DEF pdus
<1>3. pdus = [i \in 1 .. n |-> pdus[i]]
  BY <1>1, <1>2
<1>. HIDE DEF n
<1>4. Len(pdus) = n
  BY <1>1, <1>3, FunctionIsSeq
<1>. QED
  BY <1>1, <1>2, <1>4 DEF pdus, n

\* A sequence of one text is that text.
LEMMA FlattenOne ==
    ASSUME NEW S, NEW s \in Seq(S), Len(s) = 1
    PROVE  FlattenSeq(s) = s[1]
<1> DEFINE G(f) == [i \in 1 .. Len(s) |-> IF i = 1 THEN s[i] ELSE f[i - 1] \o s[i]]
           flatten == CHOOSE f : f = G(f)
           one == [i \in 1 .. 1 |-> s[1]]
<1>1. one = G(one)
  OBVIOUS
<1>2. flatten = G(flatten)
  BY <1>1
<1>3. flatten[1] = s[1]
  BY <1>2
<1>. QED
  BY <1>3 DEF FlattenSeq

\* What the split and the decoder do makes every message faithful.
LEMMA MessagesAreFaithful ==
    ASSUME SplitsToFit, DecodesBack
    PROVE  AllFaithful
<1>. SUFFICES ASSUME NEW p \in Phones, NEW t \in Texts, NEW r \in Refs
              PROVE  Faithful(Message(p, t, r))
  BY DEF AllFaithful, Messages
<1> DEFINE m == Message(p, t, r)
           segments == PartsOf(t, p.wide)
<1>0. m.from = p.number /\ m.text = t /\ m.ref = r /\ m.pdus = build_submit_pdus(t, r, p.wide)
  BY DEF Message
<1>1. p.wide \in BOOLEAN
  BY WideIsBoolean
<1>2. segments \in Seq(Seq(Alphabet)) \ {<<>>} /\ FlattenSeq(segments) = t
  BY <1>1 DEF SplitsToFit
<1>3. Total(m) = Len(segments) /\ Len(segments) \in Nat /\ DOMAIN m.pdus = 1 .. Total(m)
  BY <1>0, <1>2, PdusAreParts DEF Total
<1>4. Len(segments) # 0
  BY <1>2, EmptySeq
<1>5. \A n \in DOMAIN m.pdus :
        Read(m, n) = [sender |-> m.from,
                      concat |-> IF Len(m.pdus) = 1 THEN <<>> ELSE <<r, Len(m.pdus), n>>,
                      text |-> segments[n]]
  BY DEF DecodesBack
<1>. HIDE DEF m, segments
<1>6. \A n \in 1 .. Total(m) :
        /\ Read(m, n).sender = m.from /\ Read(m, n).text = segments[n]
        /\ Read(m, n).concat = IF Total(m) = 1 THEN <<>> ELSE <<m.ref, Total(m), n>>
  BY <1>0, <1>3, <1>5 DEF Total
<1>7. [n \in 1 .. Total(m) |-> Read(m, n).text] = segments
  <2>1. [n \in 1 .. Total(m) |-> Read(m, n).text] = [n \in 1 .. Total(m) |-> segments[n]]
    BY <1>6
  <2>2. segments = [n \in 1 .. Len(segments) |-> segments[n]]
    BY <1>2
  <2>. QED
    BY <1>3, <2>1, <2>2
<1>8. Total(m) = 1 => Read(m, 1).text = m.text
  <2>1. Total(m) = 1 => FlattenSeq(segments) = segments[1]
    BY <1>2, <1>3, FlattenOne
  <2>. QED
    BY <1>0, <1>2, <1>6, <2>1
<1>. QED
  BY <1>0, <1>2, <1>3, <1>4, <1>6, <1>7, <1>8 DEF Faithful, m

\* The assembler puts the segments of a message together in their order,
\* whatever the order they came in.
LEMMA PiecesInOrder ==
    ASSUME NEW m, Faithful(m)
    PROVE  /\ IsFiniteSet(Pieces(m)) /\ Cardinality(Pieces(m)) = Total(m)
           /\ InOrder(Pieces(m)) = m.text
<1> DEFINE N == Total(m)
           Below(i) == {Piece(m, n) : n \in 1 .. i}
<1>1. N \in Nat \ {0} /\ FlattenSeq([n \in 1 .. N |-> Read(m, n).text]) = m.text
  BY DEF Faithful
<1>2. \A n : Piece(m, n).seq = n /\ Piece(m, n).text = Read(m, n).text
  BY DEF Piece
<1>3. ASSUME NEW i \in Nat
      PROVE  IsFiniteSet(Below(i)) /\ Cardinality(Below(i)) = i
  <2> DEFINE f == [n \in 1 .. i |-> Piece(m, n)]
  <2>1. f \in [1 .. i -> Below(i)]
    OBVIOUS
  <2>2. \A a, b \in 1 .. i : f[a] = f[b] => a = b
    BY <1>2
  <2>3. \A e \in Below(i) : \E n \in 1 .. i : f[n] = e
    OBVIOUS
  <2>4. f \in Bijection(1 .. i, Below(i))
    BY <2>1, <2>2, <2>3, Fun_IsBij
  <2>5. ExistsBijection(1 .. i, Below(i))
    BY <2>4 DEF ExistsBijection
  <2>6. IsFiniteSet(1 .. i) /\ Cardinality(1 .. i) = i
    BY FS_Interval
  <2>. HIDE DEF Below
  <2>. QED
    BY <2>5, <2>6, FS_Bijection
<1>4. Pieces(m) = Below(N)
  BY DEF Pieces
<1>5. ASSUME NEW i \in 1 .. N
      PROVE  {d \in Pieces(m) : d.seq < Piece(m, i).seq} = Below(i - 1)
  BY <1>1, <1>2 DEF Pieces
<1> DEFINE Rank(e) == Cardinality({d \in Pieces(m) : d.seq < e.seq})
           Nth(k) == CHOOSE e \in Pieces(m) : Rank(e) = k - 1
<1>6. ASSUME NEW i \in 1 .. N
      PROVE  Rank(Piece(m, i)) = i - 1
  <2>1. i - 1 \in Nat
    OBVIOUS
  <2>. HIDE DEF Below
  <2>. QED
    BY <1>3, <1>5, <2>1
<1>. HIDE DEF Rank
<1>7. ASSUME NEW k \in 1 .. N
      PROVE  Nth(k) = Piece(m, k)
  <2>1. Piece(m, k) \in Pieces(m) /\ Rank(Piece(m, k)) = k - 1
    BY <1>6 DEF Pieces
  <2>2. ASSUME NEW e \in Pieces(m), Rank(e) = k - 1
        PROVE  e = Piece(m, k)
    <3>1. PICK i \in 1 .. N : e = Piece(m, i)
      BY DEF Pieces
    <3>2. i - 1 = k - 1
      BY <1>6, <2>2, <3>1
    <3>. QED
      BY <3>1, <3>2
  <2>. QED
    BY <2>1, <2>2
<1>8. Cardinality(Pieces(m)) = N /\ IsFiniteSet(Pieces(m))
  <2>. HIDE DEF Below
  <2>. QED
    BY <1>1, <1>3, <1>4
<1>9. InOrder(Pieces(m)) = FlattenSeq([k \in 1 .. N |-> Nth(k).text])
  BY <1>8 DEF InOrder, Rank
<1>. HIDE DEF Nth
<1>10. [k \in 1 .. N |-> Nth(k).text] = [n \in 1 .. N |-> Read(m, n).text]
  BY <1>2, <1>7
<1>. QED
  BY <1>1, <1>8, <1>9, <1>10

-----------------------------------------------------------------------------
(* The codec: reassembly.                                                  *)

Keys == {Key(m) : m \in Messages}

\* Of message k: the segments still under way, those that arrived, and whether
\* no later message has its key.
Missing(k) == {n \in 1 .. Total(sent[k]) : <<k, n>> \in air}
Arrived(k) == {Piece(sent[k], n) : n \in (1 .. Total(sent[k])) \ Missing(k)}
Latest(k) == \A j \in DOMAIN sent : j > k => Key(sent[j]) # Key(sent[k])
Many(k) == Total(sent[k]) > 1

\* The variables are well formed.
CodecTypes ==
    /\ sent \in Seq(Messages) /\ flushed \in Seq(Keys)
    /\ \A s \in air : \E k \in DOMAIN sent : \E n \in 1 .. Total(sent[k]) : s = <<k, n>>
    /\ \A e \in parts : e.key \in Keys

\* A key that never clashed is free when a message takes it.
Apart == \A j, k \in DOMAIN sent :
    j < k /\ Key(sent[j]) = Key(sent[k]) /\ Many(k) /\ Key(sent[k]) \notin clashed => Missing(j) = {}

\* The set of such a key holds segments of its latest message only.
OwnParts == \A k \in DOMAIN sent :
    Latest(k) /\ Many(k) /\ Key(sent[k]) \notin clashed => SetOf(Key(sent[k])) \subseteq Arrived(k)

\* Unless a set of the key was given up: a message is published and its set is
\* gone, or segments are under way and the set holds all the others.
Assembled(k) == /\ Missing(k) = {} /\ Whole(sent[k]) \in published
                /\ Latest(k) => SetOf(Key(sent[k])) = {}
Assembling(k) == Latest(k) /\ Missing(k) # {} /\ SetOf(Key(sent[k])) = Arrived(k)
Progress == \A k \in DOMAIN sent :
    Many(k) /\ Key(sent[k]) \notin clashed \cup Range(flushed) => Assembled(k) \/ Assembling(k)
SingleDone == \A k \in DOMAIN sent :
    Total(sent[k]) = 1 /\ Missing(k) = {} => Whole(sent[k]) \in published

CodecIInv == CodecTypes /\ Apart /\ OwnParts /\ Progress /\ SingleDone /\ WholeIsAsSent

\* The key of a message names its sender and its number of segments.
LEMMA KeyFields ==
    ASSUME NEW m
    PROVE  Key(m)[1] = m.from /\ Key(m)[2] = m.ref /\ Key(m)[3] = Total(m)
BY DEF Key, Total

\* What the messages under way are.
LEMMA SentAre ==
    ASSUME AllFaithful, CodecTypes, NEW k \in DOMAIN sent
    PROVE  /\ k \in Nat /\ sent[k] \in Messages /\ Faithful(sent[k]) /\ Key(sent[k]) \in Keys
           /\ Total(sent[k]) \in Nat \ {0} /\ DOMAIN sent = 1 .. Len(sent) /\ Len(sent) \in Nat
<1>1. sent \in Seq(Messages)
  BY DEF CodecTypes
<1>2. DOMAIN sent = 1 .. Len(sent) /\ Len(sent) \in Nat /\ sent[k] \in Messages
  BY <1>1, LenProperties, ElementOfSeq
<1>. QED
  BY <1>2 DEF AllFaithful, Faithful, Keys

\* What a set that takes segment n of message k becomes.
Completed(k, n) == {e \in SetOf(Key(sent[k])) : e.seq # n} \cup {Piece(sent[k], n)}

\* The delivery of a single segment.
LEMMA ReceiveSingle ==
    ASSUME AllFaithful, CodecTypes, NEW k \in DOMAIN sent, Total(sent[k]) = 1, Receive(<<k, 1>>)
    PROVE  published' = published \cup {Whole(sent[k])} /\ parts' = parts
<1>1. Faithful(sent[k])
  BY SentAre
<1> DEFINE d == Read(sent[k], 1)
<1>2. d.concat = <<>> /\ d.sender = sent[k].from /\ d.text = sent[k].text
  BY <1>1 DEF Faithful
<1>3. Add(d)
  BY DEF Receive
<1>. HIDE DEF d
<1>. QED
  BY <1>2, <1>3 DEF Add, Publish, Whole

\* The delivery of a segment of several.
LEMMA ReceiveMany ==
    ASSUME AllFaithful, CodecTypes, NEW k \in DOMAIN sent, NEW n \in 1 .. Total(sent[k]), Many(k),
           Receive(<<k, n>>)
    PROVE  \/ /\ Cardinality(Completed(k, n)) = Total(sent[k])
              /\ published' = published \cup {[sender |-> sent[k].from,
                                               text |-> InOrder(Completed(k, n)), partial |-> FALSE]}
              /\ parts' = parts \ SetOf(Key(sent[k]))
           \/ /\ Cardinality(Completed(k, n)) # Total(sent[k])
              /\ published' = published
              /\ parts' = (parts \ SetOf(Key(sent[k]))) \cup Completed(k, n)
<1>1. Faithful(sent[k]) /\ Total(sent[k]) # 1
  BY SentAre DEF Many
<1> DEFINE d == Read(sent[k], n)
<1>2. d.concat = <<sent[k].ref, Total(sent[k]), n>> /\ d.sender = sent[k].from
  BY <1>1 DEF Faithful
<1>3. Add(d)
  BY DEF Receive
<1>4. d.concat # <<>> /\ d.concat[1] = sent[k].ref /\ d.concat[2] = Total(sent[k]) /\ d.concat[3] = n
  BY <1>2
<1>5. Piece(sent[k], n) = [key |-> Key(sent[k]), seq |-> n, text |-> d.text]
  BY DEF Piece
<1>. HIDE DEF d
<1>6. KeyOf(d) = Key(sent[k])
  BY <1>2, <1>4 DEF KeyOf, Key, Total
<1>7. {e \in SetOf(KeyOf(d)) : e.seq # d.concat[3]}
          \cup {[key |-> KeyOf(d), seq |-> d.concat[3], text |-> d.text]} = Completed(k, n)
  BY <1>4, <1>5, <1>6 DEF Completed
<1>8. \/ /\ Cardinality(Completed(k, n)) = d.concat[2]
         /\ Publish(d.sender, InOrder(Completed(k, n)), FALSE)
         /\ parts' = parts \ SetOf(KeyOf(d))
      \/ /\ Cardinality(Completed(k, n)) # d.concat[2]
         /\ UNCHANGED published
         /\ parts' = (parts \ SetOf(KeyOf(d))) \cup Completed(k, n)
  BY <1>3, <1>4, <1>7 DEF Add
<1>. QED
  BY <1>2, <1>4, <1>6, <1>8 DEF Publish

\* What a delivery leaves alone.
LEMMA ReceiveFrame ==
    ASSUME AllFaithful, CodecTypes, NEW k \in DOMAIN sent, NEW n \in 1 .. Total(sent[k]),
           <<k, n>> \in air, Receive(<<k, n>>), NEW j \in DOMAIN sent
    PROVE  /\ sent' = sent /\ clashed' = clashed /\ flushed' = flushed
           /\ Missing(j)' = IF j = k THEN Missing(k) \ {n} ELSE Missing(j)
           /\ Arrived(j)' = IF j = k THEN Arrived(k) \cup {Piece(sent[k], n)} ELSE Arrived(j)
           /\ Latest(j)' = Latest(j) /\ Many(j)' = Many(j) /\ n \in Missing(k)
<1>1. sent' = sent /\ clashed' = clashed /\ flushed' = flushed /\ air' = air \ {<<k, n>>}
  BY DEF Receive
<1>2. Missing(j)' = IF j = k THEN Missing(k) \ {n} ELSE Missing(j)
  BY <1>1 DEF Missing
<1>3. n \in Missing(k)
  BY DEF Missing
<1>4. Arrived(j)' = {Piece(sent[j], i) : i \in (1 .. Total(sent[j])) \ Missing(j)'}
  BY <1>1 DEF Arrived
<1>5. Arrived(j)' = IF j = k THEN Arrived(k) \cup {Piece(sent[k], n)} ELSE Arrived(j)
  <2>1. CASE j # k
    BY <1>2, <1>4, <2>1 DEF Arrived
  <2>2. CASE j = k
    <3>1. (1 .. Total(sent[k])) \ Missing(k)' = ((1 .. Total(sent[k])) \ Missing(k)) \cup {n}
      BY <1>2, <1>3, <2>2
    <3>. QED
      BY <1>4, <2>2, <3>1 DEF Arrived
  <2>. QED
    BY <2>1, <2>2
<1>6. Latest(j)' = Latest(j) /\ Many(j)' = Many(j)
  BY <1>1 DEF Latest, Many
<1>. QED
  BY <1>1, <1>2, <1>3, <1>5, <1>6

\* A segment of an unclashed key belongs to its latest message, and joins the
\* segments of that message.
LEMMA ReceiveLatest ==
    ASSUME AllFaithful, CodecIInv, NEW k \in DOMAIN sent, NEW n \in 1 .. Total(sent[k]), Many(k),
           <<k, n>> \in air, Receive(<<k, n>>), Key(sent[k]) \notin clashed
    PROVE  /\ Latest(k)
           /\ \A j \in DOMAIN sent : Latest(j) /\ Key(sent[j]) = Key(sent[k]) => j = k
           /\ Completed(k, n) = SetOf(Key(sent[k])) \cup {Piece(sent[k], n)}
           /\ Completed(k, n) \subseteq Arrived(k)' /\ Arrived(k)' \subseteq Pieces(sent[k])
<1>. CodecTypes
  BY DEF CodecIInv
<1>1. n \in Missing(k) /\ Arrived(k)' = Arrived(k) \cup {Piece(sent[k], n)}
  BY ReceiveFrame
<1>2. ASSUME NEW j \in DOMAIN sent, Key(sent[j]) = Key(sent[k]) PROVE j <= k
  <2>1. Total(sent[j]) = Total(sent[k])
    BY <1>2, KeyFields
  <2>2. j \in Nat /\ k \in Nat
    BY SentAre
  <2>3. j > k => Missing(k) = {}
    BY <1>2, <2>1, <2>2 DEF CodecIInv, Apart, Many
  <2>. QED
    BY <1>1, <2>2, <2>3
<1>3. Latest(k)
  <2>1. \A j \in DOMAIN sent : j \in Nat /\ k \in Nat
    BY SentAre
  <2>. QED
    BY <1>2, <2>1 DEF Latest
<1>4. ASSUME NEW j \in DOMAIN sent, Latest(j), Key(sent[j]) = Key(sent[k]) PROVE j = k
  <2>1. j <= k
    BY <1>2, <1>4
  <2>2. j \in Nat /\ k \in Nat
    BY SentAre
  <2>3. ~ (k > j)
    BY <1>4 DEF Latest
  <2>. QED
    BY <2>1, <2>2, <2>3
<1>5. SetOf(Key(sent[k])) \subseteq Arrived(k)
  BY <1>3 DEF CodecIInv, OwnParts
<1>6. \A e \in Arrived(k) : e.seq # n
  BY <1>1 DEF Arrived, Piece
<1>7. Completed(k, n) = SetOf(Key(sent[k])) \cup {Piece(sent[k], n)}
  BY <1>5, <1>6 DEF Completed
<1>8. Arrived(k) \subseteq Pieces(sent[k]) /\ Piece(sent[k], n) \in Pieces(sent[k])
  BY DEF Arrived, Pieces
<1>. QED
  BY <1>1, <1>3, <1>4, <1>5, <1>7, <1>8

\* When as many segments as a message has are there, they are its segments;
\* when all its segments arrived, they are as many.
LEMMA FullSet ==
    ASSUME AllFaithful, CodecIInv, NEW k \in DOMAIN sent, NEW n \in 1 .. Total(sent[k]), Many(k),
           <<k, n>> \in air, Receive(<<k, n>>), Key(sent[k]) \notin clashed
    PROVE  /\ Cardinality(Completed(k, n)) = Total(sent[k]) =>
                 /\ InOrder(Completed(k, n)) = sent[k].text
                 /\ Missing(k)' = {}
           /\ Completed(k, n) = Arrived(k)' /\ Missing(k)' = {} =>
                 Cardinality(Completed(k, n)) = Total(sent[k])
<1>. CodecTypes
  BY DEF CodecIInv
<1>1. Faithful(sent[k])
  BY SentAre
<1>2. /\ IsFiniteSet(Pieces(sent[k])) /\ Cardinality(Pieces(sent[k])) = Total(sent[k])
      /\ InOrder(Pieces(sent[k])) = sent[k].text
  BY <1>1, PiecesInOrder
<1>3. Completed(k, n) \subseteq Arrived(k)' /\ Arrived(k)' \subseteq Pieces(sent[k])
  BY ReceiveLatest
<1>4. sent' = sent
  BY ReceiveFrame
<1>5. Arrived(k)' = {Piece(sent[k], i) : i \in (1 .. Total(sent[k])) \ Missing(k)'}
  BY <1>4 DEF Arrived
<1>6. ASSUME Cardinality(Completed(k, n)) = Total(sent[k])
      PROVE  InOrder(Completed(k, n)) = sent[k].text /\ Missing(k)' = {}
  <2>1. Completed(k, n) = Pieces(sent[k])
    BY <1>2, <1>3, <1>6, FS_Subset
  <2>2. Arrived(k)' = Pieces(sent[k])
    BY <1>3, <2>1
  <2>3. Missing(k)' \subseteq 1 .. Total(sent[k])
    BY <1>4 DEF Missing
  <2>4. \A i \in 1 .. Total(sent[k]) : i \notin Missing(k)'
    <3>1. \A i \in 1 .. Total(sent[k]) : Piece(sent[k], i) \in Arrived(k)'
      BY <2>2 DEF Pieces
    <3>2. \A i : Piece(sent[k], i).seq = i
      BY DEF Piece
    <3>. QED
      BY <1>5, <3>1, <3>2
  <2>. QED
    BY <1>2, <2>1, <2>3, <2>4
<1>7. ASSUME Completed(k, n) = Arrived(k)', Missing(k)' = {}
      PROVE  Cardinality(Completed(k, n)) = Total(sent[k])
  <2>1. Arrived(k)' = Pieces(sent[k])
    BY <1>5, <1>7 DEF Pieces
  <2>. QED
    BY <1>2, <1>7, <2>1
<1>. QED
  BY <1>6, <1>7

\* The sets after a delivery: that of the key is gone or is the completed one,
\* the others are as they were.
LEMMA SetsAfterReceive ==
    ASSUME AllFaithful, CodecTypes, NEW k \in DOMAIN sent, NEW n \in 1 .. Total(sent[k]), Many(k),
           Receive(<<k, n>>)
    PROVE  /\ \A key : key # Key(sent[k]) => SetOf(key)' = SetOf(key)
           /\ Cardinality(Completed(k, n)) = Total(sent[k]) => SetOf(Key(sent[k]))' = {}
           /\ Cardinality(Completed(k, n)) # Total(sent[k]) =>
                 SetOf(Key(sent[k]))' = Completed(k, n)
           /\ \A e \in parts' : e \in parts \/ e.key = Key(sent[k])
<1>1. \A e \in Completed(k, n) : e.key = Key(sent[k])
  BY DEF Completed, SetOf, Piece
<1>2. \A e \in SetOf(Key(sent[k])) : e.key = Key(sent[k])
  BY DEF SetOf
<1> DEFINE mine == Key(sent[k])
<1>3. \A e : e \in SetOf(mine) <=> e \in parts /\ e.key = mine
  BY DEF SetOf
<1>4. \/ /\ Cardinality(Completed(k, n)) = Total(sent[k])
         /\ parts' = parts \ SetOf(mine)
      \/ /\ Cardinality(Completed(k, n)) # Total(sent[k])
         /\ parts' = (parts \ SetOf(mine)) \cup Completed(k, n)
  BY ReceiveMany
<1>0. sent' = sent
  BY DEF Receive
<1>. HIDE DEF mine
<1>5. ASSUME NEW key, key # mine PROVE SetOf(key)' = SetOf(key)
  <2>1. \A e : e.key = key => (e \in parts' <=> e \in parts)
    BY <1>1, <1>3, <1>4, <1>5 DEF mine
  <2>. QED
    BY <2>1 DEF SetOf
<1>6. SetOf(mine)' = {e \in parts' : e.key = mine}
  BY <1>0 DEF SetOf, mine
<1>7. ASSUME Cardinality(Completed(k, n)) = Total(sent[k]) PROVE SetOf(mine)' = {}
  <2>1. parts' = parts \ SetOf(mine)
    BY <1>4, <1>7
  <2>. QED
    BY <1>3, <1>6, <2>1
<1>8. ASSUME Cardinality(Completed(k, n)) # Total(sent[k])
      PROVE  SetOf(mine)' = Completed(k, n)
  <2>1. parts' = (parts \ SetOf(mine)) \cup Completed(k, n)
    BY <1>4, <1>8
  <2>. QED
    BY <1>1, <1>3, <1>6, <2>1 DEF mine
<1>9. \A e \in parts' : e \in parts \/ e.key = mine
  BY <1>1, <1>4 DEF mine
<1>. QED
  BY <1>5, <1>7, <1>8, <1>9 DEF mine

\* A delivery keeps the variables well formed.
LEMMA ReceiveTypes ==
    ASSUME AllFaithful, CodecIInv, NEW k \in DOMAIN sent, NEW n \in 1 .. Total(sent[k]),
           <<k, n>> \in air, Receive(<<k, n>>)
    PROVE  CodecTypes'
<1>. CodecTypes
  BY DEF CodecIInv
<1>1. sent' = sent /\ flushed' = flushed
  BY ReceiveFrame
<1>2. air' \subseteq air
  BY DEF Receive
<1>3. \A e \in parts' : e.key \in Keys
  <2>1. CASE Total(sent[k]) = 1
    <3>1. n = 1
      BY <2>1
    <3>2. parts' = parts
      BY <2>1, <3>1, ReceiveSingle
    <3>. QED
      BY <3>2 DEF CodecTypes
  <2>2. CASE Many(k)
    <3>1. \A e \in parts' : e \in parts \/ e.key = Key(sent[k])
      BY <2>2, SetsAfterReceive
    <3>. QED
      BY <3>1, SentAre DEF CodecTypes
  <2>. QED
    BY <2>1, <2>2, SentAre DEF Many
<1>4. \A s \in air : \E j \in DOMAIN sent : \E i \in 1 .. Total(sent[j]) : s = <<j, i>>
  BY DEF CodecTypes
<1>5. \A s \in air' : \E j \in DOMAIN sent' : \E i \in 1 .. Total(sent'[j]) : s = <<j, i>>
  BY <1>1, <1>2, <1>4
<1>. QED
  BY <1>1, <1>3, <1>5 DEF CodecTypes

\* The sets of keys that did not clash go on holding their own segments.
LEMMA ReceiveOwnParts ==
    ASSUME AllFaithful, CodecIInv, NEW k \in DOMAIN sent, NEW n \in 1 .. Total(sent[k]),
           <<k, n>> \in air, Receive(<<k, n>>)
    PROVE  OwnParts'
<1>. CodecTypes
  BY DEF CodecIInv
<1>1. sent' = sent /\ clashed' = clashed
  BY ReceiveFrame
<1>. SUFFICES ASSUME NEW j \in DOMAIN sent, Latest(j), Many(j), Key(sent[j]) \notin clashed
              PROVE  SetOf(Key(sent[j]))' \subseteq Arrived(j)'
  <2>1. ASSUME NEW j \in DOMAIN sent
        PROVE  Latest(j)' = Latest(j) /\ Many(j)' = Many(j) /\ Key(sent[j])' = Key(sent[j])
    <3>1. Latest(j)' = Latest(j) /\ Many(j)' = Many(j)
      BY ReceiveFrame
    <3>. QED
      BY <1>1, <3>1
  <2>. QED
    BY <1>1, <2>1 DEF OwnParts
<1>2. Arrived(j) \subseteq Arrived(j)'
  BY ReceiveFrame
<1>3. SetOf(Key(sent[j])) \subseteq Arrived(j)
  BY DEF CodecIInv, OwnParts
<1>4. CASE Total(sent[k]) = 1
  <2>1. n = 1
    BY <1>4
  <2>2. parts' = parts
    BY <1>4, <2>1, ReceiveSingle
  <2>3. SetOf(Key(sent[j]))' = SetOf(Key(sent[j]))
    BY <1>1, <2>2 DEF SetOf
  <2>. QED
    BY <1>2, <1>3, <2>3
<1>5. CASE Many(k) /\ Key(sent[j]) # Key(sent[k])
  <2>1. SetOf(Key(sent[j]))' = SetOf(Key(sent[j]))
    BY <1>1, <1>5, SetsAfterReceive
  <2>. QED
    BY <1>2, <1>3, <2>1
<1>6. CASE Many(k) /\ Key(sent[j]) = Key(sent[k])
  <2>1. j = k
    BY <1>6, ReceiveLatest
  <2>2. Completed(k, n) \subseteq Arrived(k)'
    BY <1>6, ReceiveLatest
  <2>3. SetOf(Key(sent[k]))' = {} \/ SetOf(Key(sent[k]))' = Completed(k, n)
    BY <1>1, <1>6, SetsAfterReceive
  <2>. QED
    BY <2>1, <2>2, <2>3
<1>. QED
  BY <1>4, <1>5, <1>6, SentAre DEF Many

\* A message under way is assembled, or its set goes on growing.
LEMMA ReceiveProgress ==
    ASSUME AllFaithful, CodecIInv, NEW k \in DOMAIN sent, NEW n \in 1 .. Total(sent[k]),
           <<k, n>> \in air, Receive(<<k, n>>),
           NEW j \in DOMAIN sent, Many(j), Key(sent[j]) \notin clashed \cup Range(flushed)
    PROVE  Assembled(j)' \/ Assembling(j)'
<1>. CodecTypes
  BY DEF CodecIInv
<1>1. /\ sent' = sent /\ clashed' = clashed /\ flushed' = flushed
      /\ Missing(j)' = IF j = k THEN Missing(k) \ {n} ELSE Missing(j)
      /\ Arrived(j)' = IF j = k THEN Arrived(k) \cup {Piece(sent[k], n)} ELSE Arrived(j)
      /\ Latest(j)' = Latest(j) /\ n \in Missing(k)
  BY ReceiveFrame
<1>2. Assembled(j) \/ Assembling(j)
  BY DEF CodecIInv, Progress
<1>3. published \subseteq published'
  <2>1. CASE Total(sent[k]) = 1
    <3>1. n = 1
      BY <2>1
    <3>. QED
      BY <2>1, <3>1, ReceiveSingle
  <2>2. CASE Many(k)
    BY <2>2, ReceiveMany
  <2>. QED
    BY <2>1, <2>2, SentAre DEF Many
<1>4. CASE j # k /\ SetOf(Key(sent[j]))' = SetOf(Key(sent[j]))
  BY <1>1, <1>2, <1>3, <1>4 DEF Assembled, Assembling
<1>5. CASE Total(sent[k]) = 1
  <2>1. n = 1
    BY <1>5
  <2>2. parts' = parts
    BY <1>5, <2>1, ReceiveSingle
  <2>3. SetOf(Key(sent[j]))' = SetOf(Key(sent[j]))
    BY <1>1, <2>2 DEF SetOf
  <2>4. j # k
    BY <1>5 DEF Many
  <2>. QED
    BY <1>4, <2>3, <2>4
<1>6. CASE Many(k) /\ Key(sent[j]) # Key(sent[k])
  <2>1. SetOf(Key(sent[j]))' = SetOf(Key(sent[j]))
    BY <1>1, <1>6, SetsAfterReceive
  <2>. QED
    BY <1>4, <1>6, <2>1
<1>7. CASE Many(k) /\ Key(sent[j]) = Key(sent[k]) /\ j # k
  <2>1. ~ Latest(j)
    BY <1>7, ReceiveLatest
  <2>2. Missing(j) = {} /\ Whole(sent[j]) \in published
    BY <1>2, <2>1 DEF Assembled, Assembling
  <2>. QED
    BY <1>1, <1>3, <1>7, <2>1, <2>2 DEF Assembled
<1>8. CASE Many(k) /\ j = k
  <2>1. Latest(k) /\ Completed(k, n) = SetOf(Key(sent[k])) \cup {Piece(sent[k], n)}
    BY <1>8, ReceiveLatest
  <2>2. SetOf(Key(sent[k])) = Arrived(k)
    BY <1>1, <1>2, <1>8 DEF Assembled, Assembling
  <2>3. Completed(k, n) = Arrived(k)'
    BY <1>1, <1>8, <2>1, <2>2
  <2>4. CASE Cardinality(Completed(k, n)) = Total(sent[k])
    <3>1. InOrder(Completed(k, n)) = sent[k].text /\ Missing(k)' = {}
      BY <1>8, <2>4, FullSet
    <3>2. Whole(sent[k]) \in published'
      BY <1>8, <2>4, <3>1, ReceiveMany DEF Whole
    <3>3. SetOf(Key(sent[k]))' = {}
      BY <1>1, <1>8, <2>4, SetsAfterReceive
    <3>. QED
      BY <1>1, <1>8, <3>1, <3>2, <3>3 DEF Assembled
  <2>5. CASE Cardinality(Completed(k, n)) # Total(sent[k])
    <3>1. Missing(k)' # {}
      BY <1>8, <2>3, <2>5, FullSet
    <3>2. SetOf(Key(sent[k]))' = Completed(k, n)
      BY <1>1, <1>8, <2>5, SetsAfterReceive
    <3>. QED
      BY <1>1, <1>8, <2>1, <2>3, <3>1, <3>2 DEF Assembling
  <2>. QED
    BY <2>4, <2>5
<1>. QED
  BY <1>5, <1>6, <1>7, <1>8, SentAre DEF Many

\* A delivery keeps the invariant.
LEMMA ReceiveStep ==
    ASSUME AllFaithful, CodecIInv, NEW s \in air, Receive(s)
    PROVE  CodecIInv'
<1>. CodecTypes
  BY DEF CodecIInv
<1>1. PICK k \in DOMAIN sent : \E i \in 1 .. Total(sent[k]) : s = <<k, i>>
  BY DEF CodecTypes
<1>2. PICK n \in 1 .. Total(sent[k]) : s = <<k, n>>
  BY <1>1
<1>3. <<k, n>> \in air /\ Receive(<<k, n>>)
  BY <1>2
<1>4. sent' = sent /\ clashed' = clashed /\ flushed' = flushed
  BY <1>3, ReceiveFrame
<1>5. ASSUME NEW j \in DOMAIN sent
      PROVE  /\ Missing(j)' = IF j = k THEN Missing(k) \ {n} ELSE Missing(j)
             /\ Missing(j)' \subseteq Missing(j) /\ Many(j)' = Many(j) /\ n \in Missing(k)
  BY <1>3, ReceiveFrame
<1>6. CodecTypes' /\ OwnParts'
  BY <1>3, ReceiveTypes, ReceiveOwnParts
<1>7. Apart'
  BY <1>4, <1>5 DEF Apart, CodecIInv, Many
<1>8. Progress'
  <2>1. ASSUME NEW j \in DOMAIN sent, Many(j), Key(sent[j]) \notin clashed \cup Range(flushed)
        PROVE  Assembled(j)' \/ Assembling(j)'
    BY <1>3, <2>1, ReceiveProgress
  <2>. QED
    BY <1>4, <1>5, <2>1 DEF Progress
<1>9. Total(sent[k]) = 1 => n = 1 /\ published' = published \cup {Whole(sent[k])}
  <2>1. Total(sent[k]) = 1 => n = 1
    OBVIOUS
  <2>. QED
    BY <1>3, <2>1, ReceiveSingle
<1>10. Many(k) => \/ published' = published
                  \/ \E text : /\ published' = published \cup
                                      {[sender |-> sent[k].from, text |-> text, partial |-> FALSE]}
                               /\ Key(sent[k]) \notin clashed => text = sent[k].text
  <2>. SUFFICES ASSUME Many(k), published' # published
                PROVE  /\ published' = published \cup {[sender |-> sent[k].from,
                                             text |-> InOrder(Completed(k, n)), partial |-> FALSE]}
                       /\ Key(sent[k]) \notin clashed => InOrder(Completed(k, n)) = sent[k].text
    OBVIOUS
  <2>1. /\ Cardinality(Completed(k, n)) = Total(sent[k])
        /\ published' = published \cup {[sender |-> sent[k].from,
                              text |-> InOrder(Completed(k, n)), partial |-> FALSE]}
    BY <1>3, ReceiveMany
  <2>2. Key(sent[k]) \notin clashed => InOrder(Completed(k, n)) = sent[k].text
    BY <1>3, <2>1, FullSet
  <2>. QED
    BY <2>1, <2>2
<1>11. Total(sent[k]) = 1 \/ Many(k)
  BY SentAre DEF Many
<1>12. SingleDone'
  <2>1. published \subseteq published'
    BY <1>9, <1>10, <1>11
  <2>2. ASSUME NEW j \in DOMAIN sent, Total(sent[j]) = 1, Missing(j)' = {}
        PROVE  Whole(sent[j]) \in published'
    <3>1. CASE j = k
      BY <1>9, <2>2, <3>1
    <3>2. CASE j # k
      <4>1. Missing(j) = {}
        BY <1>5, <2>2, <3>2
      <4>. QED
        BY <2>1, <2>2, <4>1 DEF CodecIInv, SingleDone
    <3>. QED
      BY <3>1, <3>2
  <2>. QED
    BY <1>4, <2>2 DEF SingleDone
<1>13. WholeIsAsSent'
  <2>. SUFFICES ASSUME NEW p \in published', ~p.partial
                PROVE  \/ \E j \in DOMAIN sent : sent[j].from = p.sender /\ sent[j].text = p.text
                       \/ \E key \in clashed : key[1] = p.sender
    BY <1>4 DEF WholeIsAsSent
  <2>1. CASE p \in published
    BY <2>1 DEF CodecIInv, WholeIsAsSent
  <2>2. CASE p = Whole(sent[k])
    BY <2>2 DEF Whole
  <2>3. ASSUME NEW text, p = [sender |-> sent[k].from, text |-> text, partial |-> FALSE],
               Key(sent[k]) \notin clashed => text = sent[k].text
        PROVE  \/ \E j \in DOMAIN sent : sent[j].from = p.sender /\ sent[j].text = p.text
               \/ \E key \in clashed : key[1] = p.sender
    <3>1. p.sender = sent[k].from /\ p.text = text
      BY <2>3
    <3>2. CASE Key(sent[k]) \in clashed
      BY <3>1, <3>2, KeyFields
    <3>3. CASE Key(sent[k]) \notin clashed
      BY <2>3, <3>1, <3>3
    <3>. QED
      BY <3>2, <3>3
  <2>. QED
    BY <1>9, <1>10, <1>11, <2>1, <2>2, <2>3
<1>. QED
  BY <1>6, <1>7, <1>8, <1>12, <1>13 DEF CodecIInv

\* What sending leaves alone, and what it finds.
LEMMA SendFrame ==
    ASSUME AllFaithful, CodecIInv, NEW m \in Messages, Send(m)
    PROVE  /\ sent' = Append(sent, m) /\ DOMAIN sent' = DOMAIN sent \cup {Len(sent) + 1}
           /\ Len(sent) \in Nat /\ DOMAIN sent = 1 .. Len(sent)
           /\ sent'[Len(sent) + 1] = m /\ Len(sent) + 1 \notin DOMAIN sent
           /\ \A k \in DOMAIN sent : sent'[k] = sent[k]
           /\ air' = air \cup {<<Len(sent) + 1, n>> : n \in 1 .. Total(m)}
           /\ parts' = parts /\ published' = published /\ flushed' = flushed
           /\ clashed \subseteq clashed'
           /\ Total(m) > 1 /\ Key(m) \notin clashed' =>
                 /\ SetOf(Key(m)) = {}
                 /\ \A k \in DOMAIN sent : Key(sent[k]) = Key(m) => Missing(k) = {}
           /\ Faithful(m)
<1>. CodecTypes
  BY DEF CodecIInv
<1>1. sent \in Seq(Messages)
  BY DEF CodecTypes
<1>2. /\ sent' = Append(sent, m) /\ parts' = parts /\ published' = published /\ flushed' = flushed
      /\ air' = air \cup {<<Len(sent'), n>> : n \in DOMAIN m.pdus}
      /\ clashed' = IF Len(m.pdus) > 1 /\ UnderWay(Key(m)) THEN clashed \cup {Key(m)} ELSE clashed
  BY DEF Send
<1>3. /\ Len(sent') = Len(sent) + 1 /\ DOMAIN sent' = DOMAIN sent \cup {Len(sent) + 1}
      /\ Len(sent) \in Nat /\ DOMAIN sent = 1 .. Len(sent)
      /\ sent'[Len(sent) + 1] = m /\ \A k \in DOMAIN sent : sent'[k] = sent[k]
  <2>1. sent' \in Seq(Messages) /\ Len(sent') = Len(sent) + 1
    BY <1>1, <1>2, AppendProperties
  <2>2. Len(sent) \in Nat /\ DOMAIN sent = 1 .. Len(sent) /\ DOMAIN sent' = 1 .. Len(sent')
    BY <1>1, <2>1, LenProperties
  <2>3. \A i \in 1 .. Len(sent) + 1 : sent'[i] = IF i = Len(sent) + 1 THEN m ELSE sent[i]
    BY <1>1, <1>2, AppendProperties
  <2>4. 1 .. Len(sent) + 1 = (1 .. Len(sent)) \cup {Len(sent) + 1}
    BY <2>2
  <2>. QED
    BY <2>1, <2>2, <2>3, <2>4
<1>4. Len(sent) + 1 \notin DOMAIN sent
  BY <1>3
<1>5. Faithful(m)
  BY DEF AllFaithful
<1>6. DOMAIN m.pdus = 1 .. Total(m)
  BY <1>5 DEF Faithful
<1>7. ASSUME Total(m) > 1, Key(m) \notin clashed'
      PROVE  /\ SetOf(Key(m)) = {}
             /\ \A k \in DOMAIN sent : Key(sent[k]) = Key(m) => Missing(k) = {}
  <2>1. ~ UnderWay(Key(m))
    BY <1>2, <1>7 DEF Total
  <2>2. SetOf(Key(m)) = {} /\ \A s \in air : Key(sent[s[1]]) # Key(m)
    BY <2>1 DEF UnderWay
  <2>3. ASSUME NEW k \in DOMAIN sent, Key(sent[k]) = Key(m), NEW n \in Missing(k) PROVE FALSE
    <3>1. <<k, n>> \in air /\ <<k, n>>[1] = k
      BY DEF Missing
    <3>. QED
      BY <2>2, <2>3, <3>1
  <2>. QED
    BY <2>2, <2>3
<1>. QED
  BY <1>2, <1>3, <1>4, <1>5, <1>6, <1>7

\* The operators of a message that was there before.
LEMMA SendOld ==
    ASSUME AllFaithful, CodecIInv, NEW m \in Messages, Send(m), NEW k \in DOMAIN sent
    PROVE  /\ k # Len(sent) + 1 /\ k < Len(sent) + 1 /\ sent'[k] = sent[k]
           /\ Missing(k)' = Missing(k) /\ Arrived(k)' = Arrived(k) /\ Many(k)' = Many(k)
           /\ SetOf(Key(sent[k]))' = SetOf(Key(sent[k]))
           /\ Latest(k)' => Latest(k) /\ Key(sent[k]) # Key(m)
<1>0. k # Len(sent) + 1 /\ k < Len(sent) + 1
  <2>1. Len(sent) \in Nat /\ DOMAIN sent = 1 .. Len(sent)
    BY SendFrame
  <2>. QED
    BY <2>1
<1>1. /\ sent'[k] = sent[k] /\ parts' = parts
      /\ DOMAIN sent' = DOMAIN sent \cup {Len(sent) + 1} /\ sent'[Len(sent) + 1] = m
      /\ \A j \in DOMAIN sent : sent'[j] = sent[j]
      /\ air' = air \cup {<<Len(sent) + 1, n>> : n \in 1 .. Total(m)}
  BY SendFrame
<1>2. \A n : <<k, n>> \in air' <=> <<k, n>> \in air
  BY <1>0, <1>1
<1>3. Missing(k)' = Missing(k)
  BY <1>1, <1>2 DEF Missing
<1>4. Arrived(k)' = Arrived(k)
  BY <1>1, <1>3 DEF Arrived
<1>5. Many(k)' = Many(k) /\ SetOf(Key(sent[k]))' = SetOf(Key(sent[k]))
  BY <1>1 DEF Many, SetOf
<1>6. Latest(k)' => Latest(k) /\ Key(sent[k]) # Key(m)
  BY <1>1 DEF Latest
<1>. QED
  BY <1>0, <1>1, <1>3, <1>4, <1>5, <1>6

\* Sending keeps the invariant.
LEMMA SendStep ==
    ASSUME AllFaithful, CodecIInv, NEW m \in Messages, Send(m)
    PROVE  CodecIInv'
<1>. CodecTypes
  BY DEF CodecIInv
<1>. SUFFICES ASSUME NEW L, L = Len(sent) + 1 PROVE CodecIInv'
  OBVIOUS
<1>1. /\ sent' = Append(sent, m) /\ DOMAIN sent' = DOMAIN sent \cup {L} /\ sent'[L] = m
      /\ air' = air \cup {<<L, n>> : n \in 1 .. Total(m)}
      /\ parts' = parts /\ published' = published /\ flushed' = flushed
      /\ clashed \subseteq clashed' /\ L \notin DOMAIN sent
      /\ \A k \in DOMAIN sent : sent'[k] = sent[k]
      /\ Faithful(m)
  BY SendFrame
<1>2. ASSUME Total(m) > 1, Key(m) \notin clashed'
      PROVE  /\ SetOf(Key(m)) = {}
             /\ \A k \in DOMAIN sent : Key(sent[k]) = Key(m) => Missing(k) = {}
  BY <1>2, SendFrame
<1>3. ASSUME NEW k \in DOMAIN sent
      PROVE  /\ k # L /\ k < L /\ sent'[k] = sent[k]
             /\ Missing(k)' = Missing(k) /\ Arrived(k)' = Arrived(k) /\ Many(k)' = Many(k)
             /\ SetOf(Key(sent[k]))' = SetOf(Key(sent[k]))
             /\ Latest(k)' => Latest(k) /\ Key(sent[k]) # Key(m)
  BY SendOld
<1>4. Total(m) \in Nat \ {0}
  BY <1>1 DEF Faithful
<1>5. \A s \in air : \A n : s # <<L, n>>
  <2>1. \A s \in air : \E k \in DOMAIN sent : \E n \in 1 .. Total(sent[k]) : s = <<k, n>>
    BY DEF CodecTypes
  <2>. QED
    BY <1>1, <2>1
<1>6. \A n : <<L, n>> \in air' <=> n \in 1 .. Total(m)
  BY <1>1, <1>5
<1>7. Missing(L)' = 1 .. Total(m) /\ Arrived(L)' = {}
  <2>1. Missing(L)' = 1 .. Total(m)
    <3>1. Missing(L)' = {n \in 1 .. Total(sent'[L]) : <<L, n>> \in air'}
      BY DEF Missing
    <3>. QED
      BY <1>1, <1>6, <3>1
  <2>. QED
    BY <1>1, <2>1 DEF Arrived
<1>8. CodecTypes'
  <2>1. sent' \in Seq(Messages)
    BY <1>1, AppendProperties DEF CodecTypes
  <2>2. \A s \in air' : \E k \in DOMAIN sent' : \E n \in 1 .. Total(sent'[k]) : s = <<k, n>>
    <3>1. ASSUME NEW s \in air
          PROVE  \E k \in DOMAIN sent' : \E n \in 1 .. Total(sent'[k]) : s = <<k, n>>
      <4>1. PICK k \in DOMAIN sent : \E n \in 1 .. Total(sent[k]) : s = <<k, n>>
        BY DEF CodecTypes
      <4>. QED
        BY <1>1, <4>1
    <3>2. ASSUME NEW n \in 1 .. Total(m)
          PROVE  \E k \in DOMAIN sent' : \E i \in 1 .. Total(sent'[k]) : <<L, n>> = <<k, i>>
      BY <1>1
    <3>. QED
      BY <1>1, <3>1, <3>2
  <2>3. flushed' \in Seq(Keys) /\ \A e \in parts' : e.key \in Keys
    BY <1>1 DEF CodecTypes
  <2>. QED
    BY <2>1, <2>2, <2>3 DEF CodecTypes
<1>9. Apart'
  <2>. SUFFICES ASSUME NEW j \in DOMAIN sent', NEW k \in DOMAIN sent', j < k,
                       Key(sent'[j]) = Key(sent'[k]), Many(k)', Key(sent'[k]) \notin clashed'
                PROVE  Missing(j)' = {}
    BY DEF Apart
  <2>1. CASE k = L
    <3>1. j \in DOMAIN sent
      <4>1. L \in Nat
        BY SendFrame
      <4>. QED
        BY <1>1, <2>1, <4>1
    <3>2. Total(m) > 1
      BY <1>1, <2>1 DEF Many
    <3>3. Key(sent[j]) = Key(m) /\ Key(m) \notin clashed'
      BY <1>1, <2>1, <3>1
    <3>. QED
      BY <1>2, <1>3, <3>1, <3>2, <3>3
  <2>2. CASE k \in DOMAIN sent
    <3>1. j \in DOMAIN sent
      <4>1. k < L /\ L \in Nat /\ k \in Nat
        BY <1>3, <2>2, SentAre, SendFrame
      <4>. QED
        BY <1>1, <4>1
    <3>2. Missing(j) = {}
      BY <1>1, <1>3, <2>2, <3>1 DEF CodecIInv, Apart
    <3>. QED
      BY <1>3, <3>1, <3>2
  <2>. QED
    BY <1>1, <2>1, <2>2
<1>10. OwnParts'
  <2>. SUFFICES ASSUME NEW k \in DOMAIN sent', Latest(k)', Many(k)', Key(sent'[k]) \notin clashed'
                PROVE  SetOf(Key(sent[k]))' \subseteq Arrived(k)'
    BY DEF OwnParts
  <2>1. CASE k = L
    <3>1. Total(m) > 1 /\ Key(m) \notin clashed' /\ sent'[k] = m
      BY <1>1, <2>1 DEF Many
    <3>2. SetOf(Key(m)) = {}
      BY <1>2, <3>1
    <3>3. SetOf(Key(sent[k]))' = {}
      BY <1>1, <3>1, <3>2 DEF SetOf
    <3>. QED
      BY <3>3
  <2>2. CASE k \in DOMAIN sent
    <3>1. Latest(k) /\ Many(k) /\ Key(sent[k]) \notin clashed
      BY <1>1, <1>3, <2>2
    <3>. QED
      BY <1>3, <2>2, <3>1 DEF CodecIInv, OwnParts
  <2>. QED
    BY <1>1, <2>1, <2>2
<1>11. Progress'
  <2>. SUFFICES ASSUME NEW k \in DOMAIN sent', Many(k)',
                       Key(sent'[k]) \notin clashed' \cup Range(flushed')
                PROVE  Assembled(k)' \/ Assembling(k)'
    BY DEF Progress
  <2>1. CASE k = L
    <3>1. Total(m) > 1 /\ Key(m) \notin clashed' /\ sent'[k] = m
      BY <1>1, <2>1 DEF Many
    <3>2. SetOf(Key(m)) = {}
      BY <1>2, <3>1
    <3>3. SetOf(Key(sent[k]))' = {}
      BY <1>1, <3>1, <3>2 DEF SetOf
    <3>4. Missing(k)' # {} /\ Arrived(k)' = {}
      <4>1. 1 \in 1 .. Total(m)
        BY <1>4
      <4>2. Missing(k)' = 1 .. Total(m) /\ Arrived(k)' = {}
        BY <1>7, <2>1
      <4>. QED
        BY <4>1, <4>2
    <3>5. Latest(k)'
      <4>1. \A j \in DOMAIN sent' : ~ (j > k)
        <5>1. L \in Nat /\ \A j \in DOMAIN sent : j < L /\ j \in Nat
          BY <1>3, SendFrame, SentAre
        <5>. QED
          BY <1>1, <2>1, <5>1
      <4>. QED
        BY <4>1 DEF Latest
    <3>. QED
      BY <3>3, <3>4, <3>5 DEF Assembling
  <2>2. CASE k \in DOMAIN sent
    <3>1. Many(k) /\ Key(sent[k]) \notin clashed \cup Range(flushed)
      BY <1>1, <1>3, <2>2
    <3>2. Assembled(k) \/ Assembling(k)
      BY <2>2, <3>1 DEF CodecIInv, Progress
    <3>3. CASE Assembled(k)
      BY <1>1, <1>3, <2>2, <3>3 DEF Assembled
    <3>4. CASE Assembling(k)
      <4>1. Missing(k) # {} /\ SetOf(Key(sent[k])) = Arrived(k) /\ Latest(k)
        BY <3>4 DEF Assembling
      <4>2. Key(sent[k]) # Key(m)
        <5>. SUFFICES ASSUME Key(sent[k]) = Key(m) PROVE FALSE
          OBVIOUS
        <5>1. Total(m) = Total(sent[k])
          BY KeyFields
        <5>2. Total(m) > 1 /\ Key(m) \notin clashed'
          BY <1>1, <2>2, <3>1, <5>1 DEF Many
        <5>. QED
          BY <1>2, <2>2, <4>1, <5>2
      <4>3. Latest(k)'
        BY <1>1, <2>2, <4>1, <4>2 DEF Latest
      <4>. QED
        BY <1>3, <2>2, <4>1, <4>3 DEF Assembling
    <3>. QED
      BY <3>2, <3>3, <3>4
  <2>. QED
    BY <1>1, <2>1, <2>2
<1>12. SingleDone'
  <2>. SUFFICES ASSUME NEW k \in DOMAIN sent', Total(sent'[k]) = 1, Missing(k)' = {}
                PROVE  Whole(sent'[k]) \in published'
    BY DEF SingleDone
  <2>1. k # L
    BY <1>4, <1>7
  <2>2. k \in DOMAIN sent /\ Total(sent[k]) = 1 /\ Missing(k) = {}
    BY <1>1, <1>3, <2>1
  <2>. QED
    BY <1>1, <2>2 DEF CodecIInv, SingleDone
<1>13. WholeIsAsSent'
  <2>. SUFFICES ASSUME NEW p \in published, ~p.partial
                PROVE  \/ \E k \in DOMAIN sent' : sent'[k].from = p.sender /\ sent'[k].text = p.text
                       \/ \E key \in clashed' : key[1] = p.sender
    BY <1>1 DEF WholeIsAsSent
  <2>1. \/ \E k \in DOMAIN sent : sent[k].from = p.sender /\ sent[k].text = p.text
        \/ \E key \in clashed : key[1] = p.sender
    BY DEF CodecIInv, WholeIsAsSent
  <2>. QED
    BY <1>1, <2>1
<1>. QED
  BY <1>8, <1>9, <1>10, <1>11, <1>12, <1>13 DEF CodecIInv

\* Giving up a set keeps the invariant.
LEMMA FlushStep ==
    ASSUME AllFaithful, CodecIInv, NEW key \in {e.key : e \in parts}, Flush(key)
    PROVE  CodecIInv'
<1>. CodecTypes
  BY DEF CodecIInv
<1>1. /\ sent' = sent /\ air' = air /\ clashed' = clashed
      /\ parts' = parts \ SetOf(key) /\ flushed' = Append(flushed, key)
      /\ published' = published \cup
            {[sender |-> key[1], text |-> InOrder(SetOf(key)), partial |-> TRUE]}
  BY DEF Flush, Publish
<1>2. key \in Keys /\ flushed \in Seq(Keys)
  BY DEF CodecTypes
<1>3. flushed' \in Seq(Keys) /\ Range(flushed') = Range(flushed) \cup {key}
  <2>1. /\ flushed' \in Seq(Keys) /\ Len(flushed') = Len(flushed) + 1
        /\ \A i \in 1 .. Len(flushed) + 1 :
              flushed'[i] = IF i = Len(flushed) + 1 THEN key ELSE flushed[i]
    BY <1>1, <1>2, AppendProperties
  <2>2. /\ Len(flushed) \in Nat /\ DOMAIN flushed = 1 .. Len(flushed)
        /\ DOMAIN flushed' = 1 .. Len(flushed')
    BY <1>2, <2>1, LenProperties
  <2>3. DOMAIN flushed' = DOMAIN flushed \cup {Len(flushed) + 1} /\ Len(flushed) + 1 \notin DOMAIN flushed
    BY <2>1, <2>2
  <2>4. flushed'[Len(flushed) + 1] = key /\ \A i \in DOMAIN flushed : flushed'[i] = flushed[i]
    BY <2>1, <2>2, <2>3
  <2>. QED
    BY <2>1, <2>3, <2>4 DEF Range
<1>4. ASSUME NEW k \in DOMAIN sent
      PROVE  /\ Missing(k)' = Missing(k) /\ Arrived(k)' = Arrived(k)
             /\ Latest(k)' = Latest(k) /\ Many(k)' = Many(k)
             /\ Key(sent[k]) # key => SetOf(Key(sent[k]))' = SetOf(Key(sent[k]))
             /\ SetOf(Key(sent[k]))' \subseteq SetOf(Key(sent[k]))
  <2>1. Missing(k)' = Missing(k) /\ Latest(k)' = Latest(k) /\ Many(k)' = Many(k)
    BY <1>1 DEF Missing, Latest, Many
  <2>2. Arrived(k)' = Arrived(k)
    BY <1>1, <2>1 DEF Arrived
  <2>. QED
    BY <1>1, <2>1, <2>2 DEF SetOf
<1>5. CodecTypes'
  BY <1>1, <1>3 DEF CodecTypes
<1>6. Apart'
  BY <1>1, <1>4 DEF Apart, CodecIInv
<1>7. OwnParts'
  <2>1. ASSUME NEW k \in DOMAIN sent, Latest(k), Many(k), Key(sent[k]) \notin clashed
        PROVE  SetOf(Key(sent[k]))' \subseteq Arrived(k)'
    <3>1. SetOf(Key(sent[k])) \subseteq Arrived(k)
      BY <2>1 DEF CodecIInv, OwnParts
    <3>. QED
      BY <1>4, <3>1
  <2>. QED
    BY <1>1, <1>4, <2>1 DEF OwnParts
<1>8. Progress'
  <2>1. ASSUME NEW k \in DOMAIN sent, Many(k), Key(sent[k]) \notin clashed \cup Range(flushed')
        PROVE  Assembled(k)' \/ Assembling(k)'
    <3>1. Key(sent[k]) # key /\ Key(sent[k]) \notin clashed \cup Range(flushed)
      BY <1>3, <2>1
    <3>2. Assembled(k) \/ Assembling(k)
      BY <2>1, <3>1 DEF CodecIInv, Progress
    <3>3. Assembled(k) => Assembled(k)'
      BY <1>1, <1>4, <3>1 DEF Assembled
    <3>4. Assembling(k) => Assembling(k)'
      BY <1>4, <3>1 DEF Assembling
    <3>. QED
      BY <3>2, <3>3, <3>4
  <2>. QED
    BY <1>1, <1>4, <2>1 DEF Progress
<1>9. SingleDone'
  BY <1>1, <1>4 DEF SingleDone, CodecIInv
<1>10. WholeIsAsSent'
  BY <1>1 DEF WholeIsAsSent, CodecIInv
<1>. QED
  BY <1>5, <1>6, <1>7, <1>8, <1>9, <1>10 DEF CodecIInv

\* CodecIInv is an inductive invariant.
THEOREM Reassembly == SplitsToFit /\ DecodesBack => (CodecSpec => []CodecIInv)
<1>. SUFFICES ASSUME SplitsToFit, DecodesBack PROVE CodecSpec => []CodecIInv
  OBVIOUS
<1>1. AllFaithful
  BY MessagesAreFaithful
<1>2. CodecInit => CodecIInv
  <2>. SUFFICES ASSUME CodecInit PROVE CodecIInv
    OBVIOUS
  <2>1. sent = <<>> /\ air = {} /\ parts = {} /\ published = {} /\ flushed = <<>>
    BY DEF CodecInit
  <2>2. DOMAIN sent = {} /\ sent \in Seq(Messages) /\ flushed \in Seq(Keys)
    BY <2>1
  <2>3. CodecTypes
    BY <2>1, <2>2 DEF CodecTypes
  <2>. QED
    BY <2>1, <2>2, <2>3 DEF CodecIInv, Apart, OwnParts, Progress, SingleDone, WholeIsAsSent
<1>3. CodecIInv /\ [CodecNext]_codecVars => CodecIInv'
  <2>. SUFFICES ASSUME CodecIInv, [CodecNext]_codecVars PROVE CodecIInv'
    OBVIOUS
  <2>1. ASSUME NEW m \in Messages, Send(m) PROVE CodecIInv'
    BY <1>1, <2>1, SendStep
  <2>2. ASSUME NEW s \in air, Receive(s) PROVE CodecIInv'
    BY <1>1, <2>2, ReceiveStep
  <2>3. ASSUME NEW key \in {e.key : e \in parts}, Flush(key) PROVE CodecIInv'
    BY <1>1, <2>3, FlushStep
  <2>4. CASE UNCHANGED codecVars
    <3>1. /\ sent' = sent /\ air' = air /\ parts' = parts /\ published' = published
          /\ clashed' = clashed /\ flushed' = flushed
      BY <2>4 DEF codecVars
    <3>2. \A k : /\ Missing(k)' = Missing(k) /\ Arrived(k)' = Arrived(k)
                 /\ Latest(k)' = Latest(k) /\ Many(k)' = Many(k)
      BY <3>1 DEF Missing, Arrived, Latest, Many
    <3>3. \A k \in DOMAIN sent : SetOf(Key(sent[k]))' = SetOf(Key(sent[k]))
      BY <3>1 DEF SetOf
    <3>4. CodecTypes' /\ WholeIsAsSent'
      BY <3>1 DEF CodecTypes, WholeIsAsSent, CodecIInv
    <3>5. Apart' /\ OwnParts' /\ SingleDone'
      BY <3>1, <3>2, <3>3 DEF Apart, OwnParts, SingleDone, CodecIInv
    <3>6. \A k \in DOMAIN sent : Assembled(k)' = Assembled(k) /\ Assembling(k)' = Assembling(k)
      BY <3>1, <3>2, <3>3 DEF Assembled, Assembling
    <3>7. Progress'
      BY <3>1, <3>2, <3>6 DEF Progress, CodecIInv
    <3>. QED
      BY <3>4, <3>5, <3>7 DEF CodecIInv
  <2>. QED
    BY <2>1, <2>2, <2>3, <2>4 DEF CodecNext
<1>. QED
  BY <1>2, <1>3, PTL DEF CodecSpec

\* What is published whole is a text its sender sent, unless keys clashed.
THEOREM WholeTexts == SplitsToFit /\ DecodesBack => (CodecSpec => []WholeIsAsSent)
<1>1. CodecIInv => WholeIsAsSent
  BY DEF CodecIInv
<1>. QED
  BY <1>1, Reassembly, PTL

\* A message all of whose segments arrived was published whole, unless its key
\* clashed or its set was given up.
THEOREM AllArrive == SplitsToFit /\ DecodesBack => (CodecSpec => []ArrivedIsPublished)
<1>. SUFFICES ASSUME SplitsToFit, DecodesBack PROVE CodecSpec => []ArrivedIsPublished
  OBVIOUS
<1>1. AllFaithful
  BY MessagesAreFaithful
<1>2. CodecIInv => ArrivedIsPublished
  <2>. SUFFICES ASSUME CodecIInv, NEW k \in DOMAIN sent,
                       \A n \in DOMAIN sent[k].pdus : <<k, n>> \notin air,
                       Key(sent[k]) \notin clashed \cup Range(flushed)
                PROVE  Whole(sent[k]) \in published
    BY DEF ArrivedIsPublished, Whole
  <2>1. Faithful(sent[k])
    BY <1>1, SentAre DEF CodecIInv
  <2>2. Missing(k) = {}
    BY <2>1 DEF Missing, Faithful
  <2>3. CASE Total(sent[k]) = 1
    BY <2>2, <2>3 DEF CodecIInv, SingleDone
  <2>4. CASE Many(k)
    BY <2>2, <2>4 DEF CodecIInv, Progress, Assembled, Assembling
  <2>. QED
    BY <2>1, <2>3, <2>4 DEF Faithful, Many
<1>3. CodecSpec => []CodecIInv
  BY Reassembly
<1>. QED
  BY <1>2, <1>3, PTL

-----------------------------------------------------------------------------
(* The codec: every PDU fits.                                              *)

\* How many octets the packed septets and the UTF-16 form of a text take.
LEMMA PayloadLength ==
    /\ \A septets, fill : (fill + 7 * Len(septets) + 7) \div 8 \in Nat =>
          /\ Len(pack_septets(septets, fill)) = (fill + 7 * Len(septets) + 7) \div 8
          /\ \E S : pack_septets(septets, fill) \in Seq(S)
    /\ \A text : Len(Codes(text, "units")) \in Nat =>
          /\ Len(ToUtf16(text)) = 2 * Len(Codes(text, "units"))
          /\ \E S : ToUtf16(text) \in Seq(S)
<1>1. ASSUME NEW septets, NEW fill, (fill + 7 * Len(septets) + 7) \div 8 \in Nat
      PROVE  /\ Len(pack_septets(septets, fill)) = (fill + 7 * Len(septets) + 7) \div 8
             /\ \E S : pack_septets(septets, fill) \in Seq(S)
  <2> DEFINE f == pack_septets(septets, fill)
             N == (fill + 7 * Len(septets) + 7) \div 8
  <2>1. f = [i \in 1 .. N |-> f[i]]
    BY DEF pack_septets
  <2>. HIDE DEF f, N
  <2>2. f \in Seq({f[i] : i \in 1 .. N}) /\ Len(f) = N
    BY <1>1, <2>1, FunctionIsSeq DEF N
  <2>. QED
    BY <2>2 DEF f, N
<1>2. ASSUME NEW text, Len(Codes(text, "units")) \in Nat
      PROVE  /\ Len(ToUtf16(text)) = 2 * Len(Codes(text, "units"))
             /\ \E S : ToUtf16(text) \in Seq(S)
  <2> DEFINE f == ToUtf16(text)
             N == 2 * Len(Codes(text, "units"))
  <2>1. f = [i \in 1 .. N |-> f[i]]
    BY DEF ToUtf16
  <2>2. N \in Nat
    BY <1>2
  <2>. HIDE DEF f, N
  <2>3. f \in Seq({f[i] : i \in 1 .. N}) /\ Len(f) = N
    BY <2>1, <2>2, FunctionIsSeq
  <2>. QED
    BY <2>3 DEF f, N
<1>. QED
  BY <1>1, <1>2

\* Lengths add up.
LEMMA ConcatLength ==
    ASSUME NEW S, NEW T, NEW a \in Seq(S), NEW b \in Seq(T)
    PROVE  Len(a \o b) = Len(a) + Len(b)
<1>1. a \in Seq(S \cup T) /\ b \in Seq(S \cup T)
  BY SeqMonotonic
<1>. QED
  BY <1>1, ConcatProperties

\* The octets of a segment of c codes behind a header of h octets, and what its
\* length field says: the arithmetic of the four limits and the fill bits.
LEMMA Sizes ==
    /\ Fill(6) = 1 /\ Fill(7) = 0
    /\ \A c \in 0 .. 160 : /\ (0 + 7 * c + 7) \div 8 \in 0 .. 140
                           /\ (0 + 7 * c + 7) \div 8 = (((0 * 8 + 0) \div 7 + c) * 7 + 7) \div 8
    /\ \A c \in 0 .. 153 : /\ (1 + 7 * c + 7) \div 8 \in 0 .. 134
                           /\ 6 + ((1 + 7 * c + 7) \div 8) = (((6 * 8 + 1) \div 7 + c) * 7 + 7) \div 8
    /\ \A c \in 0 .. 152 : /\ (0 + 7 * c + 7) \div 8 \in 0 .. 133
                           /\ 7 + ((0 + 7 * c + 7) \div 8) = (((7 * 8 + 0) \div 7 + c) * 7 + 7) \div 8
<1>1. Fill(6) = 1 /\ Fill(7) = 0
  BY DEF Fill
<1>2. ASSUME NEW c \in 0 .. 160
      PROVE  /\ (0 + 7 * c + 7) \div 8 \in 0 .. 140
             /\ (0 + 7 * c + 7) \div 8 = (((0 * 8 + 0) \div 7 + c) * 7 + 7) \div 8
  OBVIOUS
<1>3. ASSUME NEW c \in 0 .. 153
      PROVE  /\ (1 + 7 * c + 7) \div 8 \in 0 .. 134
             /\ 6 + ((1 + 7 * c + 7) \div 8) = (((6 * 8 + 1) \div 7 + c) * 7 + 7) \div 8
  OBVIOUS
<1>4. ASSUME NEW c \in 0 .. 152
      PROVE  /\ (0 + 7 * c + 7) \div 8 \in 0 .. 133
             /\ 7 + ((0 + 7 * c + 7) \div 8) = (((7 * 8 + 0) \div 7 + c) * 7 + 7) \div 8
  OBVIOUS
<1>. QED
  BY <1>1, <1>2, <1>3, <1>4

\* Every PDU of a message fits.
LEMMA PduFits ==
    ASSUME SplitsToFit, NEW m \in Messages, NEW n \in DOMAIN m.pdus
    PROVE  /\ Len(m.pdus[n].ud) <= 140
           /\ Len(m.pdus[n].ud) = IF m.pdus[n].dcs = 0 THEN (m.pdus[n].udl * 7 + 7) \div 8
                                  ELSE m.pdus[n].udl
<1>1. PICK p \in Phones, t \in Texts, r \in Refs : m = Message(p, t, r)
  BY DEF Messages
<1> DEFINE segments == PartsOf(t, p.wide)
           gsm7 == is_gsm7(t)
           total == Len(segments)
           header == Header(r, total, n, p.wide)
           fill == IF header = <<>> THEN 0 ELSE Fill(Len(header))
           septets == to_septets(segments[n])
           payload == IF gsm7 THEN pack_septets(septets, fill) ELSE ToUtf16(segments[n])
           max == IF total = 1 THEN Single(gsm7) ELSE IF p.wide THEN MultiWide(gsm7) ELSE Multi(gsm7)
           c == Len(Codes(segments[n], IF gsm7 THEN "sept" ELSE "units"))
<1>2. p.wide \in BOOLEAN
  BY WideIsBoolean
<1>3. segments \in Seq(Seq(Alphabet)) /\ \A i \in DOMAIN segments :
          Len(Codes(segments[i], IF gsm7 THEN "sept" ELSE "units")) \in 0 .. max
  BY <1>2 DEF SplitsToFit
<1>4. m.pdus = build_submit_pdus(t, r, p.wide)
  BY <1>1 DEF Message
<1>5. n \in DOMAIN segments
  BY <1>4 DEF build_submit_pdus
<1>6. m.pdus[n] = [udhi |-> header # <<>>, dcs |-> IF gsm7 THEN 0 ELSE 8,
                   udl |-> IF gsm7 THEN (Len(header) * 8 + fill) \div 7 + Len(septets)
                           ELSE Len(header) + Len(payload),
                   ud |-> header \o payload]
  BY <1>4, <1>5 DEF build_submit_pdus
<1>7. c \in 0 .. max
  BY <1>3, <1>5
<1>8. /\ Len(header) = IF total = 1 THEN 0 ELSE IF p.wide THEN 7 ELSE 6
      /\ \E S : header \in Seq(S)
      /\ header = <<>> <=> total = 1
  <2>. HIDE DEF segments, total
  <2>1. CASE total = 1
    <3>1. header = <<>>
      BY <2>1 DEF Header
    <3>. HIDE DEF header
    <3>. QED
      BY <2>1, <3>1, EmptySeq
  <2>2. CASE total # 1 /\ p.wide
    <3>1. PICK hi, lo : header = <<6, 8, 4, hi, lo, total, n>>
      BY <2>2 DEF Header
    <3>. HIDE DEF header
    <3>2. Len(header) = 7 /\ (\E S : header \in Seq(S)) /\ header # <<>>
      <4>1. header \in Seq({6, 8, 4, hi, lo, total, n})
        BY <3>1
      <4>2. Len(header) = 7 /\ header # <<>>
        BY <3>1
      <4>. QED
        BY <4>1, <4>2
    <3>. QED
      BY <2>2, <3>2
  <2>3. CASE total # 1 /\ ~p.wide
    <3>1. header = <<5, 0, 3, r, total, n>>
      BY <2>3 DEF Header
    <3>. HIDE DEF header
    <3>2. Len(header) = 6 /\ (\E S : header \in Seq(S)) /\ header # <<>>
      <4>1. header \in Seq({5, 0, 3, r, total, n})
        BY <3>1
      <4>2. Len(header) = 6 /\ header # <<>>
        BY <3>1
      <4>. QED
        BY <4>1, <4>2
    <3>. QED
      BY <2>3, <3>2
  <2>. QED
    BY <2>1, <2>2, <2>3
<1>9. fill = IF total # 1 /\ ~p.wide THEN 1 ELSE 0
  BY <1>8, Sizes
<1>10. gsm7 => Len(septets) = c
  BY DEF to_septets
<1>11. ~gsm7 => c = Len(Codes(segments[n], "units"))
  OBVIOUS
<1>. HIDE DEF segments, gsm7, total, header, fill, septets, c
<1>12. CASE gsm7
  <2>1. max = IF total = 1 THEN 160 ELSE IF p.wide THEN 152 ELSE 153
    BY <1>12 DEF Single, Multi, MultiWide
  <2>2. (fill + 7 * c + 7) \div 8 \in 0 .. 140 /\ c \in Nat
    BY <1>7, <1>9, <2>1, Sizes
  <2>3. Len(payload) = (fill + 7 * c + 7) \div 8 /\ \E S : payload \in Seq(S)
    <3>1. payload = pack_septets(septets, fill)
      BY <1>12
    <3>2. (fill + 7 * Len(septets) + 7) \div 8 \in Nat
      <4>1. \A x \in 0 .. 140 : x \in Nat
        OBVIOUS
      <4>2. (fill + 7 * c + 7) \div 8 \in Nat
        BY <2>2, <4>1
      <4>3. Len(septets) = c
        BY <1>10, <1>12
      <4>. QED
        BY <4>2, <4>3
    <3>3. /\ Len(pack_septets(septets, fill)) = (fill + 7 * Len(septets) + 7) \div 8
          /\ \E S : pack_septets(septets, fill) \in Seq(S)
      BY <3>2, PayloadLength
    <3>. QED
      BY <1>10, <1>12, <3>1, <3>3
  <2>. HIDE DEF payload, max
  <2>4. Len(header \o payload) = Len(header) + Len(payload)
    BY <1>8, <2>3, ConcatLength
  <2>5. /\ Len(header) + Len(payload) <= 140
        /\ Len(header) + Len(payload) = (((Len(header) * 8 + fill) \div 7 + c) * 7 + 7) \div 8
    <3>1. CASE total = 1
      <4>1. c \in 0 .. 160 /\ Len(header) = 0 /\ fill = 0
        BY <1>7, <1>8, <1>9, <2>1, <3>1
      <4>. QED
        BY <2>3, <4>1, Sizes
    <3>2. CASE total # 1 /\ p.wide
      <4>1. c \in 0 .. 152 /\ Len(header) = 7 /\ fill = 0
        BY <1>7, <1>8, <1>9, <2>1, <3>2
      <4>. QED
        BY <2>3, <4>1, Sizes
    <3>3. CASE total # 1 /\ ~p.wide
      <4>1. c \in 0 .. 153 /\ Len(header) = 6 /\ fill = 1
        BY <1>7, <1>8, <1>9, <2>1, <3>3
      <4>. QED
        BY <2>3, <4>1, Sizes
    <3>. QED
      BY <3>1, <3>2, <3>3
  <2>. QED
    BY <1>6, <1>10, <1>12, <2>4, <2>5
<1>13. CASE ~gsm7
  <2>1. max = IF total = 1 THEN 70 ELSE IF p.wide THEN 66 ELSE 67
    BY <1>13 DEF Single, Multi, MultiWide
  <2>2. c \in Nat /\ 2 * c <= IF total = 1 THEN 140 ELSE IF p.wide THEN 132 ELSE 134
    BY <1>7, <2>1
  <2>3. Len(payload) = 2 * c /\ \E S : payload \in Seq(S)
    BY <1>11, <1>13, <2>2, PayloadLength
  <2>. HIDE DEF payload, max
  <2>4. Len(header \o payload) = Len(header) + Len(payload)
    BY <1>8, <2>3, ConcatLength
  <2>5. Len(header) + Len(payload) <= 140
    BY <1>8, <2>2, <2>3
  <2>. QED
    BY <1>6, <1>13, <2>4, <2>5
<1>. QED
  BY <1>12, <1>13

\* Every PDU fits the message format and announces as many septets or octets as
\* it holds.
THEOREM PdusFit == SplitsToFit => (CodecSpec => []Fits)
<1>. SUFFICES ASSUME SplitsToFit PROVE CodecSpec => []Fits
  OBVIOUS
<1> DEFINE Known == sent \in Seq(Messages)
<1>1. CodecInit => Known
  <2>1. <<>> \in Seq(Messages)
    OBVIOUS
  <2>. QED
    BY <2>1 DEF CodecInit
<1>2. Known /\ [CodecNext]_codecVars => Known'
  <2>. SUFFICES ASSUME Known, [CodecNext]_codecVars PROVE sent' \in Seq(Messages)
    OBVIOUS
  <2>1. sent' = sent \/ \E m \in Messages : sent' = Append(sent, m)
    BY DEF CodecNext, codecVars, Send, Receive, Flush
  <2>. QED
    BY <2>1, AppendProperties
<1>3. Known => Fits
  <2>. SUFFICES ASSUME Known, NEW k \in DOMAIN sent, NEW n \in DOMAIN sent[k].pdus
                PROVE  /\ Len(sent[k].pdus[n].ud) <= 140
                       /\ Len(sent[k].pdus[n].ud) =
                             IF sent[k].pdus[n].dcs = 0 THEN (sent[k].pdus[n].udl * 7 + 7) \div 8
                             ELSE sent[k].pdus[n].udl
    BY DEF Fits
  <2>1. sent[k] \in Messages
    BY ElementOfSeq, LenProperties
  <2>. QED
    BY <2>1, PduFits
<1>. HIDE DEF Known
<1>. QED
  BY <1>1, <1>2, <1>3, PTL DEF CodecSpec
=============================================================================
