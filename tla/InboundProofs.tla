--------------------------- MODULE InboundProofs ---------------------------
(***************************************************************************)
(* What becomes of an SMS between the network and the subscribers, for any *)
(* messages, slots, arrivals and faults: what leaves the SIM without being *)
(* sent or saved, and what becomes of a part that never was on it.         *)
(*                                                                         *)
(* Wherever a storage index is kept with what was read from it - a line,   *)
(* a listing, the assembler, a stale set, a pending message, a delete job  *)
(* - the slot has the part it is kept for, or is empty, or its part is one *)
(* of `exposed`: an arrival in a slot that was used before, or the victim  *)
(* of an answer that was taken for that of another command (Holds).  So    *)
(* what AT+CMGD deletes is a part that is safe, a status report, the part  *)
(* whose save just failed, or an exposed one.                              *)
(***************************************************************************)
EXTENDS Inbound, FiniteSetTheorems, SequenceTheorems, TLAPS

\* An entry's index, the texts the worker publishes, the entries of the
\* assembler, the records of Hub.pending, what a command shows, and the lines
\* and frames that hold it.
Indices == Slots \cup {NoSlot}
Texts == [msg : Msgs, seqs : SUBSET Nat]
Entries == [seq : Nat, index : Indices]
Records == [text : Texts, indices : SUBSET Slots, sent : BOOLEAN]
Finds == [index : Indices, part : AllParts]
Lines == [kind : Commands \cup {"+CMTI", "+CMT", "pdu"}, ok : BOOLEAN, found : Seq(Finds), n : Int]
Frames == [kind : Commands \cup {"delete", "entries", "sweep", "sweeping"}, index : Indices,
           indices : SUBSET Slots, entries : Seq(Finds), quota : Int, notified : BOOLEAN]

PartOf(m, e) == [msg |-> m, seq |-> e.seq]

\* A slot that had a part of P has it still, or is empty, or its part is exposed.
Holds(i, P) == i \in used /\ (slots[i] = Empty \/ slots[i] \in P \/ slots[i] \in exposed)
HoldsNext(i, P) == i \in used' /\ (slots'[i] = Empty \/ slots'[i] \in P \/ slots'[i] \in exposed')
Good(e) == e.index \in Slots /\ Holds(e.index, {e.part})

\* The slots to be deleted by the loops of a stack.
Doomed(s) == UNION {f.indices : f \in Range(s)}

\* The variables the argument is about are well formed.
Types ==
    /\ cfg \in Configs
    /\ slots \in [Slots -> AllParts \cup {Empty}]
    /\ line \in Seq(Lines) /\ stack \in Seq(Frames)
    /\ used \in SUBSET Slots
    /\ parts \in [Msgs -> SUBSET Entries] /\ stale \in [Msgs -> SUBSET Entries]
    /\ seen \in Seq(Texts)
    /\ pending \in SUBSET Records
    /\ jobs \in Seq(SUBSET Slots)
    /\ arrived \in SUBSET AllParts /\ taken \in SUBSET AllParts
    /\ save_failures \in Nat

\* A slot that is to be deleted or is occupied was used.
UsedKnown == Doomed(stack) \subseteq used /\ \A i \in Slots : slots[i] # Empty => i \in used
\* What CMGL and CMGR show is in its slot, on the line (at.py execute) ...
LineKnown(l) == /\ l.kind = "+CMTI" => l.n \in Slots
                /\ l.kind = "pdu" => l.found # <<>>
                /\ l.kind # "pdu" => \A e \in Range(l.found) : Good(e)
\* ... and in a listing that is processed (worker._scan_stored).
FrameKnown(f) == /\ f.kind \in {"CMGR", "sweep"} => f.index \in Slots
                 /\ f.kind = "entries" => f.entries # <<>>
                 /\ \A e \in Range(f.entries) : Good(e)
CallsKnown == /\ \A l \in Range(line) : LineKnown(l)
              /\ \A f \in Range(stack) : FrameKnown(f)
\* So are the parts of the assembler and of the sets flush_stale took out of it
\* (receive.py Assembler.add) ...
SetsKnown(sets) == \A m \in Msgs : \A e \in sets[m] :
                      e.index # NoSlot => Holds(e.index, {PartOf(m, e)})
PartsKnown == SetsKnown(parts) /\ SetsKnown(stale)
\* ... and the parts of a pending message, which are safe once it was sent.
PendingKnown == \A r \in pending :
    /\ \A i \in r.indices : Holds(i, TextParts(r.text))
    /\ r.sent => TextParts(r.text) \subseteq safe
\* A delete job is for slots whose parts are safe (worker.request_delete).
JobsKnown == \A J \in Range(jobs) : \A i \in J : Holds(i, safe)

\* The parts whose last copies, if any, are about to be deleted: neither
\* sent nor saved, and in no slot that stays.  At most one for each save that
\* failed.
AtRisk == {p \in arrived \ direct : /\ Deliverable(p) /\ p \notin safe \cup exposed
                                    /\ \A i \in Slots \ Doomed(stack) : slots[i] # p}
Accounted == IsFiniteSet(AtRisk) /\ Cardinality(AtRisk) <= save_failures

\* A flush that has not published all of its sets executes a command only with
\* a store, which makes _publish delete: so no set is dropped without one.
StaleKnown == /\ stale # None => link = "up" /\ (cfg.store \/ stack = <<>>)
              /\ ~cfg.store => dropped = {}

\* What the process holds, and what a subscriber was sent or the store has:
\* a text whose hash is known is among the latter or pending, so that dropping
\* it as a duplicate loses nothing (worker._publish).
InHub == UNION {TextParts(r.text) : r \in pending}
InSets == PartsOf(parts) \cup PartsOf(stale) \cup dropped
Held == InSets \cup InHub \cup safe
SeenHeld == \A t \in Range(seen) : TextParts(t) \subseteq InHub \cup safe
TakenHeld == save_failures > 0 \/ ({p \in taken : Deliverable(p)} \subseteq Held /\ SeenHeld)

\* The inductive invariant.
Inv == /\ Types /\ UsedKnown /\ CallsKnown /\ PartsKnown /\ PendingKnown /\ JobsKnown
       /\ Accounted /\ StaleKnown /\ TakenHeld

-----------------------------------------------------------------------------
\* What is in a sequence that grows or shrinks at an end.
LEMMA EmptyRange == ASSUME NEW S PROVE <<>> \in Seq(S) /\ Range(<<>>) = {}
<1>1. <<>> \in Seq(S) /\ DOMAIN <<>> = {}
  BY EmptySeq
<1> QED BY <1>1 DEF Range

LEMMA AppendRange ==
    ASSUME NEW S, NEW s \in Seq(S), NEW x \in S
    PROVE  /\ Append(s, x) \in Seq(S) /\ Append(s, x) # <<>>
           /\ Range(Append(s, x)) = Range(s) \cup {x}
<1> DEFINE n == Len(s)
           t == Append(s, x)
<1>1. /\ n \in Nat /\ DOMAIN s = 1 .. n /\ t \in Seq(S) /\ Len(t) = n + 1 /\ t[n + 1] = x
      /\ \A k \in 1 .. n : t[k] = s[k]
  BY LenProperties, AppendProperties
<1>2. DOMAIN t = 1 .. n + 1
  BY <1>1, LenProperties
<1> HIDE DEF n, t
<1>3. \A k \in 1 .. n + 1 : k = n + 1 \/ k \in 1 .. n
  BY <1>1
<1>4. n + 1 \in 1 .. n + 1 /\ 1 .. n \subseteq 1 .. n + 1
  BY <1>1
<1>5. {t[k] : k \in 1 .. n + 1} = {s[k] : k \in 1 .. n} \cup {x}
  BY <1>1, <1>3, <1>4
<1>6. t # <<>>
  BY <1>2, <1>4, EmptySeq
<1> QED BY <1>1, <1>2, <1>5, <1>6 DEF Range, t

LEMMA HeadRange ==
    ASSUME NEW S, NEW s \in Seq(S), s # <<>>
    PROVE  /\ Head(s) \in S /\ Head(s) \in Range(s) /\ 1 \in DOMAIN s /\ Head(s) = s[1]
           /\ Tail(s) \in Seq(S) /\ Range(Tail(s)) \subseteq Range(s)
<1> DEFINE n == Len(s)
           t == Tail(s)
<1>1. /\ n \in Nat \ {0} /\ DOMAIN s = 1 .. n /\ t \in Seq(S) /\ Len(t) = n - 1
      /\ \A k \in 1 .. Len(t) : t[k] = s[k + 1]
      /\ Head(s) = s[1] /\ Head(s) \in S
  BY LenProperties, EmptySeq, HeadTailProperties
<1>2. DOMAIN t = 1 .. n - 1
  BY <1>1, LenProperties
<1> HIDE DEF n, t
<1>3. 1 \in 1 .. n /\ \A k \in 1 .. n - 1 : k + 1 \in 1 .. n
  BY <1>1
<1>4. {t[k] : k \in 1 .. n - 1} \subseteq {s[k] : k \in 1 .. n}
  BY <1>1, <1>3
<1> QED BY <1>1, <1>2, <1>3, <1>4 DEF Range, t

LEMMA LastRange ==
    ASSUME NEW S, NEW s \in Seq(S), s # <<>>
    PROVE  /\ Last(s) \in S /\ Last(s) \in Range(s)
           /\ Front(s) \in Seq(S) /\ Range(Front(s)) \subseteq Range(s)
           /\ Range(s) = Range(Front(s)) \cup {Last(s)}
<1> DEFINE n == Len(s)
           t == Front(s)
<1>1. n \in Nat \ {0} /\ DOMAIN s = 1 .. n /\ \A k \in 1 .. n : s[k] \in S
  BY LenProperties, EmptySeq, ElementOfSeq
<1>2. n - 1 \in Int /\ 1 \in Int /\ \A k \in 1 .. n - 1 : s[k] \in S /\ 1 + k - 1 = k
  BY <1>1
<1>3. /\ t \in Seq(S) /\ Len(t) = (IF 1 <= n - 1 THEN n - 1 - 1 + 1 ELSE 0)
      /\ \A k \in 1 .. n - 1 - 1 + 1 : t[k] = s[1 + k - 1]
  BY <1>2, SubSeqProperties DEF Front
<1>4. Last(s) = s[n] /\ DOMAIN t = 1 .. Len(t)
  BY <1>3, LenProperties DEF Last
<1> HIDE DEF n, t
<1>5. Len(t) = n - 1 /\ \A k \in 1 .. n - 1 : 1 + k - 1 = k /\ k \in 1 .. n - 1 - 1 + 1
  BY <1>1, <1>3
<1>6. DOMAIN t = 1 .. n - 1 /\ \A k \in 1 .. n - 1 : t[k] = s[k]
  BY <1>3, <1>4, <1>5
<1>7. n \in 1 .. n /\ 1 .. n - 1 \subseteq 1 .. n /\ \A k \in 1 .. n : k = n \/ k \in 1 .. n - 1
  BY <1>1
<1>8. {s[k] : k \in 1 .. n} = {t[k] : k \in 1 .. n - 1} \cup {s[n]}
  BY <1>6, <1>7
<1>9. Range(s) = Range(t) \cup {s[n]}
  BY <1>1, <1>6, <1>8 DEF Range
<1> QED BY <1>1, <1>3, <1>4, <1>7, <1>9 DEF t

LEMMA ConcatRange ==
    ASSUME NEW S, NEW s \in Seq(S), NEW t \in Seq(S)
    PROVE  s \o t \in Seq(S) /\ Range(s \o t) \subseteq Range(s) \cup Range(t)
<1> DEFINE n == Len(s)
           m == Len(t)
           u == s \o t
<1>1. /\ n \in Nat /\ m \in Nat /\ DOMAIN s = 1 .. n /\ DOMAIN t = 1 .. m
      /\ u \in Seq(S) /\ Len(u) = n + m
      /\ \A k \in 1 .. n + m : u[k] = IF k <= n THEN s[k] ELSE t[k - n]
  BY LenProperties, ConcatProperties
<1>2. DOMAIN u = 1 .. n + m
  BY <1>1, LenProperties
<1> HIDE DEF n, m, u
<1>3. \A k \in 1 .. n + m : (k <= n => k \in 1 .. n) /\ (~(k <= n) => k - n \in 1 .. m)
  BY <1>1
<1>4. \A k \in 1 .. n + m : u[k] \in {s[j] : j \in 1 .. n} \cup {t[j] : j \in 1 .. m}
  BY <1>1, <1>3
<1> QED BY <1>1, <1>2, <1>4 DEF Range, u
-----------------------------------------------------------------------------
\* What every step does to the storage: a slot keeps its part or is emptied,
\* and what comes into one that was used is exposed.
SlotsKept == /\ used \subseteq used' /\ exposed \subseteq exposed' /\ safe \subseteq safe'
             /\ \A i \in used : slots'[i] \in {slots[i], Empty} \cup exposed'

\* A part is not the empty slot, and an entry of its number is that part.
LEMMA PartFacts ==
    /\ Empty \notin AllParts /\ NoSlot \notin Slots
    /\ \A p \in AllParts : /\ p.msg \in Msgs /\ p.seq \in Nat
                           /\ \A e : e.seq = p.seq => PartOf(p.msg, e) = p
BY InboundAssumption DEF Empty, NoSlot, PartOf

\* The parts of sets, one set replaced by another.
LEMMA SetsFacts ==
    ASSUME NEW sets \in [Msgs -> SUBSET Entries], NEW m \in Msgs, NEW new \in SUBSET Entries
    PROVE  /\ [sets EXCEPT ![m] = new] \in [Msgs -> SUBSET Entries]
           /\ PartsOf(sets) \subseteq PartsOf([sets EXCEPT ![m] = new]) \cup {PartOf(m, e) : e \in sets[m]}
           /\ {PartOf(m, e) : e \in new} \subseteq PartsOf([sets EXCEPT ![m] = new])
<1> DEFINE other == [sets EXCEPT ![m] = new]
<1>1. /\ other \in [Msgs -> SUBSET Entries] /\ other[m] = new
      /\ \A k \in Msgs \ {m} : other[k] = sets[k]
  OBVIOUS
<1> HIDE DEF other
<1>2. \A k \in Msgs : \A e : PartOf(k, e) = [msg |-> k, seq |-> e.seq]
  BY DEF PartOf
<1>3. ASSUME NEW k \in Msgs, NEW e \in sets[k]
      PROVE  PartOf(k, e) \in PartsOf(other) \cup {PartOf(m, f) : f \in sets[m]}
  <2>1. CASE k = m
    BY <2>1
  <2>2. CASE k # m
    <3>1. e \in other[k]
      BY <1>1, <2>2
    <3> QED BY <1>2, <3>1 DEF PartsOf
  <2> QED BY <2>1, <2>2
<1>4. PartsOf(sets) \subseteq PartsOf(other) \cup {PartOf(m, e) : e \in sets[m]}
  <2>1. \A x \in PartsOf(sets) : \E k \in Msgs : \E e \in sets[k] : x = PartOf(k, e)
    BY <1>2 DEF PartsOf
  <2> QED BY <1>3, <2>1
<1>5. ASSUME NEW e \in new PROVE PartOf(m, e) \in PartsOf(other)
  BY <1>1, <1>2 DEF PartsOf
<1> QED BY <1>1, <1>4, <1>5 DEF other

\* A text put together from entries, its parts and the slots they were in.
LEMMA TextFacts ==
    ASSUME NEW m \in Msgs, NEW set \in SUBSET Entries
    PROVE  /\ TextOf(m, set) \in Texts /\ IndicesOf(set) \in SUBSET Slots
           /\ TextParts(TextOf(m, set)) = {PartOf(m, e) : e \in set}
<1>1. TextOf(m, set) \in Texts
  BY DEF TextOf, Texts, Entries
<1>2. IndicesOf(set) \in SUBSET Slots
  BY DEF IndicesOf, Entries, Indices
<1>3. TextParts(TextOf(m, set)) = {PartOf(m, e) : e \in set}
  BY DEF TextParts, TextOf, PartOf
<1> QED BY <1>1, <1>2, <1>3

\* seen_hashes has the new text and otherwise texts it had before.
LEMMA RememberIs ==
    ASSUME Types, NEW text \in Texts
    PROVE  Remember(text) \in Seq(Texts) /\ Range(Remember(text)) \subseteq Range(seen) \cup {text}
<1> DEFINE longer == Append(seen, text)
<1>1. seen \in Seq(Texts)
  BY DEF Types
<1>2. longer \in Seq(Texts) /\ longer # <<>> /\ Range(longer) = Range(seen) \cup {text}
  BY <1>1, AppendRange
<1> HIDE DEF longer
<1>3. Tail(longer) \in Seq(Texts) /\ Range(Tail(longer)) \subseteq Range(longer)
  BY <1>2, HeadRange
<1>4. Remember(text) = longer \/ Remember(text) = Tail(longer)
  BY DEF Remember, longer
<1> QED BY <1>2, <1>3, <1>4

\* Frames that keep no index but their own.
LEMMA FrameFacts ==
    /\ \A kind \in Commands \cup {"delete", "entries", "sweep", "sweeping"}, i \in Indices :
          /\ Frame(kind, i) \in Frames /\ Frame(kind, i).kind = kind /\ Frame(kind, i).index = i
          /\ Frame(kind, i).entries = <<>> /\ Frame(kind, i).indices = {}
    /\ \A D \in SUBSET Slots :
          /\ Deletes(D) \in Frames /\ Deletes(D).kind = "delete" /\ Deletes(D).indices = D
          /\ Deletes(D).entries = <<>>
    /\ \A q \in Seq(Finds) :
          /\ Listing(q) \in Frames /\ Listing(q).kind = "entries" /\ Listing(q).entries = q
          /\ Listing(q).indices = {}
    /\ \A i \in Slots, n \in Int :
          /\ Sweep(i, n) \in Frames /\ Sweep(i, n).kind = "sweep" /\ Sweep(i, n).index = i
          /\ Sweep(i, n).entries = <<>> /\ Sweep(i, n).indices = {}
<1>1. <<>> \in Seq(Finds) /\ NoSlot \in Indices /\ Slots \subseteq Indices
  BY EmptySeq DEF Indices
<1>2. \A kind \in Commands \cup {"delete", "entries", "sweep", "sweeping"}, i \in Indices :
          /\ Frame(kind, i) \in Frames /\ Frame(kind, i).kind = kind /\ Frame(kind, i).index = i
          /\ Frame(kind, i).entries = <<>> /\ Frame(kind, i).indices = {}
  BY <1>1 DEF Frame, Frames
<1>3. ASSUME NEW D \in SUBSET Slots
      PROVE  /\ Deletes(D) \in Frames /\ Deletes(D).kind = "delete" /\ Deletes(D).indices = D
             /\ Deletes(D).entries = <<>>
  <2> DEFINE f == Frame("delete", NoSlot)
  <2>1. f \in Frames /\ f.kind = "delete" /\ f.entries = <<>>
    BY <1>1, <1>2
  <2>2. Deletes(D) = [f EXCEPT !.indices = D]
    BY DEF Deletes
  <2> HIDE DEF f
  <2> QED BY <2>1, <2>2 DEF Frames
<1>4. ASSUME NEW q \in Seq(Finds)
      PROVE  /\ Listing(q) \in Frames /\ Listing(q).kind = "entries" /\ Listing(q).entries = q
             /\ Listing(q).indices = {}
  <2> DEFINE f == Frame("entries", NoSlot)
  <2>1. f \in Frames /\ f.kind = "entries" /\ f.indices = {}
    BY <1>1, <1>2
  <2>2. Listing(q) = [f EXCEPT !.entries = q]
    BY DEF Listing
  <2> HIDE DEF f
  <2> QED BY <2>1, <2>2 DEF Frames
<1>5. \A i \in Slots, n \in Int :
          /\ Sweep(i, n) \in Frames /\ Sweep(i, n).kind = "sweep" /\ Sweep(i, n).index = i
          /\ Sweep(i, n).entries = <<>> /\ Sweep(i, n).indices = {}
  BY <1>1 DEF Sweep, Frame, Frames
<1> QED BY <1>2, <1>3, <1>4, <1>5

LEMMA BareKnown ==
    ASSUME NEW f, f.entries = <<>>, f.kind # "entries", f.kind \in {"CMGR", "sweep"} => f.index \in Slots
    PROVE  FrameKnown(f) /\ FrameKnown(f)'
<1>1. Range(f.entries) = {}
  BY EmptyRange
<1> QED BY <1>1 DEF FrameKnown

\* The deletes that go on top of a stack.
LEMMA ThenFacts ==
    ASSUME NEW below \in Seq(Frames), NEW D \in SUBSET Slots
    PROVE  /\ Then(below, D) \in Seq(Frames)
           /\ Range(Then(below, D)) \subseteq Range(below) \cup {Deletes(D)}
           /\ Doomed(Then(below, D)) = Doomed(below) \cup D
<1>1. CASE D = {}
  BY <1>1 DEF Then
<1>2. CASE D # {}
  <2>1. Deletes(D) \in Frames /\ Deletes(D).indices = D
    BY FrameFacts
  <2>2. /\ Append(below, Deletes(D)) \in Seq(Frames)
        /\ Range(Append(below, Deletes(D))) = Range(below) \cup {Deletes(D)}
    BY <2>1, AppendRange
  <2>3. Then(below, D) = Append(below, Deletes(D))
    BY <1>2 DEF Then
  <2> QED BY <2>1, <2>2, <2>3 DEF Doomed
<1> QED BY <1>1, <1>2

\* Every index kept stays good while the storage changes.
LEMMA HoldsKept ==
    ASSUME SlotsKept
    PROVE  /\ \A i, P : Holds(i, P) => Holds(i, P)'
           /\ \A i : Holds(i, safe) => Holds(i, safe)'
           /\ \A l : LineKnown(l) => LineKnown(l)'
           /\ \A f : FrameKnown(f) => FrameKnown(f)'
<1>1. \A i, P : Holds(i, P) => Holds(i, P)'
  BY DEF SlotsKept, Holds
<1>2. \A i : Holds(i, safe) => Holds(i, safe)'
  BY DEF SlotsKept, Holds
<1>3. \A e : Good(e) => Good(e)'
  BY <1>1 DEF Good
<1>4. \A l : LineKnown(l) => LineKnown(l)'
  BY <1>3 DEF LineKnown
<1>5. \A f : FrameKnown(f) => FrameKnown(f)'
  BY <1>3 DEF FrameKnown
<1> QED BY <1>1, <1>2, <1>4, <1>5

LEMMA KnownKept ==
    ASSUME SlotsKept
    PROVE  /\ PartsKnown /\ UNCHANGED parts /\ (UNCHANGED stale \/ stale' = None) => PartsKnown'
           /\ PendingKnown /\ UNCHANGED pending => PendingKnown'
           /\ JobsKnown /\ UNCHANGED jobs => JobsKnown'
<1>1. /\ \A i, P : Holds(i, P) => Holds(i, P)'
      /\ \A i : Holds(i, safe) => Holds(i, safe)'
  BY HoldsKept
<1>2. \A sets : SetsKnown(sets) => SetsKnown(sets)'
  BY <1>1 DEF SetsKnown
<1>3. SetsKnown(None)'
  BY DEF SetsKnown, None
<1>4. PartsKnown /\ UNCHANGED parts /\ (UNCHANGED stale \/ stale' = None) => PartsKnown'
  BY <1>2, <1>3 DEF PartsKnown, SetsKnown
<1>5. PendingKnown /\ UNCHANGED pending => PendingKnown'
  BY <1>1 DEF PendingKnown, SlotsKept
<1>6. JobsKnown /\ UNCHANGED jobs => JobsKnown'
  BY <1>1 DEF JobsKnown
<1> QED BY <1>4, <1>5, <1>6

LEMMA CallsKept ==
    ASSUME SlotsKept, CallsKnown,
           \A l \in Range(line') : l \in Range(line) \/ LineKnown(l)',
           \A f \in Range(stack') : f \in Range(stack) \/ FrameKnown(f)'
    PROVE  CallsKnown'
<1>1. /\ \A l : LineKnown(l) => LineKnown(l)'
      /\ \A f : FrameKnown(f) => FrameKnown(f)'
  BY HoldsKept
<1>2. \A l \in Range(line) : LineKnown(l)'
  BY <1>1 DEF CallsKnown
<1>3. \A f \in Range(stack) : FrameKnown(f)'
  BY <1>1 DEF CallsKnown
<1> QED BY <1>2, <1>3 DEF CallsKnown
-----------------------------------------------------------------------------
\* Parts that need no copy on the SIM, or are excepted.
Settled(p) == p \in safe \cup exposed \/ ~Deliverable(p)

\* No part is at risk anew when whatever leaves the remaining slots is settled.
LEMMA RiskShrinks ==
    ASSUME SlotsKept, UNCHANGED cfg, arrived' \in SUBSET AllParts,
           \A p \in arrived' \ direct' : \/ p \in arrived \ direct \/ p \in exposed'
                                         \/ \E i \in Slots \ Doomed(stack') : slots'[i] = p,
           \A i \in Slots \ Doomed(stack), p \in AllParts :
              slots[i] = p => Settled(p)' \/ \E j \in Slots \ Doomed(stack') : slots'[j] = p
    PROVE  AtRisk' \subseteq AtRisk
<1>1. \A p : Settled(p) => Settled(p)'
  BY DEF Settled, SlotsKept, Deliverable
<1> SUFFICES ASSUME NEW p \in AtRisk' PROVE p \in AtRisk
  OBVIOUS
<1>2. p \in arrived' \ direct' /\ ~Settled(p)' /\ \A i \in Slots \ Doomed(stack') : slots'[i] # p
  BY DEF AtRisk, Settled
<1>3. p \in AllParts /\ p \in arrived \ direct /\ ~Settled(p)
  BY <1>1, <1>2 DEF Settled
<1>4. \A i \in Slots \ Doomed(stack) : slots[i] # p
  BY <1>2, <1>3
<1> QED BY <1>3, <1>4 DEF AtRisk, Settled

\* The same of a step that only decides to delete D.
LEMMA RiskLocal ==
    ASSUME SlotsKept, UNCHANGED <<cfg, slots>>, arrived' \in SUBSET AllParts,
           arrived' \ direct' \subseteq arrived \ direct,
           NEW D, Doomed(stack') \subseteq Doomed(stack) \cup D,
           \A i \in D, p \in AllParts : slots[i] = p => Settled(p)'
    PROVE  AtRisk' \subseteq AtRisk
<1>1. \A i \in Slots \ Doomed(stack), p \in AllParts :
         slots[i] = p => Settled(p)' \/ \E j \in Slots \ Doomed(stack') : slots'[j] = p
  OBVIOUS
<1> QED BY <1>1, RiskShrinks

\* One more part may be at risk after one more failed save.
LEMMA AccountedKept ==
    ASSUME Accounted, save_failures \in Nat
    PROVE  /\ AtRisk' \subseteq AtRisk /\ save_failures' = save_failures => Accounted'
           /\ \A p : AtRisk' \subseteq AtRisk \cup {p} /\ save_failures' = save_failures + 1
                       => Accounted'
<1>1. IsFiniteSet(AtRisk) /\ Cardinality(AtRisk) <= save_failures /\ Cardinality(AtRisk) \in Nat
  BY FS_CardinalityType DEF Accounted
<1>2. AtRisk' \subseteq AtRisk => IsFiniteSet(AtRisk') /\ Cardinality(AtRisk') <= Cardinality(AtRisk)
                                  /\ Cardinality(AtRisk') \in Nat
  BY <1>1, FS_Subset, FS_CardinalityType
<1>3. ASSUME NEW p
      PROVE  AtRisk' \subseteq AtRisk \cup {p} =>
                IsFiniteSet(AtRisk') /\ Cardinality(AtRisk') <= Cardinality(AtRisk) + 1
                /\ Cardinality(AtRisk') \in Nat
  <2>1. /\ IsFiniteSet(AtRisk \cup {p})
        /\ Cardinality(AtRisk \cup {p}) = IF p \in AtRisk THEN Cardinality(AtRisk)
                                          ELSE Cardinality(AtRisk) + 1
    BY <1>1, FS_AddElement
  <2>2. AtRisk' \subseteq AtRisk \cup {p} =>
          IsFiniteSet(AtRisk') /\ Cardinality(AtRisk') <= Cardinality(AtRisk \cup {p})
    BY <2>1, FS_Subset
  <2>3. IsFiniteSet(AtRisk') => Cardinality(AtRisk') \in Nat
    BY FS_CardinalityType
  <2> QED BY <1>1, <2>1, <2>2, <2>3
<1> QED BY <1>1, <1>2, <1>3 DEF Accounted
-----------------------------------------------------------------------------
\* A step of the worker: the SIM is as it was, but more may be exposed.
Quiet == UNCHANGED <<cfg, slots>> /\ used \subseteq used' /\ exposed \subseteq exposed'

LEMMA QuietKeeps == Quiet /\ safe \subseteq safe' => SlotsKept
BY DEF Quiet, SlotsKept

\* worker._publish: a text that was seen before changes nothing and is held; a
\* new one becomes pending, or is saved and its slots are deleted.
LEMMA PublishStep ==
    ASSUME Types, PendingKnown, Quiet, NEW text \in Texts, NEW indices \in SUBSET Slots,
           NEW below \in Seq(Frames), \A i \in indices : HoldsNext(i, TextParts(text)),
           Publish(text, indices, below)
    PROVE  /\ seen' \in Seq(Texts) /\ pending' \in SUBSET Records /\ jobs' = jobs
           /\ safe \subseteq safe' /\ PendingKnown'
           /\ \E D \in SUBSET Slots : /\ stack' = Then(below, D) /\ (\A i \in D : Holds(i, safe)')
                                      /\ D = {} \/ cfg.store
           /\ InHub \cup safe \subseteq (InHub \cup safe)'
           /\ SeenHeld => SeenHeld' /\ TextParts(text) \subseteq (InHub \cup safe)'
<1>1. seen \in Seq(Texts) /\ pending \in SUBSET Records
  BY DEF Types
<1>2. Then(below, {}) = below
  BY DEF Then
<1>3. CASE Seen(text)
  <2>1. UNCHANGED <<seen, hubVars, safe>> /\ stack' = Then(below, {})
    BY <1>2, <1>3 DEF Publish
  <2>2. InHub' = InHub /\ (SeenHeld => SeenHeld') /\ pending' = pending /\ jobs' = jobs
    BY <2>1 DEF hubVars, InHub, SeenHeld
  <2>3. PendingKnown'
    BY <2>1, <2>2, QuietKeeps, KnownKept
  <2>4. SeenHeld => TextParts(text) \subseteq InHub \cup safe
    BY <1>3 DEF Seen, SeenHeld, Range
  <2> QED BY <1>1, <2>1, <2>2, <2>3, <2>4
<1>4. CASE ~Seen(text)
  <2>1. seen' = Remember(text)
    BY <1>4 DEF Publish
  <2>2. seen' \in Seq(Texts) /\ Range(seen') \subseteq Range(seen) \cup {text}
    BY <2>1, RememberIs
  <2>3. ASSUME InHub \cup safe \subseteq (InHub \cup safe)',
               TextParts(text) \subseteq (InHub \cup safe)'
        PROVE  SeenHeld => SeenHeld'
    BY <2>2, <2>3 DEF SeenHeld
  <2>4. CASE cfg.store
    <3>1. safe' = safe \cup TextParts(text) /\ stack' = Then(below, indices) /\ UNCHANGED hubVars
      BY <1>4, <2>4 DEF Publish
    <3>2. InHub' = InHub /\ pending' = pending /\ jobs' = jobs
      BY <3>1 DEF hubVars, InHub
    <3>3. PendingKnown'
      BY <3>1, <3>2, QuietKeeps, KnownKept
    <3>4. \A i \in indices : Holds(i, safe)'
      BY <3>1 DEF Holds, HoldsNext
    <3> QED BY <1>1, <2>2, <2>3, <2>4, <3>1, <3>2, <3>3, <3>4
  <2>5. CASE ~cfg.store
    <3> DEFINE r == Record(text, indices)
    <3>1. pending' = pending \cup {r} /\ UNCHANGED <<jobs, safe>> /\ stack' = Then(below, {})
      BY <1>2, <1>4, <2>5 DEF Publish
    <3>2. r \in Records /\ r.text = text /\ r.indices = indices /\ ~r.sent
      BY DEF Records, Record
    <3> HIDE DEF r
    <3>3. InHub' = InHub \cup TextParts(text)
      BY <3>1, <3>2 DEF InHub
    <3>4. PendingKnown'
      <4>1. \A i, P : Holds(i, P) => Holds(i, P)'
        BY <3>1, QuietKeeps, HoldsKept
      <4>2. \A i \in r.indices : Holds(i, TextParts(r.text))'
        BY <3>2 DEF Holds, HoldsNext
      <4> QED BY <3>1, <3>2, <4>1, <4>2 DEF PendingKnown
    <3> QED BY <1>1, <2>2, <2>3, <3>1, <3>2, <3>3, <3>4
  <2> QED BY <2>4, <2>5
<1> QED BY <1>3, <1>4

\* worker._publish when saving fails.
LEMMA FailStep ==
    ASSUME Types, PendingKnown, Quiet, NEW text \in Texts, PublishFails(text)
    PROVE  /\ seen' \in Seq(Texts) /\ UNCHANGED <<pending, jobs, safe>> /\ cfg.store
           /\ save_failures' = save_failures + 1 /\ save_failures' \in Nat /\ save_failures' > 0
           /\ PendingKnown'
<1>1. /\ UNCHANGED <<pending, jobs, safe>> /\ seen' = Remember(text) /\ cfg.store
      /\ save_failures' = save_failures + 1
  BY DEF PublishFails, hubVars
<1>2. PendingKnown'
  BY <1>1, QuietKeeps, KnownKept
<1>3. save_failures \in Nat
  BY DEF Types
<1> QED BY <1>1, <1>2, <1>3, RememberIs

\* worker._process_pdu keeps every part of the invariant; the error path puts
\* the one part it was called for at risk.
LEMMA ProcessStep ==
    ASSUME Types, PartsKnown, PendingKnown, Accounted, Quiet, UNCHANGED flushVars,
           NEW p \in AllParts, NEW i \in Indices, i # NoSlot => HoldsNext(i, {p}),
           NEW below \in Seq(Frames), Doomed(below) \subseteq Doomed(stack), Process(p, i, below),
           arrived' \in SUBSET AllParts, arrived' \ direct' \subseteq arrived \ direct
    PROVE  /\ parts' \in [Msgs -> SUBSET Entries] /\ seen' \in Seq(Texts)
           /\ pending' \in SUBSET Records /\ save_failures' \in Nat
           /\ jobs' = jobs /\ SlotsKept
           /\ \E D \in SUBSET Slots : stack' = Then(below, D) /\ D \subseteq used'
           /\ PartsKnown' /\ PendingKnown' /\ Accounted'
           /\ \/ save_failures' > 0
              \/ /\ save_failures' = save_failures
                 /\ SeenHeld => SeenHeld' /\ Held \subseteq Held' /\ (Deliverable(p) => p \in Held')
<1> DEFINE m == p.msg
           set == With(p, i)
           text == TextOf(m, set)
           indices == IndicesOf(set)
           slot == {i} \ {NoSlot}
<1>1. /\ parts \in [Msgs -> SUBSET Entries] /\ seen \in Seq(Texts) /\ pending \in SUBSET Records
      /\ save_failures \in Nat /\ m \in Msgs /\ Entry(p, i) \in Entries /\ Entry(p, i).index = i
      /\ PartOf(m, Entry(p, i)) = p
  BY PartFacts DEF Types, Entry, Entries
<1>2. set \in SUBSET Entries /\ Entry(p, i) \in set /\ set \subseteq parts[m] \cup {Entry(p, i)}
  BY <1>1 DEF With
<1>3. SlotsKept <=> safe \subseteq safe'
  BY QuietKeeps DEF SlotsKept
<1>4. \A j, P : Holds(j, P) => HoldsNext(j, P)
  BY DEF Quiet, Holds, HoldsNext
<1>5. \A e \in set : e.index # NoSlot => HoldsNext(e.index, {PartOf(m, e)})
  <2>1. \A e \in parts[m] : e.index # NoSlot => Holds(e.index, {PartOf(m, e)})
    BY <1>1 DEF PartsKnown, SetsKnown
  <2> QED BY <1>1, <1>2, <1>4, <2>1
<1>6. /\ {PartOf(m, e) : e \in parts[m]} \subseteq {PartOf(m, e) : e \in set}
      /\ p \in {PartOf(m, e) : e \in set}
  <2>1. p \in {PartOf(m, e) : e \in set}
    BY <1>1, <1>2
  <2>2. ASSUME NEW e \in parts[m] PROVE PartOf(m, e) \in {PartOf(m, f) : f \in set}
    <3>1. CASE e.seq = p.seq
      BY <2>1, <3>1, PartFacts
    <3>2. CASE e.seq # p.seq
      BY <3>2 DEF With
    <3> QED BY <3>1, <3>2
  <2> QED BY <2>1, <2>2
<1>7. /\ text \in Texts /\ indices \in SUBSET Slots
      /\ TextParts(text) = {PartOf(m, e) : e \in set}
  BY <1>1, <1>2, TextFacts
<1>8. \A j \in indices : HoldsNext(j, TextParts(text))
  <2>1. \A j \in indices : \E e \in set : j = e.index /\ e.index # NoSlot
    BY DEF IndicesOf
  <2> QED BY <1>5, <1>7, <2>1 DEF HoldsNext
<1>9. slot \in SUBSET Slots /\ (\A j \in slot : HoldsNext(j, {p})) /\ slot \subseteq used'
  BY DEF Indices, HoldsNext
<1>10. stale' = stale /\ dropped' = dropped
  BY DEF flushVars
<1>11. /\ \A D \in SUBSET Slots : Doomed(Then(below, D)) \subseteq Doomed(stack) \cup D
       /\ Then(below, {}) = below
  BY ThenFacts DEF Then
<1> HIDE DEF set, text, indices
<1>12. ASSUME NEW new \in SUBSET Entries, parts' = [parts EXCEPT ![m] = new],
              \A e \in new : e.index # NoSlot => HoldsNext(e.index, {PartOf(m, e)})
       PROVE  /\ parts' \in [Msgs -> SUBSET Entries] /\ PartsKnown'
              /\ InSets \subseteq InSets' \cup {PartOf(m, e) : e \in parts[m]}
              /\ {PartOf(m, e) : e \in new} \subseteq InSets'
  <2>1. /\ parts' \in [Msgs -> SUBSET Entries] /\ parts'[m] = new
        /\ \A k \in Msgs \ {m} : parts'[k] = parts[k]
    BY <1>1, <1>12
  <2>2. SetsKnown(parts)'
    BY <1>4, <1>12, <2>1 DEF PartsKnown, SetsKnown, Holds, HoldsNext
  <2>3. SetsKnown(stale)'
    BY <1>4, <1>10 DEF PartsKnown, SetsKnown, Holds, HoldsNext
  <2>4. /\ PartsOf(parts) \subseteq PartsOf(parts') \cup {PartOf(m, e) : e \in parts[m]}
        /\ {PartOf(m, e) : e \in new} \subseteq PartsOf(parts')
    BY <1>1, <1>12, SetsFacts
  <2> QED BY <1>10, <2>1, <2>2, <2>3, <2>4 DEF PartsKnown, InSets
<1>13. CASE m \in cfg.reports
  <2>1. stack' = Then(below, slot) /\ UNCHANGED <<parts, seen, hubVars, safe, save_failures>>
    BY <1>13 DEF Process, NoFault, publishVars, faultVars
  <2>2. SlotsKept /\ ~Deliverable(p) /\ UNCHANGED <<pending, jobs>>
    BY <1>3, <1>13, <2>1 DEF Deliverable, hubVars
  <2>3. PartsKnown' /\ PendingKnown'
    BY <1>10, <2>1, <2>2, KnownKept
  <2>4. \A j \in slot, x \in AllParts : slots[j] = x => Settled(x)'
    BY <1>9, <2>2, PartFacts DEF HoldsNext, Settled, Deliverable, Quiet
  <2>5. AtRisk' \subseteq AtRisk
    <3>1. UNCHANGED <<cfg, slots>> /\ Doomed(stack') \subseteq Doomed(stack) \cup slot
      BY <1>9, <1>11, <2>1 DEF Quiet
    <3> HIDE DEF slot
    <3> QED BY <2>2, <2>4, <3>1, RiskLocal
  <2>6. Accounted'
    BY <1>1, <2>1, <2>5, AccountedKept
  <2>7. Held' = Held /\ SeenHeld' = SeenHeld
    BY <1>10, <2>1, <2>2 DEF Held, InSets, InHub, SeenHeld
  <2>8. \E D \in SUBSET Slots : stack' = Then(below, D) /\ D \subseteq used'
    BY <1>9, <2>1
  <2> QED BY <1>1, <2>1, <2>2, <2>3, <2>6, <2>7, <2>8
<1>14. CASE m \notin cfg.reports /\ Cardinality(set) # cfg.total[m]
  <2>1. /\ parts' = [parts EXCEPT ![m] = set] /\ stack' = below
        /\ UNCHANGED <<seen, hubVars, safe, save_failures>>
    BY <1>14 DEF Process, NoFault, faultVars, set
  <2>2. SlotsKept /\ UNCHANGED <<pending, jobs>>
    BY <1>3, <2>1 DEF hubVars
  <2>3. PendingKnown'
    BY <2>2, KnownKept
  <2>4. AtRisk' \subseteq AtRisk
    <3> DEFINE D == {}
    <3>1. UNCHANGED <<cfg, slots>> /\ Doomed(stack') \subseteq Doomed(stack) \cup D
      BY <2>1 DEF Quiet
    <3>2. \A j \in D, x \in AllParts : slots[j] = x => Settled(x)'
      OBVIOUS
    <3> HIDE DEF D
    <3> QED BY <2>2, <3>1, <3>2, RiskLocal
  <2>5. Accounted'
    BY <1>1, <2>1, <2>4, AccountedKept
  <2>6. /\ parts' \in [Msgs -> SUBSET Entries] /\ PartsKnown'
        /\ InSets \subseteq InSets' \cup {PartOf(m, e) : e \in parts[m]}
        /\ {PartOf(m, e) : e \in set} \subseteq InSets'
    BY <1>2, <1>5, <1>12, <2>1
  <2>7. InSets \subseteq InSets' /\ p \in InSets'
    BY <1>6, <2>6
  <2>8. InHub' = InHub /\ SeenHeld' = SeenHeld
    BY <2>1, <2>2 DEF InHub, SeenHeld
  <2>9. Held \subseteq Held' /\ p \in Held'
    BY <2>1, <2>7, <2>8 DEF Held
  <2>10. \E D \in SUBSET Slots : stack' = Then(below, D) /\ D \subseteq used'
    BY <1>11, <2>1
  <2> QED BY <1>1, <2>1, <2>2, <2>3, <2>5, <2>6, <2>8, <2>9, <2>10
<1>15. CASE m \notin cfg.reports /\ Cardinality(set) = cfg.total[m]
  <2>1. parts' = [parts EXCEPT ![m] = {}]
    BY <1>15 DEF Process, set
  <2>2. /\ parts' \in [Msgs -> SUBSET Entries] /\ PartsKnown'
        /\ InSets \subseteq InSets' \cup {PartOf(m, e) : e \in parts[m]}
    <3>1. {} \in SUBSET Entries
      OBVIOUS
    <3>2. \A e \in {} : e.index # NoSlot => HoldsNext(e.index, {PartOf(m, e)})
      OBVIOUS
    <3> QED BY <1>12, <2>1, <3>1, <3>2
  <2>3. InSets \subseteq InSets' \cup TextParts(text) /\ p \in TextParts(text)
    BY <1>6, <1>7, <2>2
  <2>4. CASE Publish(text, indices, below) /\ NoFault
    <3>1. /\ seen' \in Seq(Texts) /\ pending' \in SUBSET Records /\ jobs' = jobs
          /\ safe \subseteq safe' /\ PendingKnown'
          /\ \E D \in SUBSET Slots : stack' = Then(below, D) /\ (\A j \in D : Holds(j, safe)')
          /\ InHub \cup safe \subseteq (InHub \cup safe)'
          /\ SeenHeld => SeenHeld' /\ TextParts(text) \subseteq (InHub \cup safe)'
      BY <1>7, <1>8, <2>4, PublishStep
    <3>2. SlotsKept /\ save_failures' = save_failures
      BY <1>3, <2>4, <3>1 DEF NoFault, faultVars
    <3>3. PICK D \in SUBSET Slots : stack' = Then(below, D) /\ (\A j \in D : Holds(j, safe)')
      BY <3>1
    <3>4. D \subseteq used' /\ \A j \in D, x \in AllParts : slots[j] = x => Settled(x)'
      BY <3>3, PartFacts DEF Holds, Settled, Quiet
    <3>5. AtRisk' \subseteq AtRisk
      <4>1. UNCHANGED <<cfg, slots>> /\ Doomed(stack') \subseteq Doomed(stack) \cup D
        BY <1>11, <3>3 DEF Quiet
      <4> QED BY <3>2, <3>4, <4>1, RiskLocal
    <3>6. Accounted'
      BY <1>1, <3>2, <3>5, AccountedKept
    <3>7. SeenHeld => Held \subseteq Held' /\ p \in Held'
      BY <2>3, <3>1 DEF Held
    <3> QED BY <1>1, <2>2, <3>1, <3>2, <3>3, <3>4, <3>6, <3>7
  <2>5. CASE PublishFails(text) /\ stack' = Then(below, slot)
    <3>1. /\ seen' \in Seq(Texts) /\ UNCHANGED <<pending, jobs, safe>> /\ PendingKnown'
          /\ save_failures' = save_failures + 1 /\ save_failures' \in Nat /\ save_failures' > 0
      BY <1>7, <2>5, FailStep
    <3>2. SlotsKept
      BY <1>3, <3>1
    <3>3. AtRisk' \subseteq AtRisk \cup {p}
      <4> SUFFICES ASSUME NEW x \in AtRisk', x # p PROVE x \in AtRisk
        OBVIOUS
      <4>1. /\ x \in arrived' \ direct' /\ Deliverable(x) /\ x \notin safe \cup exposed
            /\ x \notin exposed' /\ \A j \in Slots \ Doomed(stack') : slots[j] # x
        BY <3>1 DEF AtRisk, Deliverable, Quiet
      <4>2. x \in AllParts /\ \A j \in slot : slots[j] # x
        BY <1>9, <4>1, PartFacts DEF HoldsNext, Quiet
      <4>3. Doomed(stack') \subseteq Doomed(stack) \cup slot
        BY <1>9, <1>11, <2>5
      <4> QED BY <4>1, <4>2, <4>3 DEF AtRisk
    <3>4. Accounted'
      BY <1>1, <3>1, <3>3, AccountedKept
    <3>5. \E D \in SUBSET Slots : stack' = Then(below, D) /\ D \subseteq used'
      BY <1>9, <2>5
    <3> QED BY <1>1, <2>2, <3>1, <3>2, <3>4, <3>5
  <2> QED BY <1>15, <2>4, <2>5 DEF Process, set, text, indices
<1> QED BY <1>13, <1>14, <1>15
-----------------------------------------------------------------------------
\* Directly delivered parts stay held while no save fails.
LEMMA TakenKept ==
    ASSUME TakenHeld, cfg' = cfg,
           \/ save_failures' > 0
           \/ /\ save_failures' = save_failures
              /\ SeenHeld => /\ SeenHeld' /\ Held \subseteq Held'
                             /\ \A p \in taken' \ taken : Deliverable(p) => p \in Held'
    PROVE  TakenHeld'
<1>1. CASE save_failures' > 0
  BY <1>1 DEF TakenHeld
<1>2. CASE save_failures' = save_failures /\ ~(save_failures > 0)
  <2>1. /\ {p \in taken : Deliverable(p)} \subseteq Held /\ SeenHeld /\ SeenHeld'
        /\ Held \subseteq Held' /\ \A p \in taken' \ taken : Deliverable(p) => p \in Held'
    BY <1>2 DEF TakenHeld
  <2>2. {p \in taken' : Deliverable(p)'} \subseteq Held'
    BY <2>1 DEF Deliverable
  <2> QED BY <2>1, <2>2 DEF TakenHeld
<1> QED BY <1>1, <1>2

\* The sets of a flush stay, or the serve loop has ended and they are dropped.
Dropping == stale' = None /\ dropped' = dropped \cup PartsOf(stale)

LEMMA StaleKept ==
    ASSUME StaleKnown, cfg' = cfg, stack # <<>> \/ stale = None \/ cfg.store \/ UNCHANGED stack,
           \/ UNCHANGED flushVars /\ (link' \in {link, "up"} \/ stale = None)
           \/ Dropping /\ (stack # <<>> \/ stale = None \/ cfg.store)
    PROVE  StaleKnown'
<1>1. CASE UNCHANGED flushVars /\ (link' \in {link, "up"} \/ stale = None)
  BY <1>1 DEF StaleKnown, flushVars
<1>2. CASE Dropping /\ (stack # <<>> \/ stale = None \/ cfg.store)
  <2>1. PartsOf(None) = {}
    BY DEF PartsOf, None
  <2>2. None' = None
    BY DEF None
  <2> QED BY <1>2, <2>1, <2>2 DEF StaleKnown, Dropping
<1> QED BY <1>1, <1>2

\* A step that publishes nothing and changes nothing on the SIM.
LEMMA LineStep ==
    ASSUME Inv, Quiet, UNCHANGED <<taken, publishVars, save_failures>>,
           arrived' \in SUBSET AllParts, arrived' \ direct' \subseteq arrived \ direct,
           line' \in Seq(Lines), stack' \in Seq(Frames), CallsKnown', used' \in SUBSET Slots,
           Doomed(stack') \subseteq Doomed(stack), StaleKnown', UNCHANGED flushVars \/ Dropping
    PROVE  Inv'
<1>1. /\ slots \in [Slots -> AllParts \cup {Empty}] /\ parts \in [Msgs -> SUBSET Entries]
      /\ stale \in [Msgs -> SUBSET Entries] /\ seen \in Seq(Texts) /\ pending \in SUBSET Records
      /\ jobs \in Seq(SUBSET Slots) /\ taken \in SUBSET AllParts /\ save_failures \in Nat
      /\ cfg \in Configs
  BY DEF Inv, Types
<1>2. UNCHANGED <<cfg, slots, parts, seen, pending, jobs, safe, taken, save_failures>>
  BY DEF Quiet, publishVars, hubVars
<1>3. SlotsKept
  BY <1>2, QuietKeeps
<1>4. UNCHANGED stale \/ stale' = None
  BY DEF flushVars, Dropping
<1>5. PartsKnown' /\ PendingKnown' /\ JobsKnown'
  BY <1>2, <1>3, <1>4, KnownKept DEF Inv
<1>6. AtRisk' \subseteq AtRisk
  <2> DEFINE D == {}
  <2>1. Doomed(stack') \subseteq Doomed(stack) \cup D /\ \A i \in D, p \in AllParts : slots[i] = p => Settled(p)'
    OBVIOUS
  <2> HIDE DEF D
  <2> QED BY <1>2, <1>3, <2>1, RiskLocal
<1>7. Accounted'
  BY <1>1, <1>2, <1>6, AccountedKept DEF Inv
<1>8. InSets \subseteq InSets' /\ InHub' = InHub /\ SeenHeld' = SeenHeld
  BY <1>2 DEF InSets, InHub, SeenHeld, flushVars, Dropping
<1>9. Held \subseteq Held'
  BY <1>2, <1>8 DEF Held
<1>10. TakenHeld'
  BY <1>2, <1>8, <1>9, TakenKept DEF Inv
<1>11. UsedKnown'
  BY <1>2 DEF Inv, UsedKnown, Quiet
<1>12. stale' \in [Msgs -> SUBSET Entries]
  BY <1>1, <1>4 DEF None
<1>13. Types'
  BY <1>1, <1>2, <1>12 DEF Types
<1> QED BY <1>5, <1>7, <1>10, <1>11, <1>13 DEF Inv

\* The modem shows the slots as they are.
LEMMA ListedIs ==
    ASSUME Types, UsedKnown, NEW S \in SUBSET Occupied, NEW q \in Ascending(S)
    PROVE  Listed(q) \in Seq(Finds) /\ \A e \in Range(Listed(q)) : Good(e)
<1> DEFINE n == Cardinality(S)
<1>1. \A i \in S : i \in Slots /\ slots[i] \in AllParts /\ i \in used
  BY DEF Occupied, Types, UsedKnown
<1>2. IsFiniteSet(S)
  BY <1>1, InboundAssumption, FS_Subset
<1>3. q \in [1 .. n -> S] /\ n \in Nat
  BY <1>2, FS_CardinalityType DEF Ascending
<1> HIDE DEF n
<1>4. Listed(q) = [k \in 1 .. n |-> [index |-> q[k], part |-> slots[q[k]]]]
  BY <1>3 DEF Listed
<1>5. \A k \in 1 .. n : [index |-> q[k], part |-> slots[q[k]]] \in Finds
  BY <1>1, <1>3 DEF Finds, Indices
<1>6. Listed(q) \in [1 .. n -> Finds]
  BY <1>4, <1>5
<1>7. Listed(q) \in Seq(Finds)
  BY <1>3, <1>6, SeqDef
<1>8. \A e \in Range(Listed(q)) : \E k \in 1 .. n : e = [index |-> q[k], part |-> slots[q[k]]]
  BY <1>4 DEF Range
<1>9. \A e \in Range(Listed(q)) : e.index \in S /\ e.part = slots[e.index]
  BY <1>3, <1>8
<1> QED BY <1>1, <1>7, <1>9 DEF Good, Holds

\* at.py execute: the modem answers with what is in the slots, and deletes at
\* most a slot that was to be deleted.
LEMMA ExecuteStep ==
    ASSUME Inv, NEW kind \in Commands, NEW i \in Indices, kind = "CMGR" => i \in Slots,
           kind = "CMGD" => i \in Doomed(stack),
           NEW below \in Seq(Frames), Doomed(below) \subseteq Doomed(stack),
           \A f \in Range(below) : FrameKnown(f),
           NEW rest \in Seq(Lines), Range(rest) \subseteq Range(line),
           Execute(Frame(kind, i), below, rest),
           UNCHANGED <<cfg, arrived, direct, taken, flushVars, publishVars>>,
           stack # <<>> \/ stale = None, link' \in {link, "up"}
    PROVE  Inv'
<1> DEFINE f == Frame(kind, i)
<1>1. /\ slots \in [Slots -> AllParts \cup {Empty}] /\ parts \in [Msgs -> SUBSET Entries]
      /\ stale \in [Msgs -> SUBSET Entries] /\ seen \in Seq(Texts) /\ pending \in SUBSET Records
      /\ jobs \in Seq(SUBSET Slots) /\ taken \in SUBSET AllParts /\ save_failures \in Nat
      /\ cfg \in Configs /\ used \in SUBSET Slots /\ arrived \in SUBSET AllParts
  BY DEF Inv, Types
<1>2. /\ f \in Frames /\ f.kind = kind /\ f.index = i /\ f.entries = <<>> /\ f.indices = {}
  BY FrameFacts
<1>3. kind # "entries" /\ kind # "sweep" /\ kind \notin {"+CMTI", "pdu"}
  BY DEF Commands
<1>4. FrameKnown(f)'
  <2> HIDE DEF f
  <2> QED BY <1>2, <1>3, BareKnown
<1> HIDE DEF f
<1>5. /\ stack' = Append(below, f) /\ UNCHANGED <<used, exposed>>
      /\ Performed(f, rest) \/ NotPerformed(f, rest)
  BY DEF Execute, f
<1>6. UNCHANGED <<parts, seen, pending, jobs, safe, stale, dropped, save_failures>>
  <2>1. save_failures' = save_failures
    BY <1>5 DEF Performed, NotPerformed, NoFault, Fault, faultVars
  <2> QED BY <2>1 DEF publishVars, hubVars, flushVars
<1>7. /\ slots' \in [Slots -> AllParts \cup {Empty}]
      /\ \A j \in Slots : slots'[j] = slots[j] \/ (slots'[j] = Empty /\ j \in Doomed(stack))
  <2>1. CASE Performed(f, rest)
    <3>1. slots' = [j \in Slots |-> IF f.kind = "CMGD" /\ f.index = j THEN Empty ELSE slots[j]]
      BY <2>1 DEF Performed
    <3> QED BY <1>1, <1>2, <3>1
  <2>2. CASE NotPerformed(f, rest)
    BY <1>1, <2>2 DEF NotPerformed
  <2> QED BY <1>5, <2>1, <2>2
<1>8. SlotsKept
  BY <1>1, <1>5, <1>6, <1>7 DEF SlotsKept
<1>9. line' = rest \/ \E l \in Lines : LineKnown(l) /\ line' = Append(rest, l)
  <2>1. CASE Performed(f, rest)
    <3>1. PICK q \in Ascending(Shown(f)) :
             line' = Append(rest, Line(f.kind, f.kind = "CMGR" => q # <<>>, Listed(q),
                                       IF f.kind = "CPMS" THEN Cardinality(Occupied) ELSE 0))
      BY <2>1 DEF Performed
    <3>2. Shown(f) \subseteq Occupied
      BY DEF Shown
    <3>3. Listed(q) \in Seq(Finds) /\ \A e \in Range(Listed(q)) : Good(e)
      BY <3>2, ListedIs DEF Inv
    <3>4. IsFiniteSet(Occupied)
      BY InboundAssumption, FS_Subset DEF Occupied
    <3>5. (IF f.kind = "CPMS" THEN Cardinality(Occupied) ELSE 0) \in Int
      BY <3>4, FS_CardinalityType
    <3>6. ASSUME NEW ok \in BOOLEAN, NEW n \in Int, NEW found \in Seq(Finds), \A e \in Range(found) : Good(e)
          PROVE  Line(f.kind, ok, found, n) \in Lines /\ LineKnown(Line(f.kind, ok, found, n))
      BY <1>2, <1>3, <3>6 DEF Line, Lines, LineKnown
    <3>7. (f.kind = "CMGR" => q # <<>>) \in BOOLEAN
      OBVIOUS
    <3> QED BY <3>1, <3>3, <3>5, <3>6, <3>7
  <2>2. CASE NotPerformed(f, rest)
    <3>1. line' = rest \/ line' = Append(rest, Line(f.kind, FALSE, <<>>, 0))
      BY <2>2 DEF NotPerformed
    <3>2. <<>> \in Seq(Finds) /\ Range(<<>>) = {}
      BY EmptyRange
    <3>3. Line(f.kind, FALSE, <<>>, 0) \in Lines /\ LineKnown(Line(f.kind, FALSE, <<>>, 0))
      BY <1>2, <1>3, <3>2 DEF Line, Lines, LineKnown
    <3> QED BY <3>1, <3>3
  <2> QED BY <1>5, <2>1, <2>2
<1>10. line' \in Seq(Lines) /\ \A l \in Range(line') : l \in Range(line) \/ LineKnown(l)'
  <2>1. \A l : LineKnown(l) => LineKnown(l)'
    BY <1>8, HoldsKept
  <2>2. CASE line' = rest
    BY <2>2
  <2>3. ASSUME NEW l \in Lines, LineKnown(l), line' = Append(rest, l)
        PROVE  line' \in Seq(Lines) /\ \A x \in Range(line') : x \in Range(line) \/ LineKnown(x)'
    <3>1. line' \in Seq(Lines) /\ Range(line') = Range(rest) \cup {l}
      BY <2>3, AppendRange
    <3> QED BY <2>1, <2>3, <3>1
  <2> QED BY <1>9, <2>2, <2>3
<1>11. /\ stack' \in Seq(Frames) /\ Range(stack') = Range(below) \cup {f}
  BY <1>2, <1>5, AppendRange
<1>12. \A g \in Range(below) \cup {f} : FrameKnown(g)'
  <2>1. \A g \in Range(below) : FrameKnown(g)'
    BY <1>8, HoldsKept
  <2> QED BY <1>4, <2>1 DEF f
<1>13. CallsKnown'
  BY <1>8, <1>10, <1>11, <1>12, CallsKept DEF Inv
<1>14. Doomed(stack') \subseteq Doomed(stack)
  BY <1>2, <1>11 DEF Doomed
<1>15. PartsKnown' /\ PendingKnown' /\ JobsKnown'
  BY <1>6, <1>8, KnownKept DEF Inv
<1>16. AtRisk' \subseteq AtRisk
  BY <1>5, <1>6, <1>7, <1>14 DEF AtRisk, Deliverable
<1>17. Accounted'
  BY <1>1, <1>6, <1>16, AccountedKept DEF Inv
<1>18. TakenHeld'
  <2>1. Held' = Held /\ SeenHeld' = SeenHeld
    BY <1>6 DEF Held, InSets, InHub, SeenHeld
  <2> QED BY <1>6, <2>1, TakenKept DEF Inv
<1>19. StaleKnown'
  BY StaleKept DEF Inv
<1>20. UsedKnown'
  BY <1>5, <1>7, <1>14 DEF Inv, UsedKnown
<1>21. Types'
  BY <1>1, <1>5, <1>6, <1>7, <1>10, <1>11 DEF Types
<1> QED BY <1>13, <1>15, <1>17, <1>18, <1>19, <1>20, <1>21 DEF Inv
-----------------------------------------------------------------------------
\* The line that is read, and the innermost frame, are known to be right.
LEMMA ReadFacts ==
    ASSUME Types, CallsKnown, line # <<>>
    PROVE  /\ Tail(line) \in Seq(Lines) /\ Range(Tail(line)) \subseteq Range(line)
           /\ Head(line) \in Lines /\ LineKnown(Head(line))
<1>1. line \in Seq(Lines)
  BY DEF Types
<1> QED BY <1>1, HeadRange DEF CallsKnown

LEMMA OuterFacts ==
    ASSUME Types, CallsKnown, stack # <<>>
    PROVE  /\ Outer \in Seq(Frames) /\ Range(Outer) \subseteq Range(stack)
           /\ Doomed(Outer) \subseteq Doomed(stack)
           /\ Top \in Frames /\ Top \in Range(stack) /\ FrameKnown(Top)
           /\ Top.indices \subseteq Doomed(stack)
           /\ \A f \in Range(Outer) : FrameKnown(f)
<1>1. stack \in Seq(Frames)
  BY DEF Types
<1>2. /\ Outer \in Seq(Frames) /\ Range(Outer) \subseteq Range(stack)
      /\ Top \in Frames /\ Top \in Range(stack)
  BY <1>1, LastRange DEF Outer, Top
<1>3. \A f \in Range(stack) : FrameKnown(f)
  BY DEF CallsKnown
<1>4. Doomed(Outer) \subseteq Doomed(stack) /\ Top.indices \subseteq Doomed(stack)
  BY <1>2 DEF Doomed
<1> QED BY <1>2, <1>3, <1>4

\* A stack with one more frame that is known to be right.
LEMMA PushFacts ==
    ASSUME NEW s \in Seq(Frames), \A f \in Range(s) : FrameKnown(f), NEW g \in Frames, FrameKnown(g)
    PROVE  /\ Append(s, g) \in Seq(Frames) /\ Doomed(Append(s, g)) = Doomed(s) \cup g.indices
           /\ \A f \in Range(Append(s, g)) : FrameKnown(f)
<1>1. Append(s, g) \in Seq(Frames) /\ Range(Append(s, g)) = Range(s) \cup {g}
  BY AppendRange
<1>2. Doomed(Append(s, g)) = Doomed(s) \cup g.indices
  BY <1>1 DEF Doomed
<1> QED BY <1>1, <1>2

\* A sweep that has found one more message keeps no other index.
LEMMA FoundFacts ==
    ASSUME NEW s \in Seq(Frames), \A f \in Range(s) : FrameKnown(f)
    PROVE  /\ Found(s) \in Seq(Frames) /\ Doomed(Found(s)) \subseteq Doomed(s)
           /\ \A f \in Range(Found(s)) : FrameKnown(f)
<1>1. CASE s = <<>> \/ Last(s).kind # "sweep"
  BY <1>1 DEF Found
<1>2. CASE s # <<>> /\ Last(s).kind = "sweep"
  <2>1. /\ Last(s) \in Frames /\ Last(s) \in Range(s) /\ Front(s) \in Seq(Frames)
        /\ Range(Front(s)) \subseteq Range(s)
    BY <1>2, LastRange
  <2>2. CASE Last(s).quota = 1
    <3>1. Found(s) = Front(s)
      BY <1>2, <2>2 DEF Found
    <3>2. Doomed(Front(s)) \subseteq Doomed(s)
      BY <2>1 DEF Doomed
    <3> QED BY <2>1, <3>1, <3>2
  <2>3. CASE Last(s).quota # 1
    <3> DEFINE g == Sweep(Last(s).index, Last(s).quota - 1)
    <3>1. Found(s) = Append(Front(s), g)
      BY <1>2, <2>3 DEF Found
    <3>2. Last(s).index \in Slots /\ Last(s).quota - 1 \in Int
      <4>1. PICK f : f = Last(s)
        OBVIOUS
      <4>2. f \in Frames /\ FrameKnown(f) /\ f.kind = "sweep"
        BY <1>2, <2>1, <4>1
      <4>3. f.index \in Slots /\ f.quota - 1 \in Int
        BY <4>2 DEF FrameKnown, Frames
      <4> QED BY <4>1, <4>3
    <3>3. g \in Frames /\ g.kind = "sweep" /\ g.index \in Slots /\ g.entries = <<>> /\ g.indices = {}
      BY <3>2, FrameFacts
    <3> HIDE DEF g
    <3>4. FrameKnown(g)
      BY <3>3, BareKnown
    <3>5. /\ Append(Front(s), g) \in Seq(Frames) /\ Range(Append(Front(s), g)) = Range(Front(s)) \cup {g}
      BY <2>1, <3>3, AppendRange
    <3>6. Doomed(Found(s)) \subseteq Doomed(s)
      BY <2>1, <3>1, <3>3, <3>5 DEF Doomed
    <3> QED BY <2>1, <3>1, <3>4, <3>5, <3>6
  <2> QED BY <2>2, <2>3
<1> QED BY <1>1, <1>2

\* The worker reads a line or gives something up, and changes nothing else.
LEMMA WorkerStep ==
    ASSUME Inv, UNCHANGED <<cfg, slots, used, exposed, arrived, direct, taken, publishVars, save_failures>>,
           line' \in Seq(Lines), Range(line') \subseteq Range(line),
           NEW s \in Seq(Frames), stack' = s, Doomed(s) \subseteq Doomed(stack),
           \A f \in Range(s) : FrameKnown(f), stack # <<>> \/ stale = None,
           \/ UNCHANGED flushVars /\ (link' \in {link, "up"} \/ stale = None)
           \/ Dropping
    PROVE  Inv'
<1>1. Quiet /\ safe' = safe
  BY DEF Quiet, publishVars
<1>2. SlotsKept
  BY <1>1, QuietKeeps
<1>3. \A f \in Range(s) : FrameKnown(f)'
  BY <1>2, HoldsKept
<1>4. CallsKnown'
  BY <1>2, <1>3, CallsKept DEF Inv
<1>5. StaleKnown'
  BY StaleKept DEF Inv
<1>6. used \in SUBSET Slots /\ arrived \in SUBSET AllParts
  BY DEF Inv, Types
<1> QED BY <1>1, <1>4, <1>5, <1>6, LineStep

\* The worker processes a part.
LEMMA ProcessInv ==
    ASSUME Inv, Quiet, UNCHANGED <<flushVars, arrived, direct, link>>,
           NEW p \in AllParts, NEW i \in Indices, i # NoSlot => HoldsNext(i, {p}),
           NEW below \in Seq(Frames), Doomed(below) \subseteq Doomed(stack),
           \A f \in Range(below) : FrameKnown(f), Process(p, i, below),
           line' \in Seq(Lines), Range(line') \subseteq Range(line), used' \in SUBSET Slots,
           taken' \in SUBSET AllParts, taken' \subseteq taken \cup {p}, stack # <<>> \/ stale = None
    PROVE  Inv'
<1>1. cfg \in Configs /\ stale \in [Msgs -> SUBSET Entries] /\ arrived \in SUBSET AllParts
      /\ slots \in [Slots -> AllParts \cup {Empty}] /\ jobs \in Seq(SUBSET Slots)
  BY DEF Inv, Types
<1>2. /\ parts' \in [Msgs -> SUBSET Entries] /\ seen' \in Seq(Texts)
      /\ pending' \in SUBSET Records /\ save_failures' \in Nat
      /\ jobs' = jobs /\ SlotsKept
      /\ \E D \in SUBSET Slots : stack' = Then(below, D) /\ D \subseteq used'
      /\ PartsKnown' /\ PendingKnown' /\ Accounted'
      /\ \/ save_failures' > 0
         \/ /\ save_failures' = save_failures
            /\ SeenHeld => SeenHeld' /\ Held \subseteq Held' /\ (Deliverable(p) => p \in Held')
  BY <1>1, ProcessStep DEF Inv
<1>3. PICK D \in SUBSET Slots : stack' = Then(below, D) /\ D \subseteq used'
  BY <1>2
<1>4. /\ stack' \in Seq(Frames) /\ Range(stack') \subseteq Range(below) \cup {Deletes(D)}
      /\ Doomed(stack') = Doomed(below) \cup D
  BY <1>3, ThenFacts
<1>5. \A f \in Range(stack') : FrameKnown(f)'
  <2>1. \A f \in Range(below) : FrameKnown(f)'
    BY <1>2, HoldsKept
  <2>2. PICK g : g = Deletes(D)
    OBVIOUS
  <2>3. FrameKnown(g)'
    BY <2>2, FrameFacts, BareKnown
  <2> QED BY <1>4, <2>1, <2>2, <2>3
<1>6. CallsKnown'
  BY <1>2, <1>5, CallsKept DEF Inv
<1>7. JobsKnown'
  BY <1>2, KnownKept DEF Inv
<1>8. UsedKnown'
  BY <1>2, <1>3, <1>4 DEF Inv, UsedKnown, Quiet
<1>9. StaleKnown'
  BY StaleKept DEF Inv, Quiet
<1>10. TakenHeld'
  BY <1>2, TakenKept DEF Inv, Quiet
<1>11. Types'
  BY <1>1, <1>2, <1>4 DEF Types, Quiet, flushVars
<1> QED BY <1>2, <1>6, <1>7, <1>8, <1>9, <1>10, <1>11 DEF Inv

\* A text is published outside _process_pdu: an entry in text mode or a stale set.
LEMMA PublishInv ==
    ASSUME Inv, UNCHANGED <<cfg, slots, used, exposed, line, link, arrived, direct, taken, parts, dropped,
                            save_failures>>,
           NEW text \in Texts, NEW indices \in SUBSET Slots,
           \A i \in indices : Holds(i, TextParts(text)),
           NEW below \in Seq(Frames), Doomed(below) \subseteq Doomed(stack),
           \A f \in Range(below) : FrameKnown(f), Publish(text, indices, below),
           stale' \in [Msgs -> SUBSET Entries], PartsKnown',
           InSets \subseteq InSets' \cup TextParts(text),
           \/ stack # <<>> /\ UNCHANGED stale
           \/ stack = <<>> /\ below = <<>> /\ (stale' # None => stale # None)
    PROVE  Inv'
<1>1. /\ cfg \in Configs /\ arrived \in SUBSET AllParts /\ slots \in [Slots -> AllParts \cup {Empty}]
      /\ jobs \in Seq(SUBSET Slots) /\ save_failures \in Nat /\ taken \in SUBSET AllParts
      /\ line \in Seq(Lines) /\ used \in SUBSET Slots /\ parts \in [Msgs -> SUBSET Entries]
  BY DEF Inv, Types
<1>2. Quiet /\ \A i \in indices : HoldsNext(i, TextParts(text))
  BY DEF Quiet, Holds, HoldsNext
<1>3. /\ seen' \in Seq(Texts) /\ pending' \in SUBSET Records /\ jobs' = jobs
      /\ safe \subseteq safe' /\ PendingKnown'
      /\ \E D \in SUBSET Slots : /\ stack' = Then(below, D) /\ (\A i \in D : Holds(i, safe)')
                                 /\ D = {} \/ cfg.store
      /\ InHub \cup safe \subseteq (InHub \cup safe)'
      /\ SeenHeld => SeenHeld' /\ TextParts(text) \subseteq (InHub \cup safe)'
  BY <1>2, PublishStep DEF Inv
<1>4. SlotsKept
  BY <1>2, <1>3, QuietKeeps
<1>5. PICK D \in SUBSET Slots : /\ stack' = Then(below, D) /\ (\A i \in D : Holds(i, safe)')
                                /\ D = {} \/ cfg.store
  BY <1>3
<1>6. /\ stack' \in Seq(Frames) /\ Range(stack') \subseteq Range(below) \cup {Deletes(D)}
      /\ Doomed(stack') = Doomed(below) \cup D
  BY <1>5, ThenFacts
<1>7. \A f \in Range(stack') : FrameKnown(f)'
  <2>1. \A f \in Range(below) : FrameKnown(f)'
    BY <1>4, HoldsKept
  <2>2. PICK g : g = Deletes(D)
    OBVIOUS
  <2>3. FrameKnown(g)'
    BY <2>2, FrameFacts, BareKnown
  <2> QED BY <1>6, <2>1, <2>2, <2>3
<1>8. CallsKnown'
  BY <1>4, <1>7, CallsKept DEF Inv
<1>9. JobsKnown'
  BY <1>3, <1>4, KnownKept DEF Inv
<1>10. D \subseteq used' /\ \A i \in D, x \in AllParts : slots[i] = x => Settled(x)'
  BY <1>5, PartFacts DEF Holds, Settled
<1>11. AtRisk' \subseteq AtRisk
  BY <1>1, <1>4, <1>6, <1>10, RiskLocal
<1>12. Accounted'
  BY <1>1, <1>11, AccountedKept DEF Inv
<1>13. SeenHeld => SeenHeld' /\ Held \subseteq Held'
  BY <1>3 DEF Held
<1>14. TakenHeld'
  BY <1>13, TakenKept DEF Inv
<1>15. UsedKnown'
  BY <1>6, <1>10 DEF Inv, UsedKnown
<1>16. StaleKnown'
  <2>1. CASE stack # <<>> /\ UNCHANGED stale
    BY <2>1, StaleKept DEF Inv, flushVars
  <2>2. CASE stack = <<>> /\ below = <<>> /\ (stale' # None => stale # None)
    <3>1. cfg.store \/ stack' = <<>>
      BY <1>5, <2>2 DEF Then
    <3> QED BY <2>2, <3>1 DEF Inv, StaleKnown
  <2> QED BY <2>1, <2>2
<1>17. Types'
  BY <1>1, <1>3, <1>6 DEF Types
<1> QED BY <1>3, <1>8, <1>9, <1>12, <1>14, <1>15, <1>16, <1>17 DEF Inv

\* Saving such a text fails, which ends what the worker was doing.
LEMMA FailInv ==
    ASSUME Inv, UNCHANGED <<cfg, slots, used, exposed, arrived, direct, taken, parts>>,
           NEW text \in Texts, PublishFails(text), stack' = <<>>, line' \in {line, <<>>},
           (UNCHANGED flushVars /\ link' = link) \/ Dropping
    PROVE  Inv'
<1>1. /\ cfg \in Configs /\ arrived \in SUBSET AllParts /\ slots \in [Slots -> AllParts \cup {Empty}]
      /\ jobs \in Seq(SUBSET Slots) /\ save_failures \in Nat /\ taken \in SUBSET AllParts
      /\ line \in Seq(Lines) /\ used \in SUBSET Slots /\ parts \in [Msgs -> SUBSET Entries]
      /\ stale \in [Msgs -> SUBSET Entries] /\ pending \in SUBSET Records
  BY DEF Inv, Types
<1>2. Quiet
  BY DEF Quiet
<1>3. /\ seen' \in Seq(Texts) /\ UNCHANGED <<pending, jobs, safe>> /\ cfg.store /\ PendingKnown'
      /\ save_failures' = save_failures + 1 /\ save_failures' \in Nat /\ save_failures' > 0
  BY <1>2, FailStep DEF Inv
<1>4. SlotsKept
  BY <1>2, <1>3, QuietKeeps
<1>5. /\ <<>> \in Seq(Lines) /\ <<>> \in Seq(Frames) /\ Range(<<>>) = {} /\ Doomed(<<>>) = {}
  BY EmptyRange DEF Doomed
<1>6. CallsKnown'
  BY <1>4, <1>5, CallsKept DEF Inv
<1>7. stale' \in {stale, None}
  BY DEF flushVars, Dropping
<1>8. PartsKnown' /\ JobsKnown'
  BY <1>3, <1>4, <1>7, KnownKept DEF Inv
<1>9. AtRisk' \subseteq AtRisk \cup {Empty}
  BY <1>3, <1>5 DEF AtRisk, Deliverable
<1>10. Accounted'
  BY <1>1, <1>3, <1>9, AccountedKept DEF Inv
<1>11. TakenHeld'
  BY <1>3 DEF TakenHeld
<1>12. StaleKnown'
  BY <1>3, StaleKept DEF Inv
<1>13. UsedKnown'
  BY <1>5 DEF Inv, UsedKnown
<1>14. Types'
  <2>1. stale' \in [Msgs -> SUBSET Entries] /\ line' \in Seq(Lines)
    BY <1>1, <1>5, <1>7 DEF None
  <2> QED BY <1>1, <1>3, <1>5, <2>1 DEF Types
<1> QED BY <1>3, <1>6, <1>8, <1>10, <1>11, <1>12, <1>13, <1>14 DEF Inv

\* An answer ends the innermost call (worker._read_index, _scan_stored, ...).
LEMMA AnswerStep == ASSUME Inv, Answer PROVE Inv'
<1>1. /\ stack # <<>> /\ line # <<>> /\ line' = Tail(line) /\ cfg' = cfg /\ link' = link
      /\ UNCHANGED <<flushVars, arrived, direct, taken>>
  BY DEF Answer, CallAnswered, CmgrAnswered, CmglAnswered, CpmsAnswered, Answered, On, ReadLine,
         netVars, workerVars, directVars
<1>2. Types /\ CallsKnown
  BY DEF Inv
<1>3. /\ line' \in Seq(Lines) /\ Range(line') \subseteq Range(line)
      /\ Head(line) \in Lines /\ LineKnown(Head(line))
  BY <1>1, <1>2, ReadFacts
<1>4. /\ Outer \in Seq(Frames) /\ Doomed(Outer) \subseteq Doomed(stack)
      /\ Top \in Frames /\ FrameKnown(Top) /\ \A f \in Range(Outer) : FrameKnown(f)
  BY <1>1, <1>2, OuterFacts
<1>5. cfg \in Configs /\ used \in SUBSET Slots /\ taken \in SUBSET AllParts
      /\ slots \in [Slots -> AllParts \cup {Empty}]
  BY <1>2 DEF Types
<1>6. ASSUME UNCHANGED <<slotVars, publishVars, faultVars>>,
             NEW s \in Seq(Frames), stack' = s, Doomed(s) \subseteq Doomed(stack),
             \A f \in Range(s) : FrameKnown(f)
      PROVE  Inv'
  <2>1. UNCHANGED <<cfg, slots, used, exposed, arrived, direct, taken, publishVars, save_failures>>
    BY <1>1, <1>6 DEF slotVars, faultVars
  <2> QED BY <1>1, <1>3, <1>6, <2>1, WorkerStep
<1>7. ASSUME UNCHANGED <<slotVars, publishVars, faultVars>>,
             NEW g \in Frames, FrameKnown(g), g.indices = {}, stack' = Append(Outer, g)
      PROVE  Inv'
  <2>1. /\ Append(Outer, g) \in Seq(Frames) /\ Doomed(Append(Outer, g)) = Doomed(Outer) \cup g.indices
        /\ \A f \in Range(Append(Outer, g)) : FrameKnown(f)
    BY <1>4, <1>7, PushFacts
  <2> QED BY <1>4, <1>6, <1>7, <2>1
<1>8. CASE CallAnswered
  BY <1>4, <1>6, <1>8 DEF CallAnswered
<1>9. CASE CmgrAnswered
  <2>1. CASE Head(line).kind = "CMGR" /\ Head(line).found # <<>>
    <3>1. PICK e, i, below : e = Head(line).found[1] /\ i = Top.index /\ below = Found(Outer)
      OBVIOUS
    <3>2. /\ Filed(e, i) /\ Process(e.part, i, below)
      BY <1>9, <2>1, <3>1 DEF CmgrAnswered
    <3>3. e \in Finds /\ Good(e)
      <4>1. Head(line).found \in Seq(Finds) /\ \A x \in Range(Head(line).found) : Good(x)
        BY <1>3, <2>1 DEF Lines, LineKnown
      <4> QED BY <2>1, <3>1, <4>1, HeadRange
    <3>4. i \in Slots
      BY <1>4, <1>9, <3>1 DEF CmgrAnswered, Answered, On, FrameKnown
    <3>5. /\ below \in Seq(Frames) /\ Doomed(below) \subseteq Doomed(stack)
          /\ \A f \in Range(below) : FrameKnown(f)
      BY <1>4, <3>1, FoundFacts
    <3>6. Quiet /\ used' \in SUBSET Slots
      BY <1>1, <1>5, <3>2, <3>4 DEF Filed, Quiet
    <3>7. HoldsNext(i, {e.part})
      BY <3>2, <3>3 DEF Filed, HoldsNext, Good, Holds
    <3>8. e.part \in AllParts /\ i \in Indices
      BY <3>3, <3>4 DEF Finds, Indices
    <3> QED BY <1>1, <1>3, <1>5, <3>2, <3>5, <3>6, <3>7, <3>8, ProcessInv
  <2>2. CASE ~(Head(line).kind = "CMGR" /\ Head(line).found # <<>>)
    BY <1>4, <1>6, <1>9, <2>2 DEF CmgrAnswered
  <2> QED BY <2>1, <2>2
<1>10. CASE CmglAnswered
  <2> DEFINE entries == IF Head(line).kind = "CMGL" THEN Head(line).found ELSE <<>>
  <2>1. /\ UNCHANGED <<slotVars, publishVars, faultVars>>
        /\ \/ entries # <<>> /\ stack' = Append(Outer, Listing(entries))
           \/ stack' = Append(Outer, Frame("sweeping", NoSlot))
           \/ stack' = Outer
    BY <1>10 DEF CmglAnswered
  <2>2. entries # <<>> => entries \in Seq(Finds) /\ \A x \in Range(entries) : Good(x)
    BY <1>3 DEF Lines, LineKnown
  <2> HIDE DEF entries
  <2>3. CASE entries # <<>> /\ stack' = Append(Outer, Listing(entries))
    <3>1. PICK g : g = Listing(entries)
      OBVIOUS
    <3>2. g \in Frames /\ g.kind = "entries" /\ g.entries = entries /\ g.indices = {}
      BY <2>2, <2>3, <3>1, FrameFacts
    <3>3. FrameKnown(g)
      BY <2>2, <2>3, <3>2 DEF FrameKnown
    <3> QED BY <1>7, <2>1, <2>3, <3>1, <3>2, <3>3
  <2>4. CASE stack' = Append(Outer, Frame("sweeping", NoSlot))
    <3>1. PICK g : g = Frame("sweeping", NoSlot)
      OBVIOUS
    <3>2. g \in Frames /\ g.kind = "sweeping" /\ g.entries = <<>> /\ g.indices = {}
      BY <3>1, FrameFacts DEF Indices
    <3>3. FrameKnown(g)
      BY <3>2, BareKnown
    <3> QED BY <1>7, <2>1, <2>4, <3>1, <3>2, <3>3
  <2> QED BY <1>4, <1>6, <2>1, <2>3, <2>4
<1>11. CASE CpmsAnswered
  <2>1. /\ UNCHANGED <<slotVars, publishVars, faultVars>>
        /\ stack' = Append(Outer, Sweep(0, Head(line).n)) \/ stack' = Outer
    BY <1>11 DEF CpmsAnswered
  <2>2. CASE stack' = Append(Outer, Sweep(0, Head(line).n))
    <3>1. PICK g : g = Sweep(0, Head(line).n)
      OBVIOUS
    <3>2. 0 \in Slots /\ Head(line).n \in Int
      BY <1>3, InboundAssumption DEF Lines
    <3>3. g \in Frames /\ g.kind = "sweep" /\ g.index \in Slots /\ g.entries = <<>> /\ g.indices = {}
      BY <3>1, <3>2, FrameFacts
    <3>4. FrameKnown(g)
      BY <3>3, BareKnown
    <3> QED BY <1>7, <2>1, <2>2, <3>1, <3>3, <3>4
  <2> QED BY <1>4, <1>6, <2>1, <2>2
<1> QED BY <1>8, <1>9, <1>10, <1>11 DEF Answer

\* A line that no call waits for: a notification is followed up, a part that is
\* handed over is processed (worker._on_urc).
LEMMA UrcStep == ASSUME Inv, Urc PROVE Inv'
<1>1. /\ line # <<>> /\ cfg' = cfg /\ UNCHANGED <<flushVars, link, arrived, direct>>
      /\ stack # <<>> \/ (stack = <<>> /\ stale = None)
  BY DEF Urc, Notified, Header, AfterHeader, Skipped, Routed, ReadLine, On, AtRest, netVars, workerVars,
         directVars
<1>2. Types /\ CallsKnown
  BY DEF Inv
<1>3. /\ Tail(line) \in Seq(Lines) /\ Range(Tail(line)) \subseteq Range(line)
      /\ Head(line) \in Lines /\ LineKnown(Head(line))
  BY <1>1, <1>2, ReadFacts
<1>4. /\ cfg \in Configs /\ used \in SUBSET Slots /\ taken \in SUBSET AllParts /\ stack \in Seq(Frames)
      /\ \A f \in Range(stack) : FrameKnown(f)
  BY <1>2 DEF Types, CallsKnown
<1>5. CASE Notified
  <2>1. PICK kind, i, below :
           /\ kind = IF cfg.pdu_mode THEN "CMGR" ELSE "CMGL"
           /\ i = IF cfg.pdu_mode THEN Head(line).n ELSE NoSlot
           /\ below = IF AtRest THEN stack ELSE Append(Outer, [Top EXCEPT !.notified = TRUE])
    OBVIOUS
  <2>2. /\ Execute(Frame(kind, i), below, Tail(line))
        /\ UNCHANGED <<cfg, arrived, direct, taken, flushVars, publishVars>>
    <3>1. CASE cfg.pdu_mode
      BY <1>5, <2>1, <3>1 DEF Notified, netVars, directVars
    <3>2. CASE ~cfg.pdu_mode
      BY <1>5, <2>1, <3>2 DEF Notified, netVars, directVars
    <3> QED BY <3>1, <3>2
  <2>3. kind \in {"CMGR", "CMGL"} /\ i \in Indices /\ (kind = "CMGR" => i \in Slots)
    BY <1>3, <1>5, <2>1 DEF Notified, LineKnown, Indices
  <2>4. /\ below \in Seq(Frames) /\ Doomed(below) \subseteq Doomed(stack)
        /\ \A f \in Range(below) : FrameKnown(f)
    <3>1. CASE AtRest
      BY <1>4, <2>1, <3>1
    <3>2. CASE ~AtRest
      <4>1. stack # <<>>
        BY <1>5, <3>2 DEF Notified, On
      <4>2. /\ Outer \in Seq(Frames) /\ Doomed(Outer) \subseteq Doomed(stack)
            /\ Top \in Frames /\ FrameKnown(Top) /\ Top.indices \subseteq Doomed(stack)
            /\ \A f \in Range(Outer) : FrameKnown(f)
        BY <1>2, <4>1, OuterFacts
      <4>3. PICK f, g : f = Top /\ g = [f EXCEPT !.notified = TRUE]
        OBVIOUS
      <4>4. f \in Frames /\ FrameKnown(f) /\ f.indices \subseteq Doomed(stack)
        BY <4>2, <4>3
      <4>5. /\ g \in Frames /\ g.kind = f.kind /\ g.index = f.index /\ g.indices = f.indices
            /\ g.entries = f.entries
        BY <4>3, <4>4 DEF Frames
      <4>6. FrameKnown(g)
        BY <4>4, <4>5 DEF FrameKnown
      <4>7. /\ Append(Outer, g) \in Seq(Frames) /\ Doomed(Append(Outer, g)) = Doomed(Outer) \cup g.indices
            /\ \A x \in Range(Append(Outer, g)) : FrameKnown(x)
        BY <4>2, <4>5, <4>6, PushFacts
      <4>8. below = Append(Outer, g)
        BY <2>1, <3>2, <4>3
      <4> QED BY <4>2, <4>4, <4>5, <4>7, <4>8
    <3> QED BY <3>1, <3>2
  <2>5. kind \in Commands /\ kind # "CMGD"
    BY <2>3 DEF Commands
  <2> QED BY <1>1, <1>3, <2>2, <2>3, <2>4, <2>5, ExecuteStep
<1>6. ASSUME line' = Tail(line), stack' = stack,
             UNCHANGED <<slotVars, taken, publishVars, faultVars>>
      PROVE  Inv'
  <2>1. UNCHANGED <<cfg, slots, used, exposed, arrived, direct, taken, publishVars, save_failures>>
    BY <1>1, <1>6 DEF slotVars, faultVars
  <2>2. line' \in Seq(Lines) /\ Range(line') \subseteq Range(line) /\ Doomed(stack) \subseteq Doomed(stack)
    BY <1>3, <1>6
  <2> QED BY <1>1, <1>4, <1>6, <2>1, <2>2, WorkerStep
<1>7. CASE Header \/ Skipped
  BY <1>6, <1>7 DEF Header, Skipped, Routed, ReadLine, directVars
<1>8. CASE AfterHeader
  <2>1. line' = Tail(line) /\ UNCHANGED slotVars
    BY <1>8 DEF AfterHeader, Routed, ReadLine
  <2>2. CASE Head(line).kind = "pdu"
    <3>1. PICK p, s : p = Head(line).found[1].part /\ s = stack
      OBVIOUS
    <3>2. Process(p, NoSlot, s) /\ taken' = taken \cup {p}
      BY <1>8, <2>2, <3>1 DEF AfterHeader
    <3>3. p \in AllParts
      <4>1. Head(line).found \in Seq(Finds) /\ Head(line).found # <<>>
        BY <1>3, <2>2 DEF Lines, LineKnown
      <4>2. Head(line).found[1] \in Finds
        BY <4>1, HeadRange
      <4> QED BY <3>1, <4>2 DEF Finds
    <3>4. /\ s \in Seq(Frames) /\ Doomed(s) \subseteq Doomed(stack) /\ \A f \in Range(s) : FrameKnown(f)
      BY <1>4, <3>1
    <3>5. Quiet /\ used' \in SUBSET Slots /\ taken' \in SUBSET AllParts /\ NoSlot \in Indices
      BY <1>1, <1>4, <2>1, <3>2, <3>3 DEF Quiet, slotVars, Indices
    <3> QED BY <1>1, <1>3, <2>1, <3>2, <3>3, <3>4, <3>5, ProcessInv
  <2>3. CASE Head(line).kind # "pdu"
    BY <1>6, <1>8, <2>1, <2>3 DEF AfterHeader
  <2> QED BY <2>2, <2>3
<1> QED BY <1>5, <1>7, <1>8 DEF Urc
-----------------------------------------------------------------------------
\* A timeout ends the call, or the serve loop; so does a lost port, and a
\* restart ends everything (worker.run, at.py execute).
LEMMA FailureStep == ASSUME Inv, TimedOut \/ LinkLost \/ Reconnect PROVE Inv'
<1>1. Types /\ CallsKnown /\ StaleKnown /\ cfg' = cfg
  BY DEF Inv, TimedOut, LinkLost, Reconnect, netVars
<1>2. /\ line \in Seq(Lines) /\ stack \in Seq(Frames) /\ \A f \in Range(stack) : FrameKnown(f)
  BY <1>1 DEF Types, CallsKnown
<1>3. /\ <<>> \in Seq(Lines) /\ <<>> \in Seq(Frames) /\ Range(<<>>) = {} /\ Doomed(<<>>) = {}
  BY EmptyRange DEF Doomed
<1>4. UNCHANGED <<cfg, slots, used, exposed, arrived, direct, taken, publishVars, save_failures>>
  BY DEF TimedOut, LinkLost, Reconnect, NoFault, Fault, Fails, netVars, slotVars, directVars, faultVars
<1>5. ASSUME line' \in {line, <<>>},
             NEW s \in Seq(Frames), stack' = s, Doomed(s) \subseteq Doomed(stack),
             \A f \in Range(s) : FrameKnown(f), stack # <<>> \/ stale = None,
             \/ UNCHANGED flushVars /\ (link' \in {link, "up"} \/ stale = None)
             \/ Dropping
      PROVE  Inv'
  <2>1. line' \in Seq(Lines) /\ Range(line') \subseteq Range(line)
    BY <1>2, <1>3, <1>5
  <2> QED BY <1>4, <1>5, <2>1, WorkerStep
<1>6. ASSUME LinkDown, stack # <<>> \/ stale = None PROVE Inv'
  <2>1. line' = <<>> /\ stack' = <<>> /\ Dropping
    BY <1>6 DEF LinkDown, Dropping
  <2> QED BY <1>3, <1>5, <1>6, <2>1
<1>7. CASE TimedOut
  <2>1. stack # <<>>
    BY <1>7 DEF TimedOut, On
  <2>2. /\ Outer \in Seq(Frames) /\ Doomed(Outer) \subseteq Doomed(stack)
        /\ \A f \in Range(Outer) : FrameKnown(f)
    BY <1>1, <2>1, OuterFacts
  <2>3. \/ UNCHANGED <<link, line, flushVars>> /\ \/ stack' = Outer
                                                  \/ stack' = Append(Outer, Frame("sweeping", NoSlot))
                                                  \/ Outer # <<>> /\ stack' = Front(Outer)
                                                  \/ stack' = <<>>
        \/ LinkDown
    BY <1>7 DEF TimedOut, Raised, Interrupted
  <2>4. ASSUME UNCHANGED <<link, line, flushVars>>, NEW s \in Seq(Frames), stack' = s,
               Doomed(s) \subseteq Doomed(stack), \A f \in Range(s) : FrameKnown(f)
        PROVE  Inv'
    BY <1>5, <2>1, <2>4
  <2>5. ASSUME UNCHANGED <<link, line, flushVars>>, stack' = Append(Outer, Frame("sweeping", NoSlot))
        PROVE  Inv'
    <3>1. PICK g : g = Frame("sweeping", NoSlot)
      OBVIOUS
    <3>2. g \in Frames /\ g.kind = "sweeping" /\ g.entries = <<>> /\ g.indices = {}
      BY <3>1, FrameFacts DEF Indices
    <3>3. FrameKnown(g)
      BY <3>2, BareKnown
    <3>4. /\ Append(Outer, g) \in Seq(Frames) /\ Doomed(Append(Outer, g)) = Doomed(Outer) \cup g.indices
          /\ \A f \in Range(Append(Outer, g)) : FrameKnown(f)
      BY <2>2, <3>2, <3>3, PushFacts
    <3> QED BY <2>2, <2>4, <2>5, <3>1, <3>2, <3>4
  <2>6. ASSUME UNCHANGED <<link, line, flushVars>>, Outer # <<>>, stack' = Front(Outer) PROVE Inv'
    <3>1. Front(Outer) \in Seq(Frames) /\ Range(Front(Outer)) \subseteq Range(Outer)
      BY <2>2, <2>6, LastRange
    <3>2. Doomed(Front(Outer)) \subseteq Doomed(stack)
      BY <2>2, <3>1 DEF Doomed
    <3> QED BY <2>2, <2>4, <2>6, <3>1, <3>2
  <2> QED BY <1>3, <1>6, <2>1, <2>2, <2>3, <2>4, <2>5, <2>6
<1>8. CASE LinkLost
  BY <1>6, <1>8 DEF LinkLost
<1>9. CASE Reconnect
  <2>1. stale = None /\ UNCHANGED <<line, stack, flushVars>>
    BY <1>1, <1>9 DEF Reconnect, StaleKnown
  <2> QED BY <1>2, <1>5, <2>1
<1> QED BY <1>7, <1>8, <1>9

LEMMA RestartStep == ASSUME Inv, Restart PROVE Inv'
<1>1. /\ UNCHANGED <<cfg, slots, used, exposed, arrived, direct, safe, save_failures>>
      /\ line' = <<>> /\ stack' = <<>> /\ parts' = None /\ stale' = None /\ seen' = <<>>
      /\ pending' = {} /\ jobs' = <<>> /\ taken' = {} /\ dropped' = {}
  BY DEF Restart, Fault, netVars, slotVars
<1>2. /\ cfg \in Configs /\ slots \in [Slots -> AllParts \cup {Empty}] /\ used \in SUBSET Slots
      /\ arrived \in SUBSET AllParts /\ save_failures \in Nat
  BY DEF Inv, Types
<1>3. /\ \A S : <<>> \in Seq(S)
      /\ Range(<<>>) = {} /\ Doomed(<<>>) = {}
  BY EmptyRange DEF Doomed
<1>4. SlotsKept
  BY <1>1 DEF SlotsKept
<1>5. CallsKnown' /\ JobsKnown'
  BY <1>1, <1>3 DEF CallsKnown, JobsKnown
<1>6. PartsKnown'
  BY <1>1 DEF PartsKnown, SetsKnown, None
<1>7. PendingKnown'
  BY <1>1 DEF PendingKnown
<1>8. AtRisk' \subseteq AtRisk
  BY <1>1, <1>3 DEF AtRisk, Deliverable
<1>9. Accounted'
  BY <1>1, <1>2, <1>8, AccountedKept DEF Inv
<1>10. TakenHeld'
  BY <1>1, <1>3 DEF TakenHeld, SeenHeld
<1>11. StaleKnown'
  BY <1>1 DEF StaleKnown, None
<1>12. UsedKnown'
  BY <1>1, <1>3 DEF Inv, UsedKnown
<1>13. Types'
  <2>1. None \in [Msgs -> SUBSET Entries]
    BY DEF None
  <2> QED BY <1>1, <1>2, <1>3, <2>1 DEF Types, None
<1> QED BY <1>5, <1>6, <1>7, <1>9, <1>10, <1>11, <1>12, <1>13 DEF Inv

\* The network fills a free slot, and may announce it, or hands a part over.
LEMMA ArriveStep == ASSUME Inv, NEW p \in AllParts, NEW i \in Slots, Arrive(p, i) PROVE Inv'
<1>1. /\ UNCHANGED <<cfg, stack, link, taken, direct, parts, stale, dropped, seen, pending, jobs, safe,
                    save_failures>>
      /\ slots[i] = Empty /\ slots' = [slots EXCEPT ![i] = p] /\ used' = used \cup {i}
      /\ exposed' = (IF i \in used THEN exposed \cup {p} ELSE exposed) /\ arrived' = arrived \cup {p}
      /\ line' = line \/ line' = Append(line, Cmti(i))
  BY DEF Arrive, Arrival, workerVars, directVars, flushVars, publishVars, hubVars, faultVars
<1>2. /\ slots \in [Slots -> AllParts \cup {Empty}] /\ used \in SUBSET Slots /\ arrived \in SUBSET AllParts
      /\ line \in Seq(Lines) /\ stack \in Seq(Frames) /\ save_failures \in Nat
      /\ Doomed(stack) \subseteq used
  BY DEF Inv, Types, UsedKnown
<1>3. slots'[i] = p /\ \A j \in Slots \ {i} : slots'[j] = slots[j]
  BY <1>1, <1>2
<1>4. \A j \in used : slots'[j] \in {slots[j], Empty} \cup exposed'
  <2> SUFFICES ASSUME NEW j \in used PROVE slots'[j] \in {slots[j], Empty} \cup exposed'
    OBVIOUS
  <2>1. CASE j = i
    BY <1>1, <1>3, <2>1
  <2>2. CASE j # i
    BY <1>2, <1>3, <2>2
  <2> QED BY <2>1, <2>2
<1>5. SlotsKept
  BY <1>1, <1>4 DEF SlotsKept
<1>6. PartsKnown' /\ PendingKnown' /\ JobsKnown'
  BY <1>1, <1>5, KnownKept DEF Inv
<1>7. p \in exposed' \/ \E j \in Slots \ Doomed(stack') : slots'[j] = p
  BY <1>1, <1>2, <1>3
<1>8. \A j \in Slots \ Doomed(stack), x \in AllParts :
         slots[j] = x => Settled(x)' \/ \E k \in Slots \ Doomed(stack') : slots'[k] = x
  BY <1>1, <1>3, PartFacts
<1>9. \A x \in arrived' \ direct' : \/ x \in arrived \ direct \/ x \in exposed'
                                    \/ \E j \in Slots \ Doomed(stack') : slots'[j] = x
  BY <1>1, <1>7
<1>10. AtRisk' \subseteq AtRisk
  BY <1>1, <1>2, <1>5, <1>8, <1>9, RiskShrinks
<1>11. Accounted'
  BY <1>1, <1>2, <1>10, AccountedKept DEF Inv
<1>12. line' \in Seq(Lines) /\ \A l \in Range(line') : l \in Range(line) \/ LineKnown(l)'
  <2>1. CASE line' = Append(line, Cmti(i))
    <3>1. PICK l : l = Cmti(i)
      OBVIOUS
    <3>2. l.kind = "+CMTI" /\ l.n = i /\ l.found = <<>> /\ l \in Lines
      <4>1. i \in Int /\ <<>> \in Seq(Finds)
        BY InboundAssumption, EmptyRange
      <4> QED BY <3>1, <4>1 DEF Cmti, Line, Lines
    <3>3. LineKnown(l)'
      BY <3>2, EmptyRange DEF LineKnown
    <3>4. line' \in Seq(Lines) /\ Range(line') = Range(line) \cup {l}
      BY <1>2, <2>1, <3>1, <3>2, AppendRange
    <3> QED BY <3>3, <3>4
  <2> QED BY <1>1, <1>2, <2>1
<1>13. CallsKnown'
  BY <1>1, <1>5, <1>12, CallsKept DEF Inv
<1>14. TakenHeld'
  BY <1>1 DEF Inv, TakenHeld, SeenHeld, Held, InSets, InHub, Deliverable
<1>15. UsedKnown'
  BY <1>1, <1>2, <1>3 DEF Inv, UsedKnown
<1>16. StaleKnown'
  BY <1>1 DEF Inv, StaleKnown
<1>17. Types'
  BY <1>1, <1>2, <1>12 DEF Inv, Types
<1> QED BY <1>6, <1>11, <1>13, <1>14, <1>15, <1>16, <1>17 DEF Inv

LEMMA ArriveDirectlyStep == ASSUME Inv, NEW p \in AllParts, ArriveDirectly(p) PROVE Inv'
<1>1. /\ UNCHANGED <<cfg, slots, used, exposed, stack, link, taken, flushVars, publishVars, save_failures>>
      /\ arrived' = arrived \cup {p} /\ direct' = direct \cup {p} /\ line' = line \o Cmt(p)
  BY DEF ArriveDirectly, Arrival, slotVars, workerVars, faultVars
<1>2. /\ used \in SUBSET Slots /\ arrived \in SUBSET AllParts /\ line \in Seq(Lines) /\ stack \in Seq(Frames)
  BY DEF Inv, Types
<1>3. Quiet
  BY <1>1 DEF Quiet
<1>4. SlotsKept
  BY <1>1, <1>3, QuietKeeps DEF publishVars
<1>5. /\ Cmt(p) \in Seq(Lines) /\ \A l \in Range(Cmt(p)) : LineKnown(l)'
  <2>1. PICK h, d : h = Line("+CMT", TRUE, <<>>, 0)
                    /\ d = Line("pdu", TRUE, <<[index |-> NoSlot, part |-> p]>>, 0)
    OBVIOUS
  <2>2. PICK e : e = [index |-> NoSlot, part |-> p]
    OBVIOUS
  <2>3. e \in Finds
    BY <2>2 DEF Finds, Indices
  <2>4. <<e>> \in Seq(Finds) /\ <<>> \in Seq(Finds) /\ <<e>> # <<>>
    BY <2>3
  <2>5. /\ h.kind = "+CMT" /\ h.found = <<>> /\ h \in Lines
        /\ d.kind = "pdu" /\ d.found = <<e>> /\ d \in Lines
    BY <2>1, <2>2, <2>4 DEF Line, Lines
  <2>6. LineKnown(h)' /\ LineKnown(d)'
    BY <2>4, <2>5, EmptyRange DEF LineKnown
  <2>7. Cmt(p) = <<h, d>>
    BY <2>1 DEF Cmt
  <2>8. <<h, d>> \in Seq(Lines) /\ Range(<<h, d>>) = {h, d}
    BY <2>5 DEF Range
  <2> QED BY <2>6, <2>7, <2>8
<1>6. line' \in Seq(Lines) /\ Range(line') \subseteq Range(line) \cup Range(Cmt(p))
  BY <1>1, <1>2, <1>5, ConcatRange
<1>7. CallsKnown'
  BY <1>1, <1>4, <1>5, <1>6, CallsKept DEF Inv
<1>8. StaleKnown'
  BY <1>1 DEF Inv, StaleKnown, flushVars
<1> QED BY <1>1, <1>2, <1>3, <1>6, <1>7, <1>8, LineStep
-----------------------------------------------------------------------------
\* The loops of the worker, one command or one text at a time.
LEMMA LoopStep == ASSUME Inv, Loop PROVE Inv'
<1>1. /\ Types /\ CallsKnown /\ PartsKnown /\ StaleKnown
  BY DEF Inv
<1>2. /\ line \in Seq(Lines) /\ stack \in Seq(Frames) /\ parts \in [Msgs -> SUBSET Entries]
      /\ stale \in [Msgs -> SUBSET Entries]
  BY <1>1 DEF Types
<1>3. stack # <<>> => /\ Outer \in Seq(Frames) /\ Doomed(Outer) \subseteq Doomed(stack)
                      /\ Top \in Frames /\ FrameKnown(Top) /\ Top.indices \subseteq Doomed(stack)
                      /\ \A f \in Range(Outer) : FrameKnown(f)
  BY <1>1, OuterFacts
<1>4. ASSUME stack # <<>>,
             NEW kind \in Commands, NEW i \in Indices, kind = "CMGR" => i \in Slots,
             kind = "CMGD" => i \in Doomed(stack),
             NEW below \in Seq(Frames), Doomed(below) \subseteq Doomed(stack),
             \A f \in Range(below) : FrameKnown(f),
             Execute(Frame(kind, i), below, line),
             UNCHANGED <<netVars, workerVars, directVars, flushVars, publishVars>>
      PROVE  Inv'
  <2>1. UNCHANGED <<cfg, arrived, direct, taken, flushVars, publishVars>> /\ link' \in {link, "up"}
    BY <1>4 DEF netVars, workerVars, directVars
  <2> QED BY <1>2, <1>4, <2>1, ExecuteStep
<1>5. ASSUME NEW i \in Slots, DeleteNext(i) PROVE Inv'
  <2>1. /\ stack # <<>> /\ i \in Top.indices /\ Execute(Frame("CMGD", i), Then(Outer, Top.indices \ {i}), line)
        /\ UNCHANGED <<netVars, workerVars, directVars, flushVars, publishVars>>
    BY <1>5 DEF DeleteNext, On
  <2>2. PICK D, below : D = Top.indices \ {i} /\ below = Then(Outer, D)
    OBVIOUS
  <2>3. D \in SUBSET Slots /\ D \subseteq Doomed(stack) /\ i \in Doomed(stack)
    BY <1>3, <2>1, <2>2 DEF Frames
  <2>4. PICK g : g = Deletes(D)
    OBVIOUS
  <2>5. FrameKnown(g)
    BY <2>3, <2>4, FrameFacts, BareKnown
  <2>6. /\ below \in Seq(Frames) /\ Doomed(below) \subseteq Doomed(stack)
        /\ \A f \in Range(below) : FrameKnown(f)
    <3>1. /\ below \in Seq(Frames) /\ Range(below) \subseteq Range(Outer) \cup {g}
          /\ Doomed(below) = Doomed(Outer) \cup D
      BY <1>3, <2>1, <2>2, <2>3, <2>4, ThenFacts
    <3> QED BY <1>3, <2>1, <2>3, <2>5, <3>1
  <2>7. "CMGD" \in Commands /\ "CMGD" # "CMGR" /\ i \in Indices
    BY DEF Commands, Indices
  <2> QED BY <1>4, <2>1, <2>2, <2>3, <2>6, <2>7
<1>6. CASE SweepBegun
  <2>1. /\ stack # <<>> /\ Execute(Frame("CPMS", NoSlot), Outer, line)
        /\ UNCHANGED <<netVars, workerVars, directVars, flushVars, publishVars>>
    BY <1>6 DEF SweepBegun, On
  <2>2. "CPMS" \in Commands /\ "CPMS" # "CMGR" /\ "CPMS" # "CMGD" /\ NoSlot \in Indices
    BY DEF Commands, Indices
  <2> QED BY <1>3, <1>4, <2>1, <2>2
<1>7. CASE SweepRead
  <2>1. PICK i, below :
           /\ i = Top.index
           /\ below = IF Top.index + 1 \in Slots THEN Append(Outer, Sweep(Top.index + 1, Top.quota)) ELSE Outer
    OBVIOUS
  <2>2. /\ stack # <<>> /\ Top.kind = "sweep" /\ Execute(Frame("CMGR", i), below, line)
        /\ UNCHANGED <<netVars, workerVars, directVars, flushVars, publishVars>>
    BY <1>7, <2>1 DEF SweepRead, On
  <2>3. i \in Slots /\ Top.quota \in Int
    BY <1>3, <2>1, <2>2 DEF FrameKnown, Frames
  <2>4. /\ below \in Seq(Frames) /\ Doomed(below) \subseteq Doomed(stack)
        /\ \A f \in Range(below) : FrameKnown(f)
    <3>1. CASE Top.index + 1 \in Slots
      <4>1. PICK g : g = Sweep(Top.index + 1, Top.quota)
        OBVIOUS
      <4>2. g \in Frames /\ g.kind = "sweep" /\ g.index \in Slots /\ g.entries = <<>> /\ g.indices = {}
        BY <2>3, <3>1, <4>1, FrameFacts
      <4>3. FrameKnown(g)
        BY <4>2, BareKnown
      <4>4. /\ Append(Outer, g) \in Seq(Frames) /\ Doomed(Append(Outer, g)) = Doomed(Outer) \cup g.indices
            /\ \A f \in Range(Append(Outer, g)) : FrameKnown(f)
        BY <1>3, <2>2, <4>2, <4>3, PushFacts
      <4> QED BY <1>3, <2>1, <2>2, <3>1, <4>1, <4>2, <4>4
    <3>2. CASE Top.index + 1 \notin Slots
      BY <1>3, <2>1, <2>2, <3>2
    <3> QED BY <3>1, <3>2
  <2>5. "CMGR" \in Commands /\ "CMGR" # "CMGD" /\ i \in Indices
    BY <2>3 DEF Commands, Indices
  <2> QED BY <1>4, <2>2, <2>3, <2>4, <2>5
<1>8. CASE EntryRead
  <2>1. PICK e, below :
           /\ e = Head(Top.entries)
           /\ below = IF Tail(Top.entries) = <<>> THEN Outer ELSE Append(Outer, Listing(Tail(Top.entries)))
    OBVIOUS
  <2>2. /\ stack # <<>> /\ Top.kind = "entries" /\ UNCHANGED <<netVars, slotVars, directVars>>
        /\ UNCHANGED <<cfg, slots, used, exposed, arrived, direct, taken>>
    BY <1>8 DEF EntryRead, On, netVars, slotVars, directVars
  <2>3. /\ Top.entries \in Seq(Finds) /\ Top.entries # <<>> /\ \A x \in Range(Top.entries) : Good(x)
    BY <1>3, <2>2 DEF Frames, FrameKnown
  <2>4. /\ e \in Finds /\ Good(e) /\ Tail(Top.entries) \in Seq(Finds)
        /\ \A x \in Range(Tail(Top.entries)) : Good(x)
    BY <2>1, <2>3, HeadRange
  <2>5. e.index \in Slots /\ e.index \in Indices /\ e.part \in AllParts /\ Holds(e.index, {e.part})
    BY <2>4 DEF Good, Finds
  <2>6. /\ below \in Seq(Frames) /\ Doomed(below) \subseteq Doomed(stack)
        /\ \A f \in Range(below) : FrameKnown(f)
    <3>1. CASE Tail(Top.entries) = <<>>
      BY <1>3, <2>1, <2>2, <3>1
    <3>2. CASE Tail(Top.entries) # <<>>
      <4>1. PICK g : g = Listing(Tail(Top.entries))
        OBVIOUS
      <4>2. g \in Frames /\ g.kind = "entries" /\ g.entries = Tail(Top.entries) /\ g.indices = {}
        BY <2>4, <4>1, FrameFacts
      <4>3. FrameKnown(g)
        BY <2>4, <3>2, <4>2 DEF FrameKnown
      <4>4. /\ Append(Outer, g) \in Seq(Frames) /\ Doomed(Append(Outer, g)) = Doomed(Outer) \cup g.indices
            /\ \A f \in Range(Append(Outer, g)) : FrameKnown(f)
        BY <1>3, <2>2, <4>2, <4>3, PushFacts
      <4> QED BY <1>3, <2>1, <2>2, <3>2, <4>1, <4>2, <4>4
    <3> QED BY <3>1, <3>2
  <2>7. Quiet /\ line \in Seq(Lines) /\ Range(line) \subseteq Range(line) /\ used \in SUBSET Slots
        /\ taken \in SUBSET AllParts
    BY <1>1, <2>2 DEF Quiet, Types
  <2>8. PICK text : text = [msg |-> e.part.msg, seqs |-> {e.part.seq}]
    OBVIOUS
  <2>9. text \in Texts /\ TextParts(text) = {e.part}
    <3>1. e.part.msg \in Msgs /\ e.part.seq \in Nat /\ e.part = [msg |-> e.part.msg, seq |-> e.part.seq]
      BY <2>5, InboundAssumption
    <3> QED BY <2>8, <3>1 DEF Texts, TextParts
  <2>10. CASE cfg.pdu_mode /\ Process(e.part, e.index, below) /\ UNCHANGED <<link, line, flushVars>>
    <3>1. HoldsNext(e.index, {e.part})
      BY <2>2, <2>5 DEF Holds, HoldsNext
    <3> QED BY <2>2, <2>5, <2>6, <2>7, <2>10, <3>1, ProcessInv
  <2>11. CASE stack' = below /\ UNCHANGED <<link, line, flushVars, publishVars, faultVars>>
    <3>1. UNCHANGED <<cfg, slots, used, exposed, arrived, direct, taken, publishVars, save_failures>>
          /\ link' \in {link, "up"} /\ line' \in Seq(Lines) /\ Range(line') \subseteq Range(line)
      BY <1>2, <2>2, <2>11 DEF faultVars
    <3> QED BY <2>2, <2>6, <2>11, <3>1, WorkerStep
  <2>12. CASE /\ UNCHANGED parts
              /\ \/ Publish(text, {e.index}, below) /\ NoFault /\ UNCHANGED <<link, line, flushVars>>
                 \/ PublishFails(text) /\ Raised
    <3>1. CASE Publish(text, {e.index}, below) /\ NoFault /\ UNCHANGED <<link, line, flushVars>>
      <4>1. UNCHANGED <<stale, dropped, save_failures>>
        BY <3>1 DEF flushVars, NoFault, faultVars
      <4>2. PICK indices : indices = {e.index}
        OBVIOUS
      <4>3. indices \in SUBSET Slots /\ \A i \in indices : Holds(i, TextParts(text))
        BY <2>5, <2>9, <4>2
      <4>4. PartsKnown'
        BY <1>1, <2>2, <2>12, <4>1 DEF PartsKnown, SetsKnown, Holds
      <4>5. InSets \subseteq InSets' \cup TextParts(text) /\ stale' \in [Msgs -> SUBSET Entries]
        BY <1>2, <2>12, <4>1 DEF InSets
      <4> QED BY <2>2, <2>6, <2>9, <2>12, <3>1, <4>1, <4>2, <4>3, <4>4, <4>5, PublishInv
    <3>2. CASE PublishFails(text) /\ Raised
      <4>1. /\ stack' = <<>> /\ line' \in {line, <<>>}
            /\ (UNCHANGED flushVars /\ link' = link) \/ Dropping
        BY <3>2 DEF Raised, LinkDown, Dropping
      <4> QED BY <2>2, <2>9, <2>12, <3>2, <4>1, FailInv
    <3> QED BY <2>12, <3>1, <3>2
  <2> QED BY <1>8, <2>1, <2>8, <2>10, <2>11, <2>12 DEF EntryRead
<1>9. ASSUME NEW m \in Msgs, FlushNext(m) PROVE Inv'
  <2>1. PICK set, text, indices :
           set = stale[m] /\ text = TextOf(m, set) /\ indices = IndicesOf(set)
    OBVIOUS
  <2>2. set \in SUBSET Entries /\ set # {} /\ stack = <<>> /\ stale # None
    BY <1>2, <1>9, <2>1 DEF FlushNext, None
  <2>3. /\ text \in Texts /\ indices \in SUBSET Slots
        /\ TextParts(text) = {PartOf(m, e) : e \in set}
    BY <2>1, <2>2, TextFacts
  <2>4. UNCHANGED <<cfg, slots, used, exposed, arrived, direct, taken, parts>>
    BY <1>9 DEF FlushNext, netVars, slotVars, directVars
  <2>5. \A i \in indices : Holds(i, TextParts(text))
    <3>1. \A i \in indices : \E e \in set : i = e.index /\ e.index # NoSlot
      BY <2>1 DEF IndicesOf
    <3>2. \A e \in set : e.index # NoSlot => Holds(e.index, {PartOf(m, e)})
      BY <1>1, <2>1 DEF PartsKnown, SetsKnown
    <3> QED BY <2>3, <3>1, <3>2 DEF Holds
  <2>6. CASE Publish(text, indices, <<>>) /\ NoFault /\ stale' = [stale EXCEPT ![m] = {}]
             /\ UNCHANGED <<link, line, dropped>>
    <3>1. save_failures' = save_failures
      BY <2>6 DEF NoFault, faultVars
    <3>2. PICK new : new = {}
      OBVIOUS
    <3>3. /\ stale' \in [Msgs -> SUBSET Entries]
          /\ PartsOf(stale) \subseteq PartsOf(stale') \cup {PartOf(m, e) : e \in stale[m]}
      <4>1. new \in SUBSET Entries /\ stale' = [stale EXCEPT ![m] = new]
        BY <2>6, <3>2
      <4> QED BY <1>2, <4>1, SetsFacts
    <3>4. InSets \subseteq InSets' \cup TextParts(text)
      BY <2>1, <2>3, <2>4, <2>6, <3>3 DEF InSets
    <3>5. \A k \in Msgs : stale'[k] \subseteq stale[k]
      BY <1>2, <2>6
    <3>6. PartsKnown'
      BY <1>1, <2>4, <3>5 DEF PartsKnown, SetsKnown, Holds
    <3>7. PICK below : below = <<>>
      OBVIOUS
    <3>8. below \in Seq(Frames) /\ Doomed(below) \subseteq Doomed(stack) /\ \A f \in Range(below) : FrameKnown(f)
      BY <3>7, EmptyRange DEF Doomed
    <3>9. Publish(text, indices, below)
      BY <2>6, <3>7
    <3> QED BY <2>2, <2>3, <2>4, <2>5, <2>6, <3>1, <3>3, <3>4, <3>6, <3>7, <3>8, <3>9, PublishInv
  <2>7. CASE PublishFails(text) /\ LinkDown
    <3>1. stack' = <<>> /\ line' \in {line, <<>>} /\ Dropping
      BY <2>7 DEF LinkDown, Dropping
    <3> QED BY <2>3, <2>4, <2>7, <3>1, FailInv
  <2> QED BY <1>9, <2>1, <2>6, <2>7 DEF FlushNext
<1> QED BY <1>5, <1>6, <1>7, <1>8, <1>9 DEF Loop

\* The serve loop: scans, other commands, delete jobs, and the flush that takes
\* the stale sets out of the assembler.
LEMMA ServeStep ==
    ASSUME Inv, NEW old \in SUBSET Msgs, Scan \/ OtherCommand \/ DeleteJob \/ Flush(old)
    PROVE  Inv'
<1>1. /\ Types /\ CallsKnown /\ PartsKnown /\ StaleKnown /\ UsedKnown /\ JobsKnown
  BY DEF Inv
<1>2. /\ line \in Seq(Lines) /\ stack \in Seq(Frames) /\ parts \in [Msgs -> SUBSET Entries]
      /\ stale \in [Msgs -> SUBSET Entries] /\ jobs \in Seq(SUBSET Slots) /\ used \in SUBSET Slots
      /\ arrived \in SUBSET AllParts /\ slots \in [Slots -> AllParts \cup {Empty}]
      /\ save_failures \in Nat
  BY <1>1 DEF Types
<1>3. /\ \A S : <<>> \in Seq(S)
      /\ Range(<<>>) = {} /\ Doomed(<<>>) = {}
  BY EmptyRange DEF Doomed
<1>4. stale = None
  BY <1>1 DEF Scan, OtherCommand, DeleteJob, Flush, AtRest, StaleKnown
<1>5. CASE Scan \/ OtherCommand
  <2>1. PICK kind, rest : /\ kind \in {"CPMS", "CMGL", "other"} /\ rest \in {line, <<>>}
                          /\ Execute(Frame(kind, NoSlot), <<>>, rest)
    <3>1. CASE Scan
      <4>1. CASE cmgl_broken
        BY <3>1, <4>1 DEF Scan
      <4>2. CASE ~cmgl_broken
        BY <3>1, <4>2 DEF Scan
      <4> QED BY <4>1, <4>2
    <3>2. CASE OtherCommand
      BY <3>2 DEF OtherCommand
    <3> QED BY <1>5, <3>1, <3>2
  <2>2. /\ kind \in Commands /\ kind # "CMGR" /\ kind # "CMGD" /\ NoSlot \in Indices
    BY <2>1 DEF Commands, Indices
  <2>3. PICK below : below = <<>>
    OBVIOUS
  <2>4. /\ below \in Seq(Frames) /\ Doomed(below) \subseteq Doomed(stack) /\ \A f \in Range(below) : FrameKnown(f)
        /\ rest \in Seq(Lines) /\ Range(rest) \subseteq Range(line)
        /\ Execute(Frame(kind, NoSlot), below, rest)
    BY <1>2, <1>3, <2>1, <2>3
  <2>5. UNCHANGED <<cfg, arrived, direct, taken, flushVars, publishVars>> /\ link' \in {link, "up"}
    BY <1>5 DEF Scan, OtherCommand, netVars, directVars, workerVars
  <2> QED BY <1>4, <2>2, <2>4, <2>5, ExecuteStep
<1>6. CASE DeleteJob
  <2>1. PICK D, rest : D = Head(jobs) /\ rest = Tail(jobs)
    OBVIOUS
  <2>2. /\ jobs # <<>> /\ stack = <<>> /\ stack' = <<Deletes(D)>> /\ jobs' = rest
        /\ UNCHANGED <<cfg, slots, used, exposed, line, link, arrived, direct, taken, flushVars, parts,
                      seen, pending, safe, save_failures>>
    BY <1>6, <2>1 DEF DeleteJob, AtRest, netVars, slotVars, workerVars, directVars, faultVars
  <2>3. D \in SUBSET Slots /\ rest \in Seq(SUBSET Slots) /\ Range(rest) \subseteq Range(jobs)
        /\ D \in Range(jobs)
    BY <1>2, <2>1, <2>2, HeadRange
  <2>4. PICK g : g = Deletes(D)
    OBVIOUS
  <2>5. g \in Frames /\ g.kind = "delete" /\ g.indices = D /\ g.entries = <<>>
    BY <2>3, <2>4, FrameFacts
  <2>6. FrameKnown(g)'
    BY <2>5, BareKnown
  <2>7. /\ stack' \in Seq(Frames) /\ Range(stack') = {g}
    BY <2>2, <2>4, <2>5 DEF Range
  <2>8. Doomed(stack') = D
    BY <2>5, <2>7 DEF Doomed
  <2>9. Quiet /\ safe' = safe
    BY <2>2 DEF Quiet
  <2>10. SlotsKept
    BY <2>9, QuietKeeps
  <2>11. CallsKnown'
    BY <2>2, <2>6, <2>7, <2>10, CallsKept DEF Inv
  <2>12. PartsKnown' /\ PendingKnown'
    BY <2>2, <2>10, KnownKept DEF Inv, flushVars
  <2>13. \A i : Holds(i, safe) => Holds(i, safe)'
    BY <2>10, HoldsKept
  <2>14. JobsKnown'
    BY <1>1, <2>2, <2>3, <2>13 DEF JobsKnown
  <2>15. \A i \in D : Holds(i, safe)
    BY <1>1, <2>3 DEF JobsKnown
  <2>16. \A i \in D, x \in AllParts : slots[i] = x => Settled(x)'
    BY <2>2, <2>15, PartFacts DEF Holds, Settled
  <2>17. AtRisk' \subseteq AtRisk
    <3>1. Doomed(stack') \subseteq Doomed(stack) \cup D
      BY <2>8
    <3> QED BY <1>2, <2>2, <2>10, <2>16, <3>1, RiskLocal
  <2>18. Accounted'
    BY <1>2, <2>2, <2>17, AccountedKept DEF Inv
  <2>19. TakenHeld'
    BY <2>2 DEF Inv, TakenHeld, SeenHeld, Held, InSets, InHub, Deliverable, flushVars
  <2>20. UsedKnown'
    BY <1>1, <2>2, <2>8, <2>15 DEF UsedKnown, Holds
  <2>21. StaleKnown'
    BY <1>1, <1>4, <2>2 DEF StaleKnown, flushVars
  <2>22. Types'
    BY <1>1, <2>2, <2>3, <2>7 DEF Types, flushVars
  <2> QED BY <2>11, <2>12, <2>14, <2>18, <2>19, <2>20, <2>21, <2>22 DEF Inv
<1>7. CASE Flush(old)
  <2>1. /\ UNCHANGED <<cfg, slots, used, exposed, line, stack, link, arrived, direct, taken, dropped,
                      seen, pending, jobs, safe, save_failures>>
        /\ stale' = [m \in Msgs |-> IF m \in old THEN parts[m] ELSE {}]
        /\ parts' = [m \in Msgs |-> IF m \in old THEN {} ELSE parts[m]]
        /\ link = "up" /\ stack = <<>>
    BY <1>7 DEF Flush, AtRest, netVars, slotVars, workerVars, directVars, hubVars, faultVars
  <2>2. /\ stale' \in [Msgs -> SUBSET Entries] /\ parts' \in [Msgs -> SUBSET Entries]
        /\ \A m \in Msgs : stale'[m] \subseteq parts[m] /\ parts'[m] \subseteq parts[m]
        /\ \A m \in Msgs : parts[m] = stale'[m] \/ parts[m] = parts'[m]
    BY <1>2, <2>1
  <2>3. SlotsKept
    BY <2>1 DEF SlotsKept
  <2>4. CallsKnown'
    BY <2>1, <2>3, CallsKept DEF Inv
  <2>5. PendingKnown' /\ JobsKnown'
    BY <2>1, <2>3, KnownKept DEF Inv
  <2>6. PartsKnown'
    <3>1. \A i, P : Holds(i, P) => Holds(i, P)'
      BY <2>3, HoldsKept
    <3>2. SetsKnown(parts)
      BY <1>1 DEF PartsKnown
    <3>3. \A m \in Msgs : \A e \in parts[m] : e.index # NoSlot => Holds(e.index, {PartOf(m, e)})'
      BY <3>1, <3>2 DEF SetsKnown
    <3> QED BY <2>2, <3>3 DEF PartsKnown, SetsKnown
  <2>7. AtRisk' \subseteq AtRisk
    BY <2>1 DEF AtRisk, Deliverable
  <2>8. Accounted'
    BY <1>2, <2>1, <2>7, AccountedKept DEF Inv
  <2>9. InSets \subseteq InSets'
    <3>1. PartsOf(stale) = {}
      BY <1>4 DEF PartsOf, None
    <3>2. PartsOf(parts) \subseteq PartsOf(parts') \cup PartsOf(stale')
      <4>1. \A x \in PartsOf(parts) : \E m \in Msgs : \E e \in parts[m] : x = [msg |-> m, seq |-> e.seq]
        BY DEF PartsOf
      <4>2. ASSUME NEW m \in Msgs, NEW e \in parts[m]
            PROVE  [msg |-> m, seq |-> e.seq] \in PartsOf(parts') \cup PartsOf(stale')
        <5>1. e \in parts'[m] \/ e \in stale'[m]
          BY <2>2
        <5>2. CASE e \in parts'[m]
          BY <5>2 DEF PartsOf
        <5>3. CASE e \in stale'[m]
          BY <5>3 DEF PartsOf
        <5> QED BY <5>1, <5>2, <5>3
      <4> QED BY <4>1, <4>2
    <3> QED BY <2>1, <3>1, <3>2 DEF InSets
  <2>10. Held \subseteq Held' /\ SeenHeld' = SeenHeld
    BY <2>1, <2>9 DEF Held, InHub, SeenHeld
  <2>11. TakenHeld'
    BY <2>1, <2>10, TakenKept DEF Inv
  <2>12. UsedKnown'
    BY <1>1, <2>1 DEF UsedKnown
  <2>13. StaleKnown'
    BY <1>1, <2>1 DEF StaleKnown
  <2>14. Types'
    BY <1>1, <2>1, <2>2 DEF Types
  <2> QED BY <2>4, <2>5, <2>6, <2>8, <2>11, <2>12, <2>13, <2>14 DEF Inv
<1> QED BY <1>5, <1>6, <1>7

\* The hub delivers a pending message, or releases one that was delivered
\* (hub.confirm_delivered).
LEMMA HubStep == ASSUME Inv, NEW r \in pending, Deliver(r) \/ Release(r) PROVE Inv'
<1>1. /\ UNCHANGED <<cfg, slots, used, exposed, line, stack, link, arrived, direct, taken, stale, dropped,
                    parts, seen, save_failures>>
  BY DEF Deliver, Release, HubOnly, netVars, slotVars, workerVars, directVars, flushVars, faultVars
<1>2. /\ pending \in SUBSET Records /\ jobs \in Seq(SUBSET Slots) /\ save_failures \in Nat
  BY DEF Inv, Types
<1>3. r \in Records /\ r.indices \in SUBSET Slots
  BY <1>2 DEF Records
<1>4. \A i \in r.indices : Holds(i, TextParts(r.text))
  BY DEF Inv, PendingKnown
<1>5. ASSUME safe \subseteq safe', pending' \in SUBSET Records, PendingKnown', JobsKnown',
             jobs' \in Seq(SUBSET Slots), InHub \cup safe \subseteq (InHub \cup safe)'
      PROVE  Inv'
  <2>1. SlotsKept
    BY <1>1, <1>5 DEF SlotsKept
  <2>2. PartsKnown' /\ CallsKnown'
    BY <1>1, <2>1, KnownKept, CallsKept DEF Inv
  <2>3. AtRisk' \subseteq AtRisk
    BY <1>1, <1>5 DEF AtRisk, Deliverable
  <2>4. Accounted'
    BY <1>1, <1>2, <2>3, AccountedKept DEF Inv
  <2>5. Held \subseteq Held' /\ (SeenHeld => SeenHeld')
    BY <1>1, <1>5 DEF Held, InSets, SeenHeld
  <2>6. TakenHeld'
    BY <1>1, <2>5, TakenKept DEF Inv
  <2>7. UsedKnown' /\ StaleKnown'
    BY <1>1 DEF Inv, UsedKnown, StaleKnown
  <2>8. Types'
    BY <1>1, <1>5 DEF Inv, Types
  <2> QED BY <1>5, <2>2, <2>4, <2>6, <2>7, <2>8 DEF Inv
<1>6. CASE Deliver(r)
  <2> DEFINE sent == [r EXCEPT !.sent = TRUE]
  <2>1. /\ pending' = (pending \ {r}) \cup {sent} /\ jobs' = jobs
        /\ safe' = safe \cup TextParts(r.text)
    BY <1>6 DEF Deliver
  <2>2. sent \in Records /\ sent.text = r.text /\ sent.indices = r.indices
    BY <1>3 DEF Records
  <2> HIDE DEF sent
  <2>3. SlotsKept
    BY <1>1, <2>1 DEF SlotsKept
  <2>4. JobsKnown'
    BY <2>1, <2>3, KnownKept DEF Inv
  <2>5. PendingKnown'
    <3>1. \A i, P : Holds(i, P) => Holds(i, P)'
      BY <1>1 DEF Holds
    <3> QED BY <1>4, <2>1, <2>2, <3>1 DEF Inv, PendingKnown
  <2>6. InHub \subseteq InHub'
    BY <2>1, <2>2 DEF InHub
  <2> QED BY <1>2, <1>5, <2>1, <2>2, <2>4, <2>5, <2>6
<1>7. CASE Release(r)
  <2>1. /\ pending' = pending \ {r} /\ safe' = safe /\ r.sent
        /\ jobs' = jobs \/ jobs' = Append(jobs, r.indices)
    BY <1>7 DEF Release
  <2>2. TextParts(r.text) \subseteq safe
    BY <2>1 DEF Inv, PendingKnown
  <2>3. SlotsKept
    BY <1>1, <2>1 DEF SlotsKept
  <2>4. PendingKnown'
    BY <1>1, <2>1 DEF Inv, PendingKnown, Holds
  <2>5. InHub \cup safe \subseteq (InHub \cup safe)'
    BY <2>1, <2>2 DEF InHub
  <2>6. CASE jobs' = jobs
    <3>1. JobsKnown'
      BY <2>3, <2>6, KnownKept DEF Inv
    <3> QED BY <1>2, <1>5, <2>1, <2>4, <2>5, <2>6, <3>1
  <2>7. CASE jobs' = Append(jobs, r.indices)
    <3>1. jobs' \in Seq(SUBSET Slots) /\ Range(jobs') = Range(jobs) \cup {r.indices}
      BY <1>2, <1>3, <2>7, AppendRange
    <3>2. \A i \in r.indices : Holds(i, safe)
      BY <1>4, <2>2 DEF Holds
    <3>3. \A i : Holds(i, safe) => Holds(i, safe)'
      BY <2>3, HoldsKept
    <3>4. JobsKnown'
      BY <3>1, <3>2, <3>3 DEF Inv, JobsKnown
    <3> QED BY <1>2, <1>5, <2>1, <2>4, <2>5, <3>1, <3>4
  <2> QED BY <2>1, <2>6, <2>7
<1> QED BY <1>6, <1>7
-----------------------------------------------------------------------------
LEMMA InvStep == Inv /\ [Next]_vars => Inv'
<1> SUFFICES ASSUME Inv, [Next]_vars PROVE Inv'
  OBVIOUS
<1>1. CASE UNCHANGED vars
  <2>1. /\ UNCHANGED <<cfg, slots, used, exposed, line, stack, link, arrived, direct, taken, flushVars,
                      publishVars, save_failures>>
    BY <1>1 DEF vars, netVars, slotVars, workerVars, directVars, faultVars
  <2>2. /\ used \in SUBSET Slots /\ arrived \in SUBSET AllParts /\ line \in Seq(Lines) /\ stack \in Seq(Frames)
    BY DEF Inv, Types
  <2>3. Quiet
    BY <2>1 DEF Quiet
  <2>4. SlotsKept
    BY <2>1, <2>3, QuietKeeps DEF publishVars
  <2>5. CallsKnown'
    BY <2>1, <2>4, CallsKept DEF Inv
  <2>6. StaleKnown'
    BY <2>1 DEF Inv, StaleKnown, flushVars
  <2> QED BY <2>1, <2>2, <2>3, <2>5, <2>6, LineStep
<1> QED BY <1>1, AnswerStep, UrcStep, FailureStep, RestartStep, ArriveStep, ArriveDirectlyStep, LoopStep,
           ServeStep, HubStep DEF Next, Hub

\* Inv holds in every reachable state.
LEMMA Invariant == Spec => []Inv
<1>1. Init => Inv
  <2> SUFFICES ASSUME Init PROVE Inv
    OBVIOUS
  <2>1. /\ cfg \in Configs /\ slots = [i \in Slots |-> Empty] /\ used = {} /\ arrived = {}
        /\ line = <<>> /\ stack = <<>> /\ parts = None /\ stale = None /\ seen = <<>>
        /\ pending = {} /\ jobs = <<>> /\ taken = {} /\ dropped = {} /\ save_failures = 0
    BY DEF Init
  <2>2. /\ \A S : <<>> \in Seq(S)
        /\ Range(<<>>) = {} /\ Doomed(<<>>) = {}
    BY EmptyRange DEF Doomed
  <2>3. AtRisk = {}
    BY <2>1 DEF AtRisk
  <2>4. Accounted
    BY <2>1, <2>3, FS_EmptySet DEF Accounted
  <2>5. Types
    <3>1. None \in [Msgs -> SUBSET Entries]
      BY DEF None
    <3> QED BY <2>1, <2>2, <3>1 DEF Types
  <2>6. UsedKnown /\ CallsKnown /\ JobsKnown
    BY <2>1, <2>2 DEF UsedKnown, CallsKnown, JobsKnown
  <2>7. PartsKnown /\ PendingKnown
    BY <2>1 DEF PartsKnown, SetsKnown, PendingKnown, None
  <2>8. TakenHeld /\ StaleKnown
    BY <2>1, <2>2 DEF TakenHeld, SeenHeld, StaleKnown
  <2> QED BY <2>4, <2>5, <2>6, <2>7, <2>8 DEF Inv
<1> QED BY <1>1, InvStep, PTL DEF Spec

\* A part the network stored is on the SIM until a subscriber was sent it or
\* the store has it, but for at most one part for each failed save and for
\* parts in a slot of which the worker has a wrong idea: it was used before, or
\* the PDU of another slot was taken for its own.  Scans that break off,
\* commands nested in others, late answers, dropped stale sets, lost links,
\* restarts and delete jobs lose no other (worker._publish, _process_pdu,
\* _scan_stored, _delete_indices; at.py execute; hub.confirm_delivered).
THEOREM LossNeedsASaveFailure == Spec => []LossIsASaveFailure
<1>1. Inv => LossIsASaveFailure
  <2> SUFFICES ASSUME Inv PROVE Cardinality(Lost \ exposed) <= save_failures
    BY DEF LossIsASaveFailure
  <2>1. Lost \ exposed \subseteq AtRisk
    BY DEF Lost, AtRisk, Stored
  <2>2. IsFiniteSet(AtRisk) /\ Cardinality(AtRisk) <= save_failures /\ save_failures \in Nat
    BY DEF Inv, Accounted, Types
  <2>3. IsFiniteSet(Lost \ exposed) /\ Cardinality(Lost \ exposed) <= Cardinality(AtRisk)
    BY <2>1, <2>2, FS_Subset
  <2>4. Cardinality(Lost \ exposed) \in Nat /\ Cardinality(AtRisk) \in Nat
    BY <2>2, <2>3, FS_CardinalityType
  <2> QED BY <2>2, <2>3, <2>4
<1> QED BY <1>1, Invariant, PTL

\* A part that the modem handed over directly (+CMT) and the process took is
\* in the assembler, pending, sent or saved, while no save fails: a repeated
\* part replaces its like and a known hash drops only what is held.  Or it was
\* in a stale set that flush_stale had taken out of the assembler when the
\* port was lost, which never happens without a store (receive.py
\* Assembler.add and flush_stale, worker._publish and _serve).
THEOREM DirectDeliveryIsHeld == Spec => []DirectIsHeld
<1>1. Inv => DirectIsHeld
  <2>1. InSets \cup InHub = InRam \cup dropped
    BY DEF InSets, InHub, InRam
  <2> QED BY <2>1 DEF Inv, TakenHeld, StaleKnown, Held, DirectIsHeld
<1> QED BY <1>1, Invariant, PTL
=============================================================================
