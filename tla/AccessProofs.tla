---------------------------- MODULE AccessProofs ----------------------------
(***************************************************************************)
(* Proofs about module Access: the certificate a client pins on first use  *)
(* (tofu.py), and the two ways the server bounds what a caller may do, the *)
(* backoff after failed logins and the rate limit (auth.py).  They hold    *)
(* for any number of client threads and handlers, any clock bound, window, *)
(* limit and delay, and for any requests.                                  *)
(***************************************************************************)
EXTENDS Access, FiniteSetTheorems, FunctionTheorems, TLAPS

\* The types of the pin file, its temporary file and the client's threads.  A
\* descriptor is open exactly between the opening and the closing of the
\* temporary file.
Points == {"closed", "greeted", "unpinned", "truncated", "written", "open", "busy",
           "refused", "error"}
TofuType ==
    /\ cert \in Fingerprints
    /\ pin \in Inodes \union {0} /\ tmp \in Inodes \union {0}
    /\ content \in [Inodes -> Fingerprints \union {""}]
    /\ conn \in [Threads -> Points]
    /\ fp \in [Threads -> Fingerprints \union {""}]
    /\ fd \in [Threads -> Inodes \union {0}]
    /\ \A t \in Threads : conn[t] = "truncated" <=> fd[t] # 0
    /\ rotations \in Nat

\* As long as the server keeps its certificate there is one fingerprint only:
\* in every file that is not empty, and in every thread between its handshake
\* and its comparison.  So no comparison can fail, whatever file it reads.
Comparing == {"greeted", "unpinned", "truncated", "written"}
OneCertificate ==
    rotations = 0 =>
        /\ \A i \in Inodes : content[i] \in {"", cert}
        /\ \A t \in Threads : conn[t] \in Comparing => fp[t] = cert
        /\ \A t \in Threads : conn[t] # "refused"

TofuInv == TofuType /\ OneCertificate

\* There are two inodes more than threads: see FreeInode.
LEMMA Counts == Inodes \subseteq Nat \ {0} /\ 1 \in Inodes /\ IsFiniteSet(Inodes)
                /\ Cardinality(Inodes) = Cardinality(Threads) + 2
<1>1. Cardinality(Threads) \in Nat
  BY TofuAssumption, FS_CardinalityType
<1>2. Cardinality(Threads) + 2 \in Int /\ 1 \in Int
  BY <1>1
<1>3. IsFiniteSet(Inodes) /\ Cardinality(Inodes) = Cardinality(Threads) + 2
  BY <1>1, <1>2, FS_Interval DEF Inodes
<1>4. Inodes \subseteq Nat \ {0} /\ 1 \in Inodes
  BY <1>1 DEF Inodes
<1> QED BY <1>3, <1>4

\* _save finds an inode for its temporary file: the pin file and the open
\* descriptors hold fewer than there are.
LEMMA FreeInode ==
    ASSUME TofuInv, tmp = 0
    PROVE  \E i \in Inodes : i \notin {pin, tmp} /\ \A u \in Threads : fd[u] # i
<1>1. fd \in Surjection(Threads, Range(fd))
  BY Fun_RangeProperties DEF TofuInv, TofuType
<1>2. IsFiniteSet(Range(fd)) /\ Cardinality(Range(fd)) <= Cardinality(Threads)
  BY <1>1, TofuAssumption, FS_Surjection
<1> DEFINE taken == Range(fd) \union {pin}
<1>3. IsFiniteSet(taken) /\ Cardinality(taken) <= Cardinality(Threads) + 1
  <2>1. IsFiniteSet(taken) /\ Cardinality(taken) \in {Cardinality(Range(fd)), Cardinality(Range(fd)) + 1}
    BY <1>2, FS_AddElement
  <2>2. Cardinality(Range(fd)) \in Nat /\ Cardinality(Threads) \in Nat
    BY <1>2, TofuAssumption, FS_CardinalityType
  <2> QED BY <1>2, <2>1, <2>2
<1>4. ~(Inodes \subseteq taken)
  <2>1. ASSUME Inodes \subseteq taken
        PROVE  Cardinality(Inodes) <= Cardinality(taken)
    BY <2>1, <1>3, FS_Subset
  <2>2. Cardinality(Threads) \in Nat /\ Cardinality(taken) \in Nat
    BY <1>3, TofuAssumption, FS_CardinalityType
  <2> QED BY <2>1, <2>2, <1>3, Counts
<1>5. \A u \in Threads : fd[u] \in Range(fd)
  BY DEF Range, TofuInv, TofuType
<1> QED BY <1>4, <1>5, Counts

\* The initial states, with or without a pin file from an earlier process.
LEMMA TofuInitially == TofuInit => TofuInv
<1> SUFFICES ASSUME TofuInit PROVE TofuInv
  OBVIOUS
<1>1. cert \in Fingerprints
  BY TofuAssumption DEF TofuInit
<1> QED BY <1>1, Counts, TofuAssumption DEF TofuInit, TofuInv, TofuType, OneCertificate, Points, Comparing

\* A step of a thread in check_or_pin and _save keeps the invariant.
LEMMA ConnectStep ==
    ASSUME TofuInv, NEW t \in Threads, Connect(t)
    PROVE  TofuInv'
<1> USE DEF TofuInv, TofuType, OneCertificate, Points, Comparing, At, ContentOf
<1>1. CASE Handshake(t)
  BY <1>1 DEF Handshake
<1>2. CASE Load(t)
  BY <1>2, Counts DEF Load
<1>3. CASE OpenTmp(t)
  BY <1>3, Counts, FreeInode DEF OpenTmp
<1>4. CASE WriteTmp(t)
  BY <1>4, Counts DEF WriteTmp
<1>5. CASE Replace(t)
  BY <1>5, Counts DEF Replace
<1>6. CASE Retry(t)
  BY <1>6, Counts DEF Retry
<1> QED BY <1>1, <1>2, <1>3, <1>4, <1>5, <1>6 DEF Connect

\* So does every other step: a crash, a new certificate, a request.
LEMMA TofuStep ==
    ASSUME TofuInv, [Next]_vars
    PROVE  TofuInv'
<1> USE DEF Points, Comparing
<1>1. ASSUME NEW t \in Threads, Connect(t)
      PROVE  TofuInv'
  BY <1>1, ConnectStep
<1>2. CASE Crash
  BY <1>2, TofuAssumption DEF Crash, TofuInv, TofuType, OneCertificate
<1>3. CASE Rotate
  <2>1. rotations \in Nat
    BY DEF TofuInv, TofuType
  <2>2. rotations' \in Nat /\ rotations' # 0
    BY <1>3, <2>1 DEF Rotate
  <2> QED BY <1>3, <2>2 DEF Rotate, TofuInv, TofuType, OneCertificate
<1>4. ASSUME NEW t \in Threads, Request(t) \/ Close(t)
      PROVE  TofuInv'
  BY <1>4 DEF Request, Close, At, TofuInv, TofuType, OneCertificate
<1>5. CASE UNCHANGED tofuVars
  BY <1>5 DEF tofuVars, TofuInv, TofuType, OneCertificate
<1> QED BY <1>1, <1>2, <1>3, <1>4, <1>5 DEF Next, vars, OtherRequest, tofuVars

\* NoFalseAlarm: no thread refuses a server whose certificate never changed
\* (tofu.py check_or_pin), however threads race for the first pin, whatever
\* file they read and wherever the process dies while it writes.
THEOREM PinSafety == Spec => []NoFalseAlarm
<1>1. Init => TofuInv
  BY TofuInitially DEF Init
<1>2. TofuInv /\ [Next]_vars => TofuInv'
  BY TofuStep
<1>3. TofuInv => NoFalseAlarm
  BY DEF TofuInv, OneCertificate, NoFalseAlarm
<1> QED BY <1>1, <1>2, <1>3, PTL DEF Spec
-----------------------------------------------------------------------------
\* RateLimit._events as a set of numbered timestamps: it is finite, ...
LEMMA StampsFinite ==
    ASSUME NEW f \in [Times -> Nat], NEW S \in SUBSET Times
    PROVE  IsFiniteSet(Stamps(f, S)) /\ Sum(f, S) \in Nat
<1> DEFINE at == [t \in S |-> {t} \X (1 .. f[t])]
           all == {{t} \X (1 .. f[t]) : t \in S}
<1>1. IsFiniteSet(S)
  <2>1. IsFiniteSet(Times)
    BY GateAssumption, FS_Interval DEF Times
  <2> QED BY <2>1, FS_Subset
<1>2. IsFiniteSet(all)
  <2>1. at \in [S -> all]
    OBVIOUS
  <2>2. \A x \in all : \E t \in S : at[t] = x
    OBVIOUS
  <2>3. at \in Surjection(S, all)
    BY <2>1, <2>2, Fun_IsSurj
  <2> QED BY <1>1, <2>3, FS_Surjection
<1>3. \A x \in all : IsFiniteSet(x)
  <2> SUFFICES ASSUME NEW t \in S PROVE IsFiniteSet({t} \X (1 .. f[t]))
    OBVIOUS
  <2>1. 1 \in Int /\ f[t] \in Int
    OBVIOUS
  <2>2. IsFiniteSet(1 .. f[t])
    BY <2>1, FS_Interval
  <2>3. IsFiniteSet({t})
    BY FS_Singleton
  <2> QED BY <2>2, <2>3, FS_Product
<1>4. IsFiniteSet(UNION all)
  BY <1>2, <1>3, FS_UNION
<1> QED BY <1>4, FS_CardinalityType DEF Stamps, Sum

\* ... more timestamps at more times are more segments, ...
LEMMA SumMonotonic ==
    ASSUME NEW f \in [Times -> Nat], NEW g \in [Times -> Nat],
           NEW S \in SUBSET Times, NEW T \in SUBSET Times,
           S \subseteq T, \A t \in S : f[t] <= g[t]
    PROVE  Sum(f, S) <= Sum(g, T)
<1>1. Stamps(f, S) \subseteq Stamps(g, T)
  BY DEF Stamps, Times
<1> QED BY <1>1, StampsFinite, FS_Subset DEF Sum

\* ... and k segments charged at one time are k more.
LEMMA SumAdd ==
    ASSUME NEW f \in [Times -> Nat], NEW g \in [Times -> Nat],
           NEW S \in SUBSET Times, NEW n \in S, NEW k \in Nat,
           g[n] = f[n] + k, \A t \in S \ {n} : g[t] = f[t]
    PROVE  Sum(g, S) = Sum(f, S) + k
<1> DEFINE numbers == f[n] + 1 .. f[n] + k
           new == {n} \X numbers
<1>2. Stamps(g, S) = Stamps(f, S) \union new
  BY DEF Stamps
<1>3. Stamps(f, S) \cap new = {}
  BY DEF Stamps
<1>4. IsFiniteSet(new) /\ Cardinality(new) = k
  <2>1. f[n] \in Nat /\ f[n] + 1 \in Int /\ f[n] + k \in Int
    BY DEF Times
  <2>2. /\ IsFiniteSet(numbers)
        /\ Cardinality(numbers)
              = IF f[n] + 1 > f[n] + k THEN 0 ELSE (f[n] + k) - (f[n] + 1) + 1
    BY <2>1, FS_Interval
  <2>3. IsFiniteSet(numbers) /\ Cardinality(numbers) = k
    BY <2>1, <2>2
  <2>4. IsFiniteSet({n}) /\ Cardinality({n}) = 1
    BY FS_Singleton
  <2> HIDE DEF numbers
  <2>5. IsFiniteSet(new) /\ Cardinality(new) = 1 * k
    BY <2>3, <2>4, FS_Product
  <2> QED BY <2>5
<1>5. IsFiniteSet(Stamps(f, S)) /\ Cardinality(Stamps(f, S)) \in Nat
  BY StampsFinite DEF Sum
<1>6. Cardinality(Stamps(g, S)) = Cardinality(Stamps(f, S)) + Cardinality(new) - Cardinality({})
  BY <1>2, <1>3, <1>4, <1>5, FS_Union
<1> QED BY <1>4, <1>5, <1>6, FS_EmptySet DEF Sum
-----------------------------------------------------------------------------
\* The types of the server's tables and of its handlers.  Only a handler that
\* is idle has no request.
Stages == {"idle", "anyAsk", "anyCheck", "anyOk", "ask", "check", "ok", "fail", "clock", "charge"}
TableType ==
    /\ now \in Times
    /\ DOMAIN table \subseteq Ips
    /\ \A ip \in DOMAIN table : table[ip].count \in Nat /\ table[ip].until \in Int
    /\ early \in [Ips -> Nat]
    /\ events \in [Times -> Nat] /\ admitted \in [Times -> Nat]
HandlerType ==
    /\ stage \in [Handlers -> Stages]
    /\ req \in [Handlers -> Asks \union {NoRequest}]
    /\ \A h \in Handlers : stage[h] # "idle" => req[h] \in Asks
    /\ stamp \in [Handlers -> Times]
GateType == TableType /\ HandlerType

\* During a block the evaluations that have happened and those that are still
\* to come leave out one handler: the one whose failure began the block.
Evaluating(ip) == {h \in Handlers : stage[h] \in {"check", "anyCheck"} /\ req[h].ip = ip}
LetThrough ==
    \A ip \in Ips : blocked_for(ip) > 0 =>
        early[ip] + Cardinality(Evaluating(ip)) < Cardinality(Handlers)

\* What _events says is at least what was admitted: a segment admitted at or
\* after t has a timestamp of t - Delay or later, and those are not dropped
\* as long as t's window of real time, which is Delay shorter, is open.
Since(t) == {u \in Times : t <= u}
Charging ==
    /\ Sum(events, Times) <= Limit
    /\ \A h \in Handlers : stage[h] = "charge" => stamp[h] <= now /\ now <= stamp[h] + Delay
    /\ \A t \in Times : now < t + Window - Delay =>
          Sum(admitted, Since(t)) <= Sum(events, Since(t - Delay))
    /\ RateBound

\* A step of the server: time, a new request, a handler.
GateStep == Tick \/ \E h \in Handlers : (\E r \in Asks : Begin(h, r)) \/ Handle(h)

\* _any_scope may ask for "receive" instead; the rest of the request stays.
LEMMA AsksType ==
    ASSUME NEW r \in Asks
    PROVE  /\ r.ip \in Ips /\ r.segments \in Nat
           /\ [r EXCEPT !.need = "receive"] \in Asks
           /\ [r EXCEPT !.need = "receive"].ip = r.ip
BY GateAssumption DEF Asks

\* The clock starts at 0.
LEMMA TimesFrom0 == 0 \in Times /\ Times \subseteq Nat
BY GateAssumption DEF Times

\* A server that starts has no failures, no timestamps and no requests.
LEMMA GateInitially == GateInit => GateType /\ LetThrough /\ Charging
<1> SUFFICES ASSUME GateInit PROVE GateType /\ LetThrough /\ Charging
  OBVIOUS
<1>1. GateType
  BY GateAssumption DEF GateInit, GateType, TableType, HandlerType, Times, Stages
<1>2. LetThrough
  BY DEF GateInit, LetThrough, blocked_for, Until
<1>3. \A S \in SUBSET Times : Sum(events, S) = 0 /\ Sum(admitted, S) = 0
  <2> TAKE S \in SUBSET Times
  <2>1. Stamps(events, S) = {} /\ Stamps(admitted, S) = {}
    BY DEF GateInit, Stamps, Times
  <2> QED BY <2>1, FS_EmptySet DEF Sum
<1>4. Charging
  BY <1>3, GateAssumption DEF GateInit, Charging, RateBound, Since, Times
<1> QED BY <1>1, <1>2, <1>4

\* Every step keeps the types of the handlers, ...
LEMMA HandlerTypeStep ==
    ASSUME GateType, GateStep
    PROVE  HandlerType'
<1> USE DEF GateType, TableType, HandlerType, Stages, Goto
<1>1. ASSUME NEW h \in Handlers, NEW r \in Asks, Begin(h, r)
      PROVE  HandlerType'
  BY <1>1 DEF Begin
<1>2. ASSUME NEW h \in Handlers, AnyAsk(h) \/ AnyCheck(h)
      PROVE  HandlerType'
  <2>1. req[h] \in Asks
    BY <1>2 DEF AnyAsk, AnyCheck
  <2>2. \/ UNCHANGED req
        \/ req' = [req EXCEPT ![h].need = "receive"]
    BY <1>2 DEF AnyAsk, AnyCheck
  <2>3. /\ req' \in [Handlers -> Asks \union {NoRequest}] /\ req'[h] \in Asks
        /\ \A u \in Handlers \ {h} : req'[u] = req[u]
    BY <2>1, <2>2, AsksType
  <2> QED BY <1>2, <2>3 DEF AnyAsk, AnyCheck
<1>3. ASSUME NEW h \in Handlers, Respond(h)
      PROVE  HandlerType'
  BY <1>3, TimesFrom0 DEF Respond
<1>4. ASSUME NEW h \in Handlers, Ask(h) \/ Check(h) \/ Ok(h) \/ ReadClock(h)
      PROVE  HandlerType'
  BY <1>3, <1>4 DEF Ask, Check, Ok, ReadClock
<1> QED BY <1>1, <1>2, <1>3, <1>4 DEF GateStep, Handle, Tick, Fail, AnyOk, Charge, Unlimited

\* ... and those of the tables.
LEMMA TableTypeStep ==
    ASSUME GateType, GateStep
    PROVE  TableType'
<1> USE DEF GateType, TableType
<1>1. CASE Tick
  BY <1>1, GateAssumption DEF Tick, Times
<1>2. ASSUME NEW h \in Handlers, stage[h] # "idle"
      PROVE  req[h].ip \in Ips /\ req[h].segments \in Nat
  BY <1>2, AsksType DEF HandlerType
<1>3. ASSUME NEW h \in Handlers, AnyCheck(h) \/ Check(h)
      PROVE  TableType'
  BY <1>2, <1>3 DEF AnyCheck, Check, Evaluated
<1>4. ASSUME NEW h \in Handlers, Fail(h)
      PROVE  TableType'
  <2> DEFINE ip == req[h].ip
             entry == [count |-> CountOf(ip) + 1, until |-> now + DelayAfter(CountOf(ip) + 1)]
             kept == [i \in DOMAIN table \union {ip} |-> IF i = ip THEN entry ELSE table[i]]
  <2>1. ip \in Ips
    BY <1>2, <1>4 DEF Fail
  <2>2. CountOf(ip) \in Nat
    BY DEF CountOf
  <2>3. DelayAfter(CountOf(ip) + 1) \in Int
    BY <2>2, GateAssumption DEF DelayAfter
  <2>4. entry.count \in Nat /\ entry.until \in Int
    BY <2>2, <2>3, TimesFrom0
  <2>5. table' = [i \in {} |-> 0] \/ table' = kept
    BY <1>4 DEF Fail
  <2>6. DOMAIN table' \subseteq Ips
    BY <2>1, <2>5
  <2>7. \A i \in DOMAIN table' : table'[i].count \in Nat /\ table'[i].until \in Int
    BY <2>4, <2>5
  <2>8. early' \in [Ips -> Nat]
    BY <1>4, <2>1 DEF Fail
  <2> QED BY <1>4, <2>6, <2>7, <2>8 DEF Fail
<1>5. ASSUME NEW h \in Handlers, Ok(h) \/ AnyOk(h)
      PROVE  TableType'
  BY <1>5 DEF Ok, AnyOk, Forget
<1>6. ASSUME NEW h \in Handlers, Charge(h)
      PROVE  TableType'
  BY <1>2, <1>6 DEF Charge, Recent, HandlerType
<1> QED BY <1>1, <1>3, <1>4, <1>5, <1>6
        DEF GateStep, Handle, Begin, AnyAsk, Ask, ReadClock, Unlimited

\* Cardinalities of sets of handlers.
LEMMA HandlersCounted ==
    ASSUME NEW S \in SUBSET Handlers
    PROVE  /\ Cardinality(S) \in Nat /\ Cardinality(Handlers) \in Nat
           /\ \A T \in SUBSET S : Cardinality(T) <= Cardinality(S)
           /\ \A h \in S : Cardinality(S \ {h}) = Cardinality(S) - 1
<1>1. IsFiniteSet(S)
  BY GateAssumption, FS_Subset
<1>2. Cardinality(S) \in Nat /\ Cardinality(Handlers) \in Nat
  BY <1>1, GateAssumption, FS_CardinalityType
<1>3. \A h \in S : Cardinality(S \ {h}) = Cardinality(S) - 1
  BY <1>1, FS_RemoveElement
<1> QED BY <1>1, <1>2, <1>3, FS_Subset

\* A block begins with a failure outside a block, which sets the count of
\* evaluations to 0; in a block an evaluation moves one handler from those to
\* come to those that were, and Ask and AnyAsk let no more through.
LEMMA LetThroughStep ==
    ASSUME GateType, GateType', LetThrough, GateStep
    PROVE  LetThrough'
<1> USE DEF GateType, TableType, HandlerType
<1> SUFFICES ASSUME NEW ip \in Ips, (blocked_for(ip) > 0)'
             PROVE  early'[ip] + Cardinality(Evaluating(ip)') < Cardinality(Handlers)
  BY DEF LetThrough
<1> DEFINE before == Evaluating(ip)
           after == Evaluating(ip)'
<1>a. before \in SUBSET Handlers /\ after \in SUBSET Handlers
  BY DEF Evaluating
<1>b. Cardinality(before) \in Nat /\ Cardinality(after) \in Nat /\ Cardinality(Handlers) \in Nat
  BY <1>a, HandlersCounted
<1>c. blocked_for(ip) > 0 => early[ip] + Cardinality(before) < Cardinality(Handlers)
  BY DEF LetThrough
<1>d. /\ blocked_for(ip) > 0 <=> Until(ip) > now
      /\ Until(ip)' > now'
  <2>1. Until(ip) \in Int /\ now \in Int
    BY TimesFrom0 DEF Until
  <2>2. Until(ip)' \in Int /\ now' \in Int
    BY TimesFrom0 DEF Until
  <2> QED BY <2>1, <2>2 DEF blocked_for
<1> HIDE DEF before, after
<1>1. CASE blocked_for(ip) > 0 /\ early'[ip] = early[ip] /\ after \subseteq before
  <2>1. Cardinality(after) <= Cardinality(before)
    BY <1>1, <1>a, HandlersCounted
  <2> QED BY <1>1, <1>b, <1>c, <2>1 DEF after
<1>2. ASSUME NEW h \in before, blocked_for(ip) > 0, early'[ip] = early[ip] + 1,
             after \subseteq before \ {h}
      PROVE  early'[ip] + Cardinality(after) < Cardinality(Handlers)
  <2>1. Cardinality(before \ {h}) = Cardinality(before) - 1
    BY <1>a, HandlersCounted
  <2>2. Cardinality(after) <= Cardinality(before \ {h})
    BY <1>2, <1>a, HandlersCounted
  <2> QED BY <1>2, <1>b, <1>c, <2>1, <2>2
<1>3. ASSUME NEW h \in Handlers, early'[ip] = 0, h \notin after
      PROVE  early'[ip] + Cardinality(after) < Cardinality(Handlers)
  <2>1. Cardinality(Handlers \ {h}) = Cardinality(Handlers) - 1
    BY HandlersCounted
  <2>2. Cardinality(after) <= Cardinality(Handlers \ {h})
    BY <1>3, <1>a, HandlersCounted
  <2> QED BY <1>3, <1>b, <2>1, <2>2
<1> USE DEF before, after
<1>4. ASSUME UNCHANGED <<now, table>>
      PROVE  blocked_for(ip) > 0
  BY <1>4 DEF blocked_for, Until
<1>5. CASE Tick
  <2>1. blocked_for(ip) > 0
    <3>1. Until(ip)' = Until(ip) /\ now' = now + 1
      BY <1>5 DEF Tick, Until
    <3>2. Until(ip) \in Int /\ now \in Int
      BY TimesFrom0 DEF Until
    <3> QED BY <1>d, <3>1, <3>2
  <2> QED BY <1>5, <1>1, <2>1 DEF Tick, Evaluating
<1>6. ASSUME NEW h \in Handlers, NEW r \in Asks, Begin(h, r)
      PROVE  early'[ip] + Cardinality(after) < Cardinality(Handlers)
  <2>1. after \subseteq before
    BY <1>6 DEF Begin, Goto, Evaluating
  <2> QED BY <1>6, <1>1, <1>4, <2>1 DEF Begin
<1>7. ASSUME NEW h \in Handlers, AnyAsk(h) \/ Ask(h)
      PROVE  early'[ip] + Cardinality(after) < Cardinality(Handlers)
  <2>1. blocked_for(ip) > 0
    BY <1>7, <1>4 DEF AnyAsk, Ask
  <2>2. after \subseteq before
    BY <1>7, <2>1 DEF AnyAsk, Ask, Goto, Respond, Evaluating
  <2> QED BY <1>7, <1>1, <2>1, <2>2 DEF AnyAsk, Ask
<1>8. ASSUME NEW h \in Handlers, AnyCheck(h) \/ Check(h)
      PROVE  early'[ip] + Cardinality(after) < Cardinality(Handlers)
  <2>1. blocked_for(ip) > 0
    BY <1>8, <1>4 DEF AnyCheck, Check
  <2>2. after \subseteq before \ {h}
    BY <1>8 DEF AnyCheck, Check, Goto, Evaluating
  <2>3. CASE req[h].ip = ip
    <3>1. h \in before
      BY <1>8, <2>3 DEF AnyCheck, Check, Evaluating
    <3>2. early'[ip] = early[ip] + 1
      BY <1>8, <2>1, <2>3 DEF AnyCheck, Check, Evaluated
    <3> QED BY <1>2, <2>1, <2>2, <3>1, <3>2
  <2>4. CASE req[h].ip # ip
    <3>1. early'[ip] = early[ip]
      BY <1>8, <2>4 DEF AnyCheck, Check, Evaluated
    <3> QED BY <1>1, <2>1, <2>2, <3>1
  <2> QED BY <2>3, <2>4
<1>9. ASSUME NEW h \in Handlers, Fail(h)
      PROVE  early'[ip] + Cardinality(after) < Cardinality(Handlers)
  <2>1. after \subseteq before /\ h \notin after
    BY <1>9 DEF Fail, Respond, Goto, Evaluating
  <2>2. CASE req[h].ip = ip /\ blocked_for(ip) = 0
    <3>1. early'[ip] = 0
      BY <1>9, <2>2 DEF Fail
    <3> QED BY <1>3, <2>1, <3>1
  <2>3. CASE ~(req[h].ip = ip /\ blocked_for(ip) = 0)
    <3>1. early'[ip] = early[ip]
      BY <1>9, <2>3 DEF Fail
    <3>2. blocked_for(ip) > 0
      <4>1. CASE req[h].ip = ip
        <5>1. blocked_for(ip) \in Int /\ blocked_for(ip) >= 0
          BY TimesFrom0 DEF blocked_for, Until
        <5> QED BY <2>3, <4>1, <5>1
      <4>2. CASE req[h].ip # ip
        <5>1. now' = now /\ (Until(ip)' = Until(ip) \/ Until(ip)' = 0)
          BY <1>9, <4>2 DEF Fail, Until
        <5> QED BY <1>d, <5>1, TimesFrom0
      <4> QED BY <4>1, <4>2
    <3> QED BY <1>1, <2>1, <3>1, <3>2
  <2> QED BY <2>2, <2>3
<1>10. ASSUME NEW h \in Handlers, AnyOk(h) \/ Ok(h)
       PROVE  early'[ip] + Cardinality(after) < Cardinality(Handlers)
  <2>1. blocked_for(ip) > 0
    <3>1. now' = now /\ (Until(ip)' = Until(ip) \/ Until(ip)' = 0)
      BY <1>10 DEF AnyOk, Ok, Forget, Until
    <3> QED BY <1>d, <3>1, TimesFrom0
  <2>2. after \subseteq before
    BY <1>10 DEF AnyOk, Ok, Goto, Respond, Evaluating
  <2> QED BY <1>10, <1>1, <2>1, <2>2 DEF AnyOk, Ok
<1>11. ASSUME NEW h \in Handlers, ReadClock(h) \/ Charge(h) \/ Unlimited(h)
       PROVE  early'[ip] + Cardinality(after) < Cardinality(Handlers)
  <2>1. after \subseteq before
    BY <1>11 DEF ReadClock, Charge, Unlimited, Goto, Respond, Evaluating
  <2> QED BY <1>11, <1>1, <1>4, <2>1 DEF ReadClock, Charge, Unlimited
<1> QED BY <1>5, <1>6, <1>7, <1>8, <1>9, <1>10, <1>11 DEF GateStep, Handle

\* RateLimit.allow with the lock: the timestamps it drops are out of every
\* open window, and the ones it adds are in every window the charge is in.
LEMMA ChargeStep ==
    ASSUME GateType, GateType', Charging, NEW h \in Handlers, Charge(h)
    PROVE  Charging'
<1> USE DEF GateType, TableType, HandlerType
<1> DEFINE n == now
           s == stamp[h]
           k == req[h].segments
           recent == Recent(h)
<1>1. /\ n \in Times /\ s \in Times /\ k \in Nat /\ recent \in [Times -> Nat]
      /\ s <= n /\ n <= s + Delay /\ stage[h] = "charge"
  BY AsksType DEF Charge, Charging, Recent
<1>a. \A t \in Times : recent[t] = IF s - t < Window THEN events[t] ELSE 0
  BY DEF Recent
<1>b. IF Sum(recent, Times) + k <= Limit
      THEN events' = [recent EXCEPT ![s] = @ + k] /\ admitted' = [admitted EXCEPT ![n] = @ + k]
      ELSE events' = recent /\ admitted' = admitted
  BY DEF Charge, Fits
<1>8. now' = n
  BY DEF Charge
<1>c. /\ Sum(events, Times) <= Limit /\ RateBound
      /\ \A t \in Times : n < t + Window - Delay => Sum(admitted, Since(t)) <= Sum(events, Since(t - Delay))
  BY DEF Charging
<1>7. \A u \in Handlers : stage'[u] = "charge" =>
        stamp'[u] <= n /\ n <= stamp'[u] + Delay
  BY DEF Charge, Respond, Goto, Charging
<1> HIDE DEF n, s, k, recent
<1>2. /\ Delay \in Nat /\ Window \in Nat /\ Limit \in Nat /\ Times \subseteq Nat
  BY GateAssumption, TimesFrom0
<1>3. \A t \in Times : Since(t - Delay) \in SUBSET Times /\ Since(t) \in SUBSET Times
  BY DEF Since
<1>4. \A S \in SUBSET Times :
        /\ Sum(recent, S) \in Nat /\ Sum(events, S) \in Nat /\ Sum(admitted, S) \in Nat
        /\ Sum(events', S) \in Nat /\ Sum(admitted', S) \in Nat
  BY <1>1, StampsFinite
<1>5. Sum(recent, Times) <= Sum(events, Times)
  <2>1. \A t \in Times : recent[t] <= events[t]
    BY <1>a
  <2> QED BY <1>1, <2>1, SumMonotonic
<1>6. \A t \in Times : n < t + Window - Delay =>
        Sum(events, Since(t - Delay)) <= Sum(recent, Since(t - Delay))
  <2> SUFFICES ASSUME NEW t \in Times, n < t + Window - Delay
               PROVE  Sum(events, Since(t - Delay)) <= Sum(recent, Since(t - Delay))
    OBVIOUS
  <2>1. \A u \in Since(t - Delay) : s - u < Window
    <3> SUFFICES ASSUME NEW u \in Times, t - Delay <= u PROVE s - u < Window
      BY DEF Since
    <3>1. s \in Int /\ n \in Int /\ t \in Int /\ u \in Int
      BY <1>1, <1>2
    <3> QED BY <3>1, <1>1, <1>2
  <2>2. \A u \in Since(t - Delay) : events[u] <= recent[u]
    BY <2>1, <1>a DEF Since
  <2> QED BY <1>1, <1>3, <2>2, SumMonotonic
<1>9. CASE ~(Sum(recent, Times) + k <= Limit)
  <2>1. events' = recent /\ admitted' = admitted
    BY <1>9, <1>b
  <2>2. Sum(events', Times) <= Limit
    BY <2>1, <1>2, <1>4, <1>5, <1>c
  <2>3. \A t \in Times : now' < t + Window - Delay =>
          Sum(admitted', Since(t)) <= Sum(events', Since(t - Delay))
    BY <2>1, <1>3, <1>4, <1>6, <1>8, <1>c
  <2> QED BY <2>1, <2>2, <2>3, <1>7, <1>8, <1>c DEF Charging, RateBound
<1>10. CASE Sum(recent, Times) + k <= Limit
  <2>1. events' = [recent EXCEPT ![s] = @ + k] /\ admitted' = [admitted EXCEPT ![n] = @ + k]
    BY <1>10, <1>b
  <2>7. /\ events'[s] = recent[s] + k /\ \A u \in Times \ {s} : events'[u] = recent[u]
        /\ admitted'[n] = admitted[n] + k /\ \A u \in Times \ {n} : admitted'[u] = admitted[u]
    BY <1>1, <2>1
  <2>2. Sum(events', Times) = Sum(recent, Times) + k
    <3>1. /\ recent \in [Times -> Nat] /\ events' \in [Times -> Nat]
          /\ Times \in SUBSET Times /\ s \in Times /\ k \in Nat
      BY <1>1
    <3> HIDE DEF GateType, TableType, HandlerType
    <3> QED BY <2>7, <3>1, SumAdd
  <2>3. Sum(events', Times) <= Limit
    BY <2>2, <1>10
  <2>6. /\ \A u \in Times : recent[u] <= events'[u]
        /\ \A u \in Times \ {n} : admitted'[u] = admitted[u]
    BY <1>1, <2>1
  <2>4. ASSUME NEW t \in Times, n < t + Window - Delay
        PROVE  Sum(admitted', Since(t)) <= Sum(events', Since(t - Delay))
    <3>1. Sum(admitted, Since(t)) <= Sum(events, Since(t - Delay))
      BY <2>4, <1>c
    <3>2. Sum(recent, Since(t - Delay)) <= Sum(events', Since(t - Delay))
      BY <1>1, <1>3, <2>6, SumMonotonic
    <3>3. CASE n \in Since(t)
      <4>1. s \in Since(t - Delay)
        <5>1. s \in Int /\ n \in Int /\ t \in Int /\ t <= n
          BY <3>3, <1>1, <1>2 DEF Since
        <5> QED BY <5>1, <1>1, <1>2 DEF Since
      <4>2. Sum(events', Since(t - Delay)) = Sum(recent, Since(t - Delay)) + k
        <5>1. \A u \in Since(t - Delay) \ {s} : events'[u] = recent[u]
          BY <1>3, <2>7
        <5>2. /\ recent \in [Times -> Nat] /\ events' \in [Times -> Nat]
              /\ Since(t - Delay) \in SUBSET Times /\ s \in Since(t - Delay) /\ k \in Nat
          BY <1>1, <1>3, <4>1
        <5> HIDE DEF GateType, TableType, HandlerType
        <5> QED BY <5>1, <5>2, <2>7, SumAdd
      <4>3. Sum(admitted', Since(t)) = Sum(admitted, Since(t)) + k
        <5>1. \A u \in Since(t) \ {n} : admitted'[u] = admitted[u]
          BY <1>3, <2>7
        <5> QED BY <5>1, <3>3, <1>1, <1>3, <2>7, SumAdd
      <4> QED BY <4>2, <4>3, <3>1, <1>6, <1>1, <1>3, <1>4, <2>4
    <3>4. CASE n \notin Since(t)
      <4>1. \A u \in Since(t) : admitted'[u] = admitted[u]
        BY <3>4, <1>3, <2>6
      <4>2. Sum(admitted', Since(t)) <= Sum(admitted, Since(t))
        <5>1. \A u \in Since(t) : admitted'[u] <= admitted[u]
          BY <4>1, <1>3
        <5> QED BY <5>1, <1>3, SumMonotonic
      <4> QED BY <4>2, <3>1, <3>2, <1>6, <1>3, <1>4, <2>4
    <3> QED BY <3>3, <3>4
  <2>5. RateBound'
    <3> SUFFICES ASSUME Limit > 0, NEW t \in Times
                 PROVE  Sum(admitted', {u \in Times : t <= u /\ u < t + Window - Delay}) <= Limit
      BY DEF RateBound
    <3> DEFINE window == {u \in Times : t <= u /\ u < t + Window - Delay}
    <3>1. CASE n \in window
      <4>1. Sum(admitted', window) <= Sum(admitted', Since(t))
        <5>1. window \subseteq Since(t) /\ \A u \in window : admitted'[u] <= admitted'[u]
          BY DEF Since
        <5> QED BY <5>1, <1>3, SumMonotonic
      <4>2. Sum(admitted', Since(t)) <= Sum(events', Since(t - Delay))
        BY <3>1, <2>4
      <4>3. Sum(events', Since(t - Delay)) <= Sum(events', Times)
        <5>1. \A u \in Since(t - Delay) : events'[u] <= events'[u]
          BY <1>3
        <5> QED BY <5>1, <1>3, SumMonotonic
      <4> QED BY <4>1, <4>2, <4>3, <2>3, <1>2, <1>3, <1>4
    <3>2. CASE n \notin window
      <4>1. Sum(admitted', window) <= Sum(admitted, window)
        <5>1. \A u \in window : admitted'[u] <= admitted[u]
          BY <3>2, <2>6
        <5> QED BY <5>1, SumMonotonic
      <4>2. Sum(admitted, window) <= Limit
        BY <1>c DEF RateBound
      <4> QED BY <4>1, <4>2, <1>2, <1>4
    <3> QED BY <3>1, <3>2
  <2> QED BY <2>3, <2>4, <2>5, <1>7, <1>8 DEF Charging
<1> QED BY <1>9, <1>10

\* No other step charges; the time between clock and lock is at most Delay.
LEMMA ChargingStep ==
    ASSUME GateType, GateType', Charging, GateStep
    PROVE  Charging'
<1> USE DEF GateType, TableType, HandlerType
<1>1. ASSUME UNCHANGED <<events, admitted>>, now <= now',
             \A h \in Handlers : stage'[h] = "charge" =>
                stamp'[h] <= now' /\ now' <= stamp'[h] + Delay
      PROVE  Charging'
  <2>1. \A t \in Times : now' < t + Window - Delay => now < t + Window - Delay
    BY <1>1, TimesFrom0, GateAssumption
  <2> QED BY <1>1, <2>1 DEF Charging, RateBound
<1>2. CASE Tick
  <2>1. now \in Nat /\ now' = now + 1
    BY <1>2, TimesFrom0 DEF Tick
  <2>2. ASSUME NEW h \in Handlers, stage'[h] = "charge"
        PROVE  stamp'[h] <= now' /\ now' <= stamp'[h] + Delay
    <3>1. stage[h] = "charge" /\ stamp'[h] = stamp[h] /\ now' <= stamp[h] + Delay
      BY <1>2, <2>2 DEF Tick
    <3>2. stamp[h] <= now /\ stamp[h] \in Nat
      BY <3>1, TimesFrom0 DEF Charging
    <3> QED BY <3>1, <3>2, <2>1
  <2> QED BY <1>1, <1>2, <2>1, <2>2 DEF Tick
<1>3. ASSUME NEW h \in Handlers, Charge(h)
      PROVE  Charging'
  BY <1>3, ChargeStep
<1>4. ASSUME NEW h \in Handlers, ReadClock(h)
      PROVE  Charging'
  <2>1. stamp'[h] <= now' /\ now' <= stamp'[h] + Delay
    BY <1>4, TimesFrom0, GateAssumption DEF ReadClock
  <2>2. now <= now'
    BY <1>4, TimesFrom0 DEF ReadClock
  <2> QED BY <1>1, <1>4, <2>1, <2>2 DEF ReadClock, Goto, Charging
<1>5. ASSUME NEW h \in Handlers, UNCHANGED <<events, admitted, now>>,
             stage'[h] # "charge", \A u \in Handlers \ {h} : stage'[u] = stage[u] /\ stamp'[u] = stamp[u]
      PROVE  Charging'
  BY <1>1, <1>5, TimesFrom0 DEF Charging
<1>6. ASSUME NEW h \in Handlers, NEW r \in Asks, Begin(h, r)
      PROVE  Charging'
  BY <1>5, <1>6 DEF Begin, Goto
<1>7. ASSUME NEW h \in Handlers, Respond(h)
      PROVE  stage'[h] # "charge" /\ \A u \in Handlers \ {h} : stage'[u] = stage[u] /\ stamp'[u] = stamp[u]
  BY <1>7 DEF Respond, Goto
<1>8. ASSUME NEW h \in Handlers,
             AnyAsk(h) \/ AnyCheck(h) \/ AnyOk(h) \/ Ask(h) \/ Check(h) \/ Fail(h) \/ Ok(h) \/ Unlimited(h)
      PROVE  Charging'
  <2>1. UNCHANGED <<events, admitted, now>>
    BY <1>8 DEF AnyAsk, AnyCheck, AnyOk, Ask, Check, Fail, Ok, Unlimited
  <2>2. stage'[h] # "charge" /\ \A u \in Handlers \ {h} : stage'[u] = stage[u] /\ stamp'[u] = stamp[u]
    BY <1>7, <1>8 DEF AnyAsk, AnyCheck, AnyOk, Ask, Check, Fail, Ok, Unlimited, Goto
  <2> QED BY <1>5, <2>1, <2>2
<1> QED BY <1>2, <1>3, <1>4, <1>6, <1>8 DEF GateStep, Handle

\* The inductive invariant of the server's side.
GateInv == GateType /\ LetThrough /\ Charging

\* It holds in every reachable state, also with clients that use the server.
LEMMA GateAlways == Spec => []GateInv
<1>1. Init => GateInv
  BY GateInitially DEF Init, GateInv
<1>2. GateInv /\ [Next]_vars => GateInv'
  <2> SUFFICES ASSUME GateInv, [Next]_vars PROVE GateInv'
    OBVIOUS
  <2>1. CASE GateStep
    BY <2>1, HandlerTypeStep, TableTypeStep, LetThroughStep, ChargingStep DEF GateInv, GateType
  <2>2. CASE UNCHANGED gateVars
    BY <2>2 DEF gateVars, GateInv, GateType, TableType, HandlerType, LetThrough, blocked_for, Until,
                Evaluating, Charging, RateBound
  <2>3. GateStep \/ UNCHANGED gateVars
    BY AccessAssumption DEF Next, vars, Request, Close, OtherRequest, GateStep, gateVars
  <2> QED BY <2>1, <2>2, <2>3
<1> QED BY <1>1, <1>2, PTL DEF Spec

\* RateBound: no more than Limit segments are admitted within Window - Delay
\* of real time (auth.py RateLimit.allow), however handlers overtake each
\* other between the reading of the clock and the lock.
THEOREM RateLimited == Spec => []RateBound
<1>1. GateInv => RateBound
  BY DEF GateInv, Charging
<1> QED BY <1>1, GateAlways, PTL

\* GuessesWhileBlocked: while an address is blocked, fewer credentials are
\* evaluated than there are handlers (auth.py Backoff, api.py _authorize and
\* _any_scope), although the question and the evaluation are separate steps.
THEOREM GuessingBounded == Spec => []GuessesWhileBlocked
<1>1. GateInv => GuessesWhileBlocked
  <2> SUFFICES ASSUME GateInv, NEW ip \in Ips, blocked_for(ip) > 0
               PROVE  early[ip] < Cardinality(Handlers)
    BY DEF GuessesWhileBlocked
  <2>1. early[ip] + Cardinality(Evaluating(ip)) < Cardinality(Handlers)
    BY DEF GateInv, LetThrough
  <2>2. Evaluating(ip) \in SUBSET Handlers /\ early[ip] \in Nat
    BY DEF GateInv, GateType, TableType, Evaluating
  <2>3. Cardinality(Evaluating(ip)) \in Nat /\ Cardinality(Handlers) \in Nat
    BY <2>2, HandlersCounted
  <2> QED BY <2>1, <2>2, <2>3
<1> QED BY <1>1, GateAlways, PTL
=============================================================================
