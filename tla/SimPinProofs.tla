---------------------------- MODULE SimPinProofs ----------------------------
(***************************************************************************)
(* Proofs about module SimPin: the attempts a SIM card allows are spent as *)
(* worker.py and api.py promise, for any number of concurrent callers, any *)
(* cap, and any number of replugs, timeouts, restarts and errors.          *)
(***************************************************************************)
EXTENDS SimPin, FiniteSetTheorems, TLAPS

\* What a caller may be told, and the types of all variables.
Refusals == {"pin_configured", "pin_locked", "pin_not_required", "bad_pin"}
Answers == Refusals \union States \union {"none", "pin_timeout"}
Types == TypeOK /\ answer \in [Requests -> Answers] /\ errors \in Nat

\* Where a request's PIN can be: nowhere yet, in the queue of jobs once, or with
\* the worker.  It is unsent until the worker sends it, and a caller that was
\* refused has none; callers get that far only while no PIN is configured.
Early == {"idle", "checked", "accepted"}
In(r, s) == \E i \in 1 .. Len(s) : s[i] = r
Distinct(s) == \A i, j \in 1 .. Len(s) : s[i] = s[j] => i = j
Queued(r) == In(r, jobs)
Held(r) == submitting = <<r>>
Call(r) ==
    /\ sent[r] <= 1
    /\ Queued(r) => sent[r] = 0 /\ ~Held(r)
    /\ Held(r) /\ pc = "pin" => sent[r] = 0
    /\ at[r] \in Early \/ answer[r] \in Refusals => ~Queued(r) /\ ~Held(r) /\ sent[r] = 0
    /\ at[r] # "done" => answer[r] = "none"
    /\ Queued(r) \/ Held(r) \/ at[r] \in {"checked", "accepted"} => sim_pin = NoPin
Calls == Distinct(jobs) /\ \A r \in Requests : Call(r)

\* Both counters are raised before the command: each is ahead of the attempts
\* by the one that is about to be made, or was cut off.
Counters ==
    /\ IsFiniteSet(Submissions)
    /\ Cardinality(Submissions) + (IF pc = "pin" THEN 1 ELSE 0) <= pin_submissions
    /\ env_pin_tries = spent + (IF pc = "env" THEN 1 ELSE 0)
    /\ pc = "asked" => spent > 0

\* What the worker relies on when it sends a PIN: in the serve loop it knows
\* the card's state, or that it does not.
Known ==
    /\ SentOnlyWhenAsked
    /\ HealthIsCurrent
    /\ ConfiguredPinUnlocks
    /\ pc = "setup" /\ alive => CardState = "ready" /\ health_sim = "ready"

\* What an attempt and a replug make of a card is a card.
LEMMA CardsType ==
    ASSUME NEW c \in Cards
    PROVE  /\ \A p \in Pins : NewCard(p) \in Cards
           /\ [c EXCEPT !.locked = TRUE] \in Cards
           /\ [c EXCEPT !.left = CardTries, !.locked = FALSE] \in Cards
           /\ c.left # 0 => [c EXCEPT !.left = @ - 1] \in Cards
<1>1. \A p \in Pins : NewCard(p) \in Cards
  BY SimPinAssumption DEF Cards, NewCard
<1>2. [c EXCEPT !.locked = TRUE] \in Cards
  BY DEF Cards
<1>3. [c EXCEPT !.left = CardTries, !.locked = FALSE] \in Cards
  <2>1. CardTries \in 0 .. CardTries /\ FALSE \in BOOLEAN
    BY SimPinAssumption
  <2>2. [c EXCEPT !.left = CardTries] \in Cards
    BY <2>1 DEF Cards
  <2> QED BY <2>1, <2>2 DEF Cards
<1>4. c.left # 0 => [c EXCEPT !.left = @ - 1] \in Cards
  BY SimPinAssumption DEF Cards
<1> QED BY <1>1, <1>2, <1>3, <1>4

\* A server that starts, with any configuration and any card.
LEMMA Initially == Init => Types /\ Calls /\ Counters /\ Known
<1> SUFFICES ASSUME Init PROVE Types /\ Calls /\ Counters /\ Known
  OBVIOUS
<1>1. Types
  <2>1. card \in Cards
    <3>1. PICK p \in Pins : card = NewCard(p)
      BY DEF Init
    <3> QED BY <3>1, SimPinAssumption DEF NewCard, Cards
  <2> QED BY <2>1, SimPinAssumption DEF Init, Types, TypeOK, Answers, States, Cap
<1>2. Calls
  BY DEF Init, Calls, Call, Distinct, In, Queued, Held, Refusals
<1>3. Counters
  <2>1. Submissions = {}
    BY DEF Init, Submissions
  <2> QED BY <2>1, FS_EmptySet DEF Init, Counters
<1>4. Known
  BY DEF Init, Known, SentOnlyWhenAsked, HealthIsCurrent, ConfiguredPinUnlocks
<1> QED BY <1>1, <1>2, <1>3, <1>4

\* Every step keeps the type of the card, ...
LEMMA CardStep ==
    ASSUME Types, [Next]_vars
    PROVE  card' \in Cards
<1>1. ASSUME NEW p, Attempt(p)
      PROVE  card' \in Cards
  BY <1>1, CardsType DEF Attempt, Types, TypeOK
<1>2. CASE Replug
  BY <1>2, CardsType DEF Replug, Types, TypeOK
<1>3. card \in Cards
  BY DEF Types, TypeOK
<1> QED BY <1>1, <1>2, <1>3
        DEF Next, Worker, CheckCap, CheckSim, Submit, GiveUp, Open, Unlock, EnvPin, Asked, DoPin,
            EnterPin, Entered, SetUp, PortLost, Timeout, Restart, vars

\* ... and of everything else.
LEMMA TypesStep ==
    ASSUME Types, [Next]_vars
    PROVE  Types'
<1>a. card' \in Cards
  BY CardStep
<1> HIDE DEF Cards
<1> USE <1>a, SimPinAssumption DEF Types, TypeOK, Cap
<1>1. ASSUME NEW r \in Requests, CheckCap(r) \/ CheckSim(r)
      PROVE  Types'
  BY <1>1 DEF CheckCap, CheckSim, Tell, Goto, workerVars, faultVars, Answers, Refusals
<1>2. ASSUME NEW r \in Requests, Submit(r)
      PROVE  Types'
  BY <1>2 DEF Submit, Goto, workerVars, faultVars
<1>3. ASSUME NEW r \in Requests, GiveUp(r)
      PROVE  Types'
  BY <1>3 DEF GiveUp, Tell, Goto, workerVars, faultVars, Answers, Refusals
<1>4. CASE Open
  BY <1>4 DEF Open, requestVars, faultVars
<1>5. CASE Unlock
  BY <1>5 DEF Unlock, Ask, HasTry, Show, requestVars
<1>6. CASE EnvPin
  BY <1>6 DEF EnvPin, requestVars, faultVars
<1>7. CASE Asked
  BY <1>7 DEF Asked, Ask, Show, requestVars
<1>b. ASSUME NEW r \in Requests, NEW state \in States, Reply(r, state)
      PROVE  /\ at' \in [Requests -> {"idle", "checked", "accepted", "waiting", "done"}]
             /\ answer' \in [Requests -> Answers]
  BY <1>b DEF Reply, Tell, Goto, Answers
<1>c. Len(submitting) = 1 => submitting[1] \in Requests
  <2>1. submitting \in Seq(Requests)
    OBVIOUS
  <2> HIDE DEF Types, TypeOK
  <2> QED BY <2>1
<1>8. CASE DoPin
  <2>1. Head(jobs) \in Requests /\ jobs' \in Seq(Requests)
    BY <1>8 DEF DoPin
  <2>2. CASE ~Allowed
    BY <1>8, <1>b, <2>1, <2>2 DEF DoPin, faultVars
  <2>3. CASE Allowed
    <3>1. /\ pin_submissions' = pin_submissions + 1 /\ pin_submissions < Cap
          /\ submitting' = <<Head(jobs)>> /\ pc' = "pin" /\ UNCHANGED <<at, answer>>
      BY <1>8, <2>3 DEF DoPin, Allowed
    <3>2. pin_submissions' \in 0 .. Cap
      BY <3>1
    <3>3. submitting' \in Seq(Requests) /\ Len(submitting') = 1
      BY <2>1, <3>1
    <3> QED BY <1>8, <2>1, <3>1, <3>2, <3>3 DEF DoPin, faultVars
  <2> QED BY <2>2, <2>3
<1>9. CASE EnterPin
  BY <1>9, <1>c DEF EnterPin, requestVars, faultVars
<1>10. CASE Entered
  <2>1. PICK state \in States :
          /\ Ask(state) /\ health_sim' = state
          /\ IF state = "ready"
             THEN pc' = "setup" /\ UNCHANGED <<submitting, at, answer>>
             ELSE pc' = "serving" /\ submitting' = <<>> /\ Reply(submitting[1], state)
    BY <1>10 DEF Entered
  <2>2. errors' \in Nat
    BY <2>1 DEF Ask
  <2>3. Len(submitting) = 1 /\ UNCHANGED <<sim_pin, alive, env_pin_tries, pin_submissions, jobs, pin, sent, spent>>
    BY <1>10 DEF Entered
  <2>4. CASE state = "ready"
    BY <2>1, <2>2, <2>3, <2>4
  <2>5. CASE state # "ready"
    <3>1. /\ at' \in [Requests -> {"idle", "checked", "accepted", "waiting", "done"}]
          /\ answer' \in [Requests -> Answers]
      BY <2>1, <2>3, <2>5, <1>b, <1>c
    <3> QED BY <2>1, <2>2, <2>3, <2>5, <3>1
  <2> QED BY <2>4, <2>5
<1>11. CASE SetUp
  <2>1. Reply(submitting[1], "ready") /\ Len(submitting) = 1 /\ "ready" \in States
    BY <1>11 DEF SetUp, States
  <2>2. /\ at' \in [Requests -> {"idle", "checked", "accepted", "waiting", "done"}]
        /\ answer' \in [Requests -> Answers]
    BY <2>1, <1>b, <1>c
  <2> QED BY <1>11, <2>2 DEF SetUp, faultVars
<1>12. CASE PortLost
  BY <1>12 DEF PortLost, Fall, requestVars, faultVars
<1>13. CASE Timeout
  BY <1>13 DEF Timeout, Fall, requestVars
<1>14. CASE Replug
  BY <1>14 DEF Replug, workerVars, requestVars
<1>15. CASE Restart
  BY <1>15 DEF Restart, States, Answers
<1>16. CASE UNCHANGED vars
  BY <1>16 DEF vars, workerVars, requestVars, faultVars
<1> QED BY <1>1, <1>2, <1>3, <1>4, <1>5, <1>6, <1>7, <1>8, <1>9, <1>10, <1>11, <1>12, <1>13,
           <1>14, <1>15, <1>16 DEF Next, Worker

\* An attempt uses up the one its counter is ahead by.
LEMMA CountersStep ==
    ASSUME Types, Counters, Calls, [Next]_vars
    PROVE  Counters'
<1> USE DEF Types, TypeOK, Counters
<1>1. Cardinality(Submissions) \in Nat
  BY FS_CardinalityType
<1>2. ASSUME pc = "pin", sent' = [sent EXCEPT ![submitting[1]] = @ + 1], submitting[1] \in Requests
      PROVE  /\ IsFiniteSet(Submissions')
             /\ Cardinality(Submissions') = Cardinality(Submissions) + 1
  <2> DEFINE r == submitting[1]
             new == <<r, sent[r] + 1>>
  <2>1. Submissions' = Submissions \union {new}
    BY <1>2 DEF Submissions
  <2>2. new \notin Submissions
    BY <1>2 DEF Submissions
  <2> QED BY <2>1, <2>2, FS_AddElement
<1>3. sent' = sent => Submissions' = Submissions
  BY DEF Submissions
<1>4. CASE Unlock
  BY <1>4, <1>1, <1>3 DEF Unlock, Show, HasTry
<1>5. CASE EnvPin
  BY <1>5, <1>1, <1>3 DEF EnvPin
<1>6. CASE Asked
  BY <1>6, <1>1, <1>3 DEF Asked, Show
<1>7. CASE DoPin
  BY <1>7, <1>1, <1>3 DEF DoPin, Allowed
<1>8. CASE Restart
  <2>1. Submissions' = {}
    BY <1>8 DEF Restart, Submissions
  <2> QED BY <1>8, <2>1, FS_EmptySet DEF Restart
<1>9. pc = "pin" => submitting[1] \in Requests
  <2>1. submitting \in Seq(Requests) /\ (pc = "pin" => Len(submitting) = 1)
    OBVIOUS
  <2> HIDE DEF Types, TypeOK
  <2> QED BY <2>1
<1>10. CASE EnterPin
  BY <1>1, <1>2, <1>9, <1>10 DEF EnterPin
<1>11. CASE PortLost
  BY <1>1, <1>3, <1>11 DEF PortLost, Fall
<1>12. CASE Timeout
  BY <1>1, <1>2, <1>3, <1>9, <1>12 DEF Timeout, Fall
<1>13. CASE Open \/ Entered \/ SetUp
  BY <1>1, <1>3, <1>13 DEF Open, Entered, SetUp
<1>14. CASE Replug \/ UNCHANGED vars \/ \E r \in Requests : CheckCap(r) \/ CheckSim(r) \/ Submit(r) \/ GiveUp(r)
  BY <1>1, <1>3, <1>14 DEF Replug, CheckCap, CheckSim, Submit, GiveUp, vars, workerVars
<1> QED BY <1>4, <1>5, <1>6, <1>7, <1>8, <1>10, <1>11, <1>12, <1>13, <1>14 DEF Next, Worker

\* The card changes only by the worker's own attempts, or with the port; after
\* an attempt the worker asks before it serves again.
LEMMA KnownStep ==
    ASSUME Types, Types', Counters, Calls, Known, [Next]_vars
    PROVE  Known'
<1> USE SimPinAssumption
        DEF Types, TypeOK, Known, SentOnlyWhenAsked, HealthIsCurrent, ConfiguredPinUnlocks, CardState
<1>1. CASE pc' = "down" \/ ~alive'
  BY <1>1
<1>2. ASSUME UNCHANGED <<pc, alive, card, health_sim, sim_pin, spent>>, errors <= errors'
      PROVE  Known'
  BY <1>2
<1>12. pc \in {"pin", "entered", "setup"} => \E r \in Requests : submitting = <<r>>
  <2>1. submitting \in Seq(Requests) /\ (pc \in {"pin", "entered", "setup"} => Len(submitting) = 1)
    OBVIOUS
  <2> HIDE DEF Types, TypeOK
  <2> QED BY <2>1
<1>3. CASE \E r \in Requests : CheckCap(r) \/ CheckSim(r) \/ Submit(r) \/ GiveUp(r)
  BY <1>3, <1>2 DEF CheckCap, CheckSim, Submit, GiveUp, workerVars, faultVars
<1>4. CASE Open \/ EnvPin \/ EnterPin
  BY <1>4 DEF Open, EnvPin, EnterPin
<1>5. CASE Unlock
  <2>1. PICK state \in States :
          /\ Ask(state)
          /\ IF state = "pin_required" /\ HasTry
             THEN env_pin_tries' = env_pin_tries + 1 /\ pc' = "env" /\ UNCHANGED <<health_sim, spent>>
             ELSE Show(state)
    BY <1>5 DEF Unlock
  <2>2. UNCHANGED <<sim_pin, card, alive>> /\ pc = "connected"
    BY <1>5 DEF Unlock
  <2>3. errors <= errors' /\ (state = CardState \/ (state = "unknown" /\ errors' > 0))
    BY <2>1 DEF Ask
  <2>4. CASE state = "pin_required" /\ HasTry
    BY <2>1, <2>2, <2>3, <2>4
  <2>5. CASE ~(state = "pin_required" /\ HasTry)
    <3>1. health_sim' = state /\ pc' = "serving" /\ (spent' = spent \/ state = "ready")
      BY <2>1, <2>5 DEF Show
    <3>2. sim_pin \in Pins /\ spent = 0 /\ MaxTries > 0 => HasTry
      BY <2>2 DEF HasTry, Counters, NoPin
    <3>3. card.pin \in Pins
      BY DEF Cards
    <3> QED BY <2>2, <2>3, <2>5, <3>1, <3>2, <3>3
  <2> QED BY <2>4, <2>5
<1>6. CASE Asked
  BY <1>6 DEF Asked, Ask, Show, Counters
<1>7. CASE DoPin
  BY <1>7 DEF DoPin, Allowed, faultVars
<1>8. CASE Entered
  <2>1. PICK state \in States :
          /\ Ask(state) /\ health_sim' = state
          /\ pc' = IF state = "ready" THEN "setup" ELSE "serving"
    BY <1>8 DEF Entered
  <2>2. UNCHANGED <<sim_pin, card, alive>> /\ pc = "entered"
    BY <1>8 DEF Entered
  <2>3. state = CardState \/ (state = "unknown" /\ errors' > 0)
    BY <2>1 DEF Ask
  <2>4. sim_pin = NoPin
    <3>1. \E r \in Requests : Held(r)
      BY <2>2, <1>12 DEF Held
    <3> QED BY <3>1 DEF Calls, Call
  <2>5. card.pin \in Pins
    BY DEF Cards
  <2> QED BY <2>1, <2>2, <2>3, <2>4, <2>5 DEF NoPin
<1>9. CASE SetUp
  BY <1>9 DEF SetUp, faultVars, Calls, Call
<1>10. CASE PortLost \/ Timeout \/ Replug \/ Restart
  BY <1>10, <1>1 DEF PortLost, Timeout, Replug, Restart, Fall
<1>11. CASE UNCHANGED vars
  BY <1>11, <1>2 DEF vars, workerVars, faultVars
<1> QED BY <1>3, <1>4, <1>5, <1>6, <1>7, <1>8, <1>9, <1>10, <1>11 DEF Next, Worker

\* submit_pin puts a request into the queue: it was not there before.
LEMMA Appended ==
    ASSUME NEW s \in Seq(Requests), NEW r \in Requests, Distinct(s), ~In(r, s)
    PROVE  Distinct(Append(s, r)) /\ \A u \in Requests : In(u, Append(s, r)) <=> In(u, s) \/ u = r
BY DEF Distinct, In

\* The head of a queue without repetitions is not in the rest.
LEMMA Taken ==
    ASSUME NEW s \in Seq(Requests), s # <<>>, Distinct(s)
    PROVE  /\ Head(s) \in Requests /\ In(Head(s), s) /\ Distinct(Tail(s))
           /\ \A u \in Requests : In(u, Tail(s)) <=> In(u, s) /\ u # Head(s)
<1>1. /\ Len(s) \in Nat /\ 1 \in 1 .. Len(s) /\ Head(s) = s[1] /\ Head(s) \in Requests
      /\ Len(Tail(s)) = Len(s) - 1
      /\ \A i \in 1 .. Len(s) - 1 : Tail(s)[i] = s[i + 1]
  OBVIOUS
<1>2. In(Head(s), s)
  BY <1>1 DEF In
<1>3. Distinct(Tail(s))
  <2> SUFFICES ASSUME NEW i \in 1 .. Len(s) - 1, NEW j \in 1 .. Len(s) - 1, s[i + 1] = s[j + 1]
               PROVE  i = j
    BY <1>1 DEF Distinct
  <2> QED BY <1>1 DEF Distinct
<1>4. ASSUME NEW u \in Requests, In(u, Tail(s))
      PROVE  In(u, s) /\ u # Head(s)
  <2>1. PICK i \in 1 .. Len(s) - 1 : s[i + 1] = u
    BY <1>1, <1>4 DEF In
  <2>2. i + 1 \in 1 .. Len(s) /\ i + 1 # 1
    BY <1>1
  <2> QED BY <1>1, <2>1, <2>2 DEF In, Distinct
<1>5. ASSUME NEW u \in Requests, In(u, s), u # Head(s)
      PROVE  In(u, Tail(s))
  <2>1. PICK i \in 1 .. Len(s) : s[i] = u
    BY <1>5 DEF In
  <2>2. i - 1 \in 1 .. Len(s) - 1 /\ s[(i - 1) + 1] = u
    BY <1>1, <1>5, <2>1
  <2> QED BY <1>1, <2>2 DEF In
<1> QED BY <1>1, <1>2, <1>3, <1>4, <1>5

\* Every step keeps the place of every request's PIN.
LEMMA CallsStep ==
    ASSUME Types, Calls, [Next]_vars
    PROVE  Calls'
<1> USE DEF Types, TypeOK, Calls
<1>a. ASSUME UNCHANGED <<jobs, submitting, sent, pc, sim_pin>>, NEW r \in Requests,
             \A u \in Requests \ {r} : at'[u] = at[u] /\ answer'[u] = answer[u],
             Call(r)'
      PROVE  Calls'
  BY <1>a DEF Call, Queued, Held
<1>1. ASSUME NEW r \in Requests, CheckCap(r)
      PROVE  Calls'
  <2>1. Call(r)'
    BY <1>1 DEF CheckCap, Tell, Goto, workerVars, Call, Queued, Held, Early, Refusals
  <2> QED BY <1>1, <1>a, <2>1 DEF CheckCap, Tell, Goto, workerVars
<1>2. ASSUME NEW r \in Requests, CheckSim(r)
      PROVE  Calls'
  <2>1. Call(r)'
    BY <1>2 DEF CheckSim, Tell, Goto, workerVars, Call, Queued, Held, Early, Refusals
  <2> QED BY <1>2, <1>a, <2>1 DEF CheckSim, Tell, Goto, workerVars
<1>3. ASSUME NEW r \in Requests, GiveUp(r)
      PROVE  Calls'
  <2>1. Call(r)'
    BY <1>3 DEF GiveUp, Tell, Goto, workerVars, Call, Queued, Held, Early, Refusals
  <2> QED BY <1>3, <1>a, <2>1 DEF GiveUp, Tell, Goto, workerVars
<1>4. ASSUME NEW r \in Requests, Submit(r)
      PROVE  Calls'
  <2>1. ~Queued(r) /\ jobs' = Append(jobs, r)
    BY <1>4 DEF Submit, Call, Early
  <2>2. Distinct(jobs') /\ \A u \in Requests : Queued(u)' <=> Queued(u) \/ u = r
    BY <2>1, Appended DEF Queued
  <2>3. ASSUME NEW u \in Requests
        PROVE  Call(u)'
    BY <1>4, <2>2 DEF Submit, Goto, workerVars, Call, Held, Early, Refusals
  <2> QED BY <2>2, <2>3
<1>b. ASSUME NEW r \in Requests, NEW state \in States, Reply(r, state)
      PROVE  /\ \A u \in Requests \ {r} : at'[u] = at[u] /\ answer'[u] = answer[u]
             /\ \/ at'[r] = at[r] /\ answer'[r] = answer[r]
                \/ at'[r] = "done" /\ answer'[r] \notin Refusals
  BY <1>b DEF Reply, Tell, Goto, States, Refusals
<1>5. ASSUME UNCHANGED <<jobs, submitting, sent, at, answer, sim_pin>>, pc' = "pin" => pc = "pin"
      PROVE  Calls'
  BY <1>5 DEF Call, Queued, Held
<1>6. CASE Open \/ Unlock \/ EnvPin \/ Asked \/ Replug \/ UNCHANGED vars
  BY <1>5, <1>6 DEF Open, Unlock, EnvPin, Asked, Show, Replug, vars, workerVars, requestVars
<1>7. CASE DoPin
  <2> DEFINE h == Head(jobs)
  <2>1. /\ h \in Requests /\ Queued(h) /\ Distinct(jobs')
        /\ \A u \in Requests : Queued(u)' <=> Queued(u) /\ u # h
    BY <1>7, Taken DEF DoPin, Queued
  <2>2. UNCHANGED <<sent, sim_pin>> /\ submitting = <<>>
    BY <1>7 DEF DoPin
  <2>3. CASE ~Allowed
    <3>1. Reply(h, health_sim) /\ UNCHANGED <<pc, submitting>>
      BY <1>7, <2>3 DEF DoPin
    <3>2. ASSUME NEW u \in Requests
          PROVE  Call(u)'
      BY <3>1, <2>1, <2>2, <1>b DEF Call, Held, Early
    <3> QED BY <2>1, <3>2
  <2>4. CASE Allowed
    <3>1. submitting' = <<h>> /\ UNCHANGED <<at, answer>>
      BY <1>7, <2>4 DEF DoPin
    <3>2. ASSUME NEW u \in Requests
          PROVE  Call(u)'
      BY <3>1, <2>1, <2>2 DEF Call, Held
    <3> QED BY <2>1, <3>2
  <2> QED BY <2>3, <2>4
<1>8. pc \in {"pin", "entered", "setup"} => \E r \in Requests : submitting = <<r>>
  <2>1. submitting \in Seq(Requests) /\ (pc \in {"pin", "entered", "setup"} => Len(submitting) = 1)
    OBVIOUS
  <2> HIDE DEF Types, TypeOK
  <2> QED BY <2>1
<1>9. ASSUME NEW h \in Requests, submitting = <<h>>, pc = "pin",
             sent' = [sent EXCEPT ![h] = @ + 1], UNCHANGED <<jobs, at, answer, sim_pin>>,
             submitting' \in {<<>>, submitting}, pc' # "pin"
      PROVE  Calls'
  BY <1>9 DEF Call, Queued, Held
<1>10. CASE EnterPin
  <2>1. PICK h \in Requests : submitting = <<h>>
    BY <1>8, <1>10 DEF EnterPin
  <2>2. sent' = [sent EXCEPT ![h] = @ + 1]
    BY <1>10, <2>1 DEF EnterPin
  <2> QED BY <1>9, <1>10, <2>1, <2>2 DEF EnterPin, requestVars
<1>11. ASSUME UNCHANGED <<jobs, sent, at, answer, sim_pin>>, submitting' = <<>>
       PROVE  Calls'
  BY <1>11 DEF Call, Queued, Held
<1>12. CASE PortLost \/ Timeout
  <2>1. UNCHANGED <<jobs, at, answer, sim_pin>> /\ submitting' = <<>> /\ pc' = "down"
    BY <1>12 DEF PortLost, Timeout, Fall, requestVars
  <2>2. UNCHANGED sent \/ (pc = "pin" /\ sent' = [sent EXCEPT ![submitting[1]] = @ + 1])
    BY <1>12 DEF PortLost, Timeout
  <2>3. CASE UNCHANGED sent
    BY <2>1, <2>3, <1>11
  <2>4. CASE pc = "pin" /\ sent' = [sent EXCEPT ![submitting[1]] = @ + 1]
    <3>1. PICK h \in Requests : submitting = <<h>>
      BY <2>4, <1>8
    <3> QED BY <2>1, <2>4, <3>1, <1>9
  <2> QED BY <2>2, <2>3, <2>4
<1>13. CASE Entered \/ SetUp
  <2>1. PICK h \in Requests : submitting = <<h>>
    BY <1>8, <1>13 DEF Entered, SetUp
  <2>2. UNCHANGED <<jobs, sent, sim_pin>> /\ pc' # "pin"
    BY <1>13 DEF Entered, SetUp
  <2>3. \/ submitting' = submitting /\ UNCHANGED <<at, answer>>
        \/ submitting' = <<>> /\ \E state \in States : Reply(h, state)
    BY <1>13, <2>1 DEF Entered, SetUp, States
  <2>4. CASE submitting' = submitting /\ UNCHANGED <<at, answer>>
    BY <2>2, <2>4, <1>5
  <2>5. CASE submitting' = <<>> /\ \E state \in States : Reply(h, state)
    <3>1. ASSUME NEW u \in Requests
          PROVE  Call(u)'
      BY <2>1, <2>2, <2>5, <1>b DEF Call, Queued, Held, Early
    <3> QED BY <2>2, <3>1
  <2> QED BY <2>3, <2>4, <2>5
<1>14. CASE Restart
  <2>1. /\ jobs' = <<>> /\ submitting' = <<>>
        /\ \A r \in Requests : sent'[r] = 0 /\ at'[r] = "idle" /\ answer'[r] = "none"
    BY <1>14 DEF Restart
  <2>2. Distinct(jobs') /\ \A r \in Requests : ~Queued(r)' /\ ~Held(r)'
    BY <2>1 DEF Distinct, Queued, Held, In
  <2>3. ASSUME NEW r \in Requests
        PROVE  Call(r)'
    BY <2>1, <2>2 DEF Call, Refusals
  <2> QED BY <2>2, <2>3
<1> QED BY <1>1, <1>2, <1>3, <1>4, <1>6, <1>7, <1>10, <1>12, <1>13, <1>14 DEF Next, Worker

\* The inductive invariant.
Inv == Types /\ Calls /\ Counters /\ Known

\* It holds in every reachable state.
LEMMA Always == Spec => []Inv
<1>1. Init => Inv
  BY Initially DEF Inv
<1>2. Inv /\ [Next]_vars => Inv'
  BY TypesStep, CallsStep, CountersStep, KnownStep DEF Inv
<1> QED BY <1>1, <1>2, PTL DEF Spec

\* TypeOK: the counters keep their caps (worker.py _unlock_sim, _do_pin).
THEOREM TypeInvariant == Spec => []TypeOK
<1>1. Inv => TypeOK
  BY DEF Inv, Types
<1> QED BY <1>1, Always, PTL

\* AttemptCaps: however many callers pass the API's check of the cap at once
\* (api.py _sim_pin), the card is sent at most MaxTries + 2 runtime PINs per
\* process, and the configured one at most MaxTries times until it is ready.
THEOREM CapsHold == Spec => []AttemptCaps
<1>1. Inv => AttemptCaps
  <2> SUFFICES ASSUME Inv PROVE AttemptCaps
    OBVIOUS
  <2>1. Cardinality(Submissions) \in Nat
    BY FS_CardinalityType DEF Inv, Counters
  <2>2. spent \in Nat /\ env_pin_tries <= MaxTries /\ pin_submissions <= Cap /\ pin_submissions \in Nat
        /\ MaxTries \in Nat /\ Cap \in Nat /\ env_pin_tries \in Nat
    BY SimPinAssumption DEF Inv, Types, TypeOK, Cap
  <2> QED BY <2>1, <2>2 DEF Inv, Counters, AttemptCaps
<1> QED BY <1>1, Always, PTL

\* OnePerCall: a call's PIN is sent at most once, and never after the call was
\* refused (api.py _sim_pin, worker.py _do_pin).
THEOREM CallsSubmitOnce == Spec => []OnePerCall
<1>1. Inv => OnePerCall
  BY DEF Inv, Calls, Call, OnePerCall, Refusals
<1> QED BY <1>1, Always, PTL

\* SentOnlyWhenAsked: a PIN is sent only to a card that asks for one, although
\* others changed the card while the job waited (worker.py _do_pin).
THEOREM CardIsProtected == Spec => []SentOnlyWhenAsked
<1>1. Inv => SentOnlyWhenAsked
  BY DEF Inv, Known
<1> QED BY <1>1, Always, PTL

\* HealthIsCurrent: what health() says of the SIM is the card's state while the
\* worker serves a live port, or "unknown" after an error (worker.py
\* _unlock_sim, _do_pin, _after_sim_ready).
THEOREM HealthIsTrue == Spec => []HealthIsCurrent
<1>1. Inv => HealthIsCurrent
  BY DEF Inv, Known
<1> QED BY <1>1, Always, PTL

\* ConfiguredPinUnlocks: the right configured PIN has unlocked the card whenever
\* the worker serves, after every replug too, unless an attempt failed since the
\* card was last ready (worker.py _unlock_sim).
THEOREM ConfiguredPinWorks == Spec => []ConfiguredPinUnlocks
<1>1. Inv => ConfiguredPinUnlocks
  BY DEF Inv, Known
<1> QED BY <1>1, Always, PTL
=============================================================================
