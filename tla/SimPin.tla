------------------------------- MODULE SimPin -------------------------------
(***************************************************************************)
(* Unlocking the SIM: the configured PIN, which the modem worker submits   *)
(* while it connects (worker.py _unlock_sim), and PINs entered at run time *)
(* through POST /v1/sim/pin (api.py _sim_pin, worker.py _do_pin).  A SIM   *)
(* card allows three wrong attempts, then it is PUK-locked for good.       *)
(*                                                                         *)
(* Each AT command is a step; the HTTP handler threads run between any two *)
(* of them.  A modem that is replugged starts with its SIM locked again    *)
(* and is noticed at the next command on the old port.                     *)
(***************************************************************************)
EXTENDS Integers, FiniteSets, Sequences

CONSTANTS
    Requests,     \* HTTP handler threads, one PIN each
    Pins,         \* PINs a card, the configuration or a caller may have
    MaxTries,     \* GTG_SIM_PIN_MAX_TRIES
    CardTries,    \* attempts a card allows (3)
    MaxReplugs, MaxTimeouts, MaxRestarts, MaxErrors  \* bounds: faults

ASSUME SimPinAssumption ==
    /\ IsFiniteSet(Requests) /\ MaxTries \in Nat /\ CardTries \in Nat \ {0}
    /\ MaxReplugs \in Nat /\ MaxTimeouts \in Nat /\ MaxRestarts \in Nat
    /\ MaxErrors \in Nat /\ "none" \notin Pins

NoPin == "none"
Cap == MaxTries + 2

VARIABLES
    sim_pin,          \* the configured SIM_PIN, or NoPin
    card,             \* the card in the modem: its PIN, attempts left, locked?
    alive,            \* does the open port still lead to the modem?
    pc,               \* program point of the worker
    health_sim,       \* health()["sim"]
    env_pin_tries,    \* worker._env_pin_tries
    pin_submissions,  \* worker.pin_submissions
    jobs,             \* PIN jobs: requests in order
    submitting,       \* <<request whose PIN the worker has>>
    at,               \* program point of each handler thread
    pin,              \* the PIN each caller entered
    answer,           \* what each caller was told
    sent,             \* history: AT+CPIN commands sent for each request
    spent,            \* history: submissions of sim_pin since the SIM was ready,
                      \* those a lost port or a timeout cut off included
    replugs, timeouts, restarts,
    errors            \* AT+CPIN? answered with an error

workerVars == <<pc, health_sim, env_pin_tries, pin_submissions, submitting>>
requestVars == <<at, pin, answer>>
faultVars == <<replugs, timeouts, restarts, errors>>
vars == <<sim_pin, card, alive, workerVars, jobs, requestVars, sent, spent, faultVars>>

\* What AT+CPIN? reports of the card (sim.cpin_state).
CardState == IF card.left = 0 THEN "puk_required"
             ELSE IF card.locked THEN "pin_required" ELSE "ready"
\* A card that is still starting answers an error, which reads as "unknown".
Ask(state) ==
    \/ state = CardState /\ UNCHANGED errors
    \/ state = "unknown" /\ errors < MaxErrors /\ errors' = errors + 1
States == {"unknown", "pin_required", "puk_required", "ready"}
Cards == [pin : Pins, left : 0 .. CardTries, locked : BOOLEAN]
NewCard(p) == [pin |-> p, left |-> CardTries, locked |-> TRUE]

Init == /\ sim_pin \in Pins \cup {NoPin}
        /\ card \in {NewCard(p) : p \in Pins} /\ alive = TRUE
        /\ pc = "down" /\ health_sim = "unknown"
        /\ env_pin_tries = 0 /\ pin_submissions = 0
        /\ jobs = <<>> /\ submitting = <<>>
        /\ at = [r \in Requests |-> "idle"]
        /\ pin = [r \in Requests |-> NoPin]
        /\ answer = [r \in Requests |-> "none"]
        /\ sent = [r \in Requests |-> 0] /\ spent = 0
        /\ replugs = 0 /\ timeouts = 0 /\ restarts = 0 /\ errors = 0
-----------------------------------------------------------------------------
(* A handler thread: api.py _sim_pin.                                      *)

Goto(r, where) == at' = [at EXCEPT ![r] = where]
Tell(r, what) == Goto(r, "done") /\ answer' = [answer EXCEPT ![r] = what]

\* The request is refused while a PIN is configured (409) or when the cap is
\* used up (423) ...
CheckCap(r) ==
    /\ at[r] = "idle"
    /\ IF sim_pin # NoPin THEN Tell(r, "pin_configured")
       ELSE IF pin_submissions >= Cap THEN Tell(r, "pin_locked")
       ELSE Goto(r, "checked") /\ UNCHANGED answer
    /\ UNCHANGED <<sim_pin, card, alive, workerVars, jobs, pin, sent, spent, faultVars>>

\* ... and, a moment later, unless the SIM asked for a PIN when the worker
\* last looked (409).
CheckSim(r) ==
    /\ at[r] = "checked"
    /\ IF health_sim # "pin_required" THEN Tell(r, "pin_not_required")
       ELSE Goto(r, "accepted") /\ UNCHANGED answer
    /\ UNCHANGED <<sim_pin, card, alive, workerVars, jobs, pin, sent, spent, faultVars>>

\* worker.submit_pin, after the body was read and found well-formed.
Submit(r) ==
    /\ at[r] = "accepted"
    /\ jobs' = Append(jobs, r)
    /\ \E p \in Pins : pin' = [pin EXCEPT ![r] = p]
    /\ Goto(r, "waiting")
    /\ UNCHANGED <<sim_pin, card, alive, workerVars, answer, sent, spent, faultVars>>

\* 400 for an ill-formed PIN, or 504 after 25 s: the job stays queued.
GiveUp(r) ==
    /\ at[r] \in {"accepted", "waiting"}
    /\ Tell(r, IF at[r] = "waiting" THEN "pin_timeout" ELSE "bad_pin")
    /\ UNCHANGED <<sim_pin, card, alive, workerVars, jobs, pin, sent, spent, faultVars>>

\* reply.put_nowait(state): nobody reads the answer of one that gave up.
Reply(r, state) == IF at[r] = "waiting" THEN Tell(r, state) ELSE UNCHANGED <<at, answer>>
-----------------------------------------------------------------------------
(* The worker.                                                             *)

\* AT+CPIN="p" reached the card.
Attempt(p) ==
    card' = IF ~card.locked \/ card.left = 0 THEN card
            ELSE IF p = card.pin THEN [card EXCEPT !.left = CardTries, !.locked = FALSE]
            ELSE [card EXCEPT !.left = @ - 1]

\* _connect up to the first AT+CPIN? of _unlock_sim.
Open ==
    /\ pc = "down"
    /\ pc' = "connected" /\ alive' = TRUE
    /\ UNCHANGED <<sim_pin, card, health_sim, env_pin_tries, pin_submissions, submitting,
                   jobs, requestVars, sent, spent, faultVars>>

\* (Bug: a success does not give the configured PIN its tries back.)
ShowForgetting(state) ==
    /\ health_sim' = state /\ pc' = "serving"
    /\ env_pin_tries' = env_pin_tries
    /\ spent' = IF state = "ready" THEN 0 ELSE spent

\* The state of the SIM is published; a SIM that is ready gives the
\* configured PIN its tries back; the serve loop starts in any case, and
\* nothing asks again before the next connect.
Show(state) ==
    /\ health_sim' = state /\ pc' = "serving"
    /\ env_pin_tries' = IF state = "ready" THEN 0 ELSE env_pin_tries
    /\ spent' = IF state = "ready" THEN 0 ELSE spent

\* (Bug: the configured PIN's counter is reset by every connect cycle.)
HasTryAlways == sim_pin # NoPin /\ 0 < MaxTries

HasTry == sim_pin # NoPin /\ env_pin_tries < MaxTries

\* _unlock_sim: the SIM asks, and the configured PIN has a try left.
Unlock ==
    /\ pc = "connected" /\ alive
    /\ \E state \in States :
        /\ Ask(state)
        /\ IF state = "pin_required" /\ HasTry
           THEN env_pin_tries' = env_pin_tries + 1 /\ pc' = "env" /\ UNCHANGED <<health_sim, spent>>
           ELSE Show(state)
    /\ UNCHANGED <<sim_pin, card, alive, pin_submissions, submitting, jobs, requestVars, sent,
                   replugs, timeouts, restarts>>

\* The configured PIN is sent; OK and ERROR lead to the same question.
EnvPin ==
    /\ pc = "env" /\ alive
    /\ Attempt(sim_pin)
    /\ spent' = spent + 1
    /\ pc' = "asked"
    /\ UNCHANGED <<sim_pin, alive, health_sim, env_pin_tries, pin_submissions, submitting,
                   jobs, requestVars, sent, faultVars>>

\* The SIM is asked once more.
Asked ==
    /\ pc = "asked" /\ alive
    /\ \E state \in States : Ask(state) /\ Show(state)
    /\ UNCHANGED <<sim_pin, card, alive, pin_submissions, submitting, jobs, requestVars, sent,
                   replugs, timeouts, restarts>>

\* (Bugs: the worker relies on the API's check of the cap; of the SIM.)
AllowedUncapped == health_sim = "pin_required"
AllowedUnasked == pin_submissions < Cap

\* The worker's own check, made when the job's turn comes.
Allowed == pin_submissions < Cap /\ health_sim = "pin_required"

\* _do_pin: the job is answered at once, or its PIN is about to be sent.
DoPin ==
    /\ pc = "serving" /\ jobs # <<>>
    /\ jobs' = Tail(jobs)
    /\ LET r == Head(jobs)
       IN  \/ /\ ~Allowed
              /\ Reply(r, health_sim)
              /\ UNCHANGED <<pc, pin_submissions, submitting>>
           \/ /\ Allowed
              /\ pin_submissions' = pin_submissions + 1
              /\ submitting' = <<r>>
              /\ pc' = "pin"
              /\ UNCHANGED <<at, answer>>
    /\ UNCHANGED <<sim_pin, card, alive, health_sim, env_pin_tries, pin, sent, spent,
                   faultVars>>

\* sim.enter_pin of the runtime PIN.
EnterPin ==
    /\ pc = "pin" /\ alive
    /\ Attempt(pin[submitting[1]])
    /\ sent' = [sent EXCEPT ![submitting[1]] = @ + 1]
    /\ pc' = "entered"
    /\ UNCHANGED <<sim_pin, alive, health_sim, env_pin_tries, pin_submissions, submitting,
                   jobs, requestVars, spent, faultVars>>

\* (Bug: the new state of the SIM is answered and not published.)
EnteredUnpublished ==
    /\ pc = "entered" /\ alive
    /\ Reply(submitting[1], CardState)
    /\ pc' = "serving" /\ submitting' = <<>>
    /\ UNCHANGED <<sim_pin, card, alive, health_sim, env_pin_tries, pin_submissions, jobs,
                   pin, sent, spent, faultVars>>

\* The SIM is asked again and its state published.  It is answered at once,
\* unless the SIM is ready now: then the modem is set up first.
Entered ==
    /\ pc = "entered" /\ alive
    /\ \E state \in States :
        /\ Ask(state) /\ health_sim' = state
        /\ IF state = "ready"
           THEN pc' = "setup" /\ UNCHANGED <<submitting, at, answer>>
           ELSE pc' = "serving" /\ submitting' = <<>> /\ Reply(submitting[1], state)
    /\ UNCHANGED <<sim_pin, card, alive, env_pin_tries, pin_submissions, jobs, pin, sent, spent,
                   replugs, timeouts, restarts>>

\* _after_sim_ready is over; the caller is told at last.
SetUp ==
    /\ pc = "setup" /\ alive
    /\ Reply(submitting[1], "ready")
    /\ pc' = "serving" /\ submitting' = <<>>
    /\ UNCHANGED <<sim_pin, card, alive, health_sim, env_pin_tries, pin_submissions, jobs,
                   pin, sent, spent, faultVars>>
-----------------------------------------------------------------------------
(* Failures.                                                               *)

\* The worker gives up the port.  A PIN it had is forgotten and its caller
\* gets no reply.
Fall == pc' = "down" /\ submitting' = <<>>

\* A command on a port that is gone fails.
PortLost ==
    /\ pc # "down" /\ ~alive
    /\ Fall
    /\ spent' = IF pc = "env" THEN spent + 1 ELSE spent
    /\ UNCHANGED <<sim_pin, card, alive, health_sim, env_pin_tries, pin_submissions, jobs,
                   requestVars, sent, faultVars>>

\* (Bug: a PIN whose command timed out is queued again.)
TimeoutRequeues ==
    /\ pc # "down" /\ alive
    /\ timeouts < MaxTimeouts /\ timeouts' = timeouts + 1
    /\ Fall
    /\ \/ pc = "pin" /\ Attempt(pin[submitting[1]])
          /\ sent' = [sent EXCEPT ![submitting[1]] = @ + 1]
          /\ jobs' = Append(jobs, submitting[1])
       \/ pc # "pin" /\ UNCHANGED <<card, sent, jobs>>
    /\ UNCHANGED <<sim_pin, alive, health_sim, env_pin_tries, pin_submissions,
                   requestVars, spent, replugs, restarts, errors>>

\* A command is not answered in time: the worker reconnects.  A PIN may have
\* reached the card nevertheless.
Timeout ==
    /\ pc # "down" /\ alive
    /\ timeouts < MaxTimeouts /\ timeouts' = timeouts + 1
    /\ Fall
    /\ \/ pc \notin {"env", "pin"} /\ UNCHANGED <<card, sent, spent>>
       \/ /\ pc = "env"
          /\ Attempt(sim_pin) \/ UNCHANGED card
          /\ spent' = spent + 1 /\ UNCHANGED sent
       \/ /\ pc = "pin"
          /\ Attempt(pin[submitting[1]]) \/ UNCHANGED card
          /\ sent' = [sent EXCEPT ![submitting[1]] = @ + 1] /\ UNCHANGED spent
    /\ UNCHANGED <<sim_pin, alive, health_sim, env_pin_tries, pin_submissions, jobs,
                   requestVars, replugs, restarts, errors>>

\* The modem is replugged, with the same card or another one.
Replug ==
    /\ replugs < MaxReplugs /\ replugs' = replugs + 1
    /\ alive' = FALSE
    /\ card' \in {[card EXCEPT !.locked = TRUE]} \cup {NewCard(p) : p \in Pins}
    /\ UNCHANGED <<sim_pin, workerVars, jobs, requestVars, sent, spent, timeouts, restarts, errors>>

\* A new server process, perhaps with another configuration.  The modem
\* keeps its power, and callers may try again.
Restart ==
    /\ restarts < MaxRestarts /\ restarts' = restarts + 1
    /\ sim_pin' \in Pins \cup {NoPin}
    /\ pc' = "down" /\ health_sim' = "unknown"
    /\ env_pin_tries' = 0 /\ pin_submissions' = 0
    /\ jobs' = <<>> /\ submitting' = <<>>
    /\ at' = [r \in Requests |-> "idle"]
    /\ answer' = [r \in Requests |-> "none"]
    /\ pin' = [r \in Requests |-> NoPin]
    /\ sent' = [r \in Requests |-> 0] /\ spent' = 0
    /\ UNCHANGED <<card, alive, replugs, timeouts, errors>>

Worker == Open \/ Unlock \/ EnvPin \/ Asked \/ DoPin \/ EnterPin \/ Entered \/ SetUp
          \/ PortLost
Next == \/ \E r \in Requests : CheckCap(r) \/ CheckSim(r) \/ Submit(r) \/ GiveUp(r)
        \/ Worker \/ Timeout \/ Replug \/ Restart

Spec == Init /\ [][Next]_vars
-----------------------------------------------------------------------------
\* Counters keep their caps, and the worker has a request's PIN exactly while
\* it submits it.
TypeOK ==
    /\ sim_pin \in Pins \cup {NoPin}
    /\ card \in Cards
    /\ alive \in BOOLEAN
    /\ pc \in {"down", "connected", "env", "asked", "serving", "pin", "entered", "setup"}
    /\ health_sim \in States
    /\ env_pin_tries \in 0 .. MaxTries /\ pin_submissions \in 0 .. Cap
    /\ jobs \in Seq(Requests)
    /\ submitting \in Seq(Requests)
    /\ Len(submitting) = IF pc \in {"pin", "entered", "setup"} THEN 1 ELSE 0
    /\ at \in [Requests -> {"idle", "checked", "accepted", "waiting", "done"}]
    /\ pin \in [Requests -> Pins \cup {NoPin}]
    /\ sent \in [Requests -> Nat] /\ spent \in Nat

\* However many callers pass the API's check at once, the card is sent no
\* more than MaxTries + 2 runtime PINs per process (worker.py:303-307,
\* PLAN.md:219); and the configured PIN at most MaxTries times until a SIM is
\* ready, through timeouts, replugs and exchanged cards (worker.py:158-162).
Submissions == UNION {{r} \X (1 .. sent[r]) : r \in Requests}
AttemptCaps == Cardinality(Submissions) <= Cap /\ spent <= MaxTries

\* "Exactly one modem submission per API call" (PLAN.md:212): none is sent
\* twice, and a caller that was told its request was refused sent none.
OnePerCall ==
    \A r \in Requests :
        /\ sent[r] <= 1
        /\ answer[r] \in {"pin_configured", "pin_locked", "pin_not_required", "bad_pin"}
              => sent[r] = 0

\* A PIN is sent only to a card that asks for one: never to a ready SIM and
\* never to a PUK-locked one (PLAN.md:213), although jobs wait in the queue
\* while others change the card.
SentOnlyWhenAsked == pc \in {"env", "pin"} /\ alive => CardState = "pin_required"

\* While the worker serves a live port, the API is told the card's state,
\* unless the card answered the last question with an error.
HealthIsCurrent ==
    pc = "serving" /\ alive /\ health_sim # CardState => health_sim = "unknown" /\ errors > 0

\* The configured PIN, if it is the card's, has unlocked it whenever the
\* worker serves, also after a replug (worker.py:158-162), as long as none of
\* its submissions since the card was last ready failed and the card answered
\* the last question.  (With no tries at all it is never submitted.)
ConfiguredPinUnlocks ==
    MaxTries > 0 /\ pc = "serving" /\ alive /\ health_sim # "unknown"
    /\ sim_pin = card.pin /\ card.left > 0 /\ spent = 0 => CardState = "ready"
=============================================================================
