---------------------------- MODULE Registration ----------------------------
(***************************************************************************)
(* The registrar of internal/registration: two independent loops, one per  *)
(* service type, that register this provider with environment-agent,       *)
(* renew the registration periodically, back off after a failure, wait for *)
(* the slot while another provider holds it (409), and give up for good    *)
(* when the agent refuses the registration (any other 4xx).                *)
(*                                                                         *)
(* The agent is external: per service type it keeps who holds the slot,    *)
(* grants a free slot or renews our own (create-or-update by name),        *)
(* answers 409 when another provider holds it, and may fail, lose its      *)
(* table, answer too late for the client's HTTP timeout, or refuse.        *)
(* Durations matter only through the backoff that is chosen: a timer may   *)
(* fire at any moment after it was armed.                                  *)
(***************************************************************************)
EXTENDS Backoff

CONSTANTS
    InitialBackoff, MaxBackoff,  \* Registrar.initialBackoff / maxBackoff
    MaxFails,                    \* where the count of failures saturates: no
                                 \* sooner than the backoff, at one unit a
                                 \* failure, would reach its cap
    MaxUpsets,                   \* bound on the agent's changes of mind
    HealthySvc                   \* services the agent never refuses

Svc == {"cluster", "vm"}

ASSUME RegistrationAssumption ==
    /\ InitialBackoff \in Nat \ {0}
    /\ MaxBackoff \in Nat
    /\ InitialBackoff =< MaxBackoff
    /\ MaxFails \in Nat
    /\ MaxBackoff =< MaxFails
    /\ MaxUpsets \in Nat
    /\ HealthySvc \subseteq Svc

VARIABLES
    started,    \* startOnce has run
    pc,         \* [Svc -> where the service's runLoop is]
    backoff,    \* [Svc -> runLoop's local backoff]
    wg,         \* the WaitGroup's counter
    done,       \* Registrar.done is closed
    cancelled,  \* ctx is cancelled
    holder,     \* external: [Svc -> who holds the slot at the agent]
    late,       \* external: requests the client no longer waits for
    upsets,     \* external: changes of mind of the agent so far
    fails,      \* history: [Svc -> failures since the last success]
    refused     \* history: services answered a 4xx other than 409

loopVars == <<started, wg, done, cancelled>>
agentVars == <<holder, late, upsets>>
vars == <<started, pc, backoff, wg, done, cancelled, holder, late, upsets,
          fails, refused>>

Init ==
    /\ started = FALSE
    /\ pc = [s \in Svc |-> "idle"]
    /\ backoff = [s \in Svc |-> InitialBackoff]
    /\ wg = 0
    /\ done = FALSE
    /\ cancelled = FALSE
    /\ holder \in [Svc -> {"none", "other"}]
    /\ late = {}
    /\ upsets = 0
    /\ fails = [s \in Svc |-> 0]
    /\ refused = {}

-----------------------------------------------------------------------------
(* The registrar. *)

\* Start: only the first call launches the loops; a later one is a no-op.
Start ==
    /\ ~started
    /\ started' = TRUE
    /\ wg' = 2
    /\ pc' = [s \in Svc |-> "register"]
    /\ UNCHANGED <<backoff, done, cancelled, agentVars, fails, refused>>

\* runLoop on 200 or 201: reset the backoff and sleep until the renewal.
Succeeded(s) ==
    /\ backoff' = [backoff EXCEPT ![s] = InitialBackoff]
    /\ fails' = [fails EXCEPT ![s] = 0]
    /\ pc' = [pc EXCEPT ![s] = "renew"]
    /\ UNCHANGED <<loopVars, refused>>

\* Mutation: the branch for 409 falls through to the exponential backoff.
ConflictEscalates(s) ==
    /\ pc' = [pc EXCEPT ![s] = "retry"]
    /\ UNCHANGED <<loopVars, backoff, fails, refused>>

\* Mutation: 409 is fatal like any other 4xx.
ConflictIsFatal(s) ==
    /\ pc' = [pc EXCEPT ![s] = "stopped"]
    /\ wg' = wg - 1
    /\ UNCHANGED <<started, done, cancelled, backoff, fails, refused>>

\* runLoop on 409: sleep until the renewal; the backoff stays as it is.
Conflicted(s) ==
    /\ pc' = [pc EXCEPT ![s] = "renew"]
    /\ UNCHANGED <<loopVars, backoff, fails, refused>>

\* runLoop on any other 4xx: the loop returns, and with it wg.Done().
GaveUp(s) ==
    /\ pc' = [pc EXCEPT ![s] = "stopped"]
    /\ wg' = wg - 1
    /\ refused' = refused \cup {s}
    /\ UNCHANGED <<started, done, cancelled, backoff, fails>>

\* runLoop on a transport error or any other status: sleep the backoff.
Failed(s) ==
    /\ pc' = [pc EXCEPT ![s] = "retry"]
    /\ fails' = [fails EXCEPT ![s] = IF @ < MaxFails THEN @ + 1 ELSE @]
    /\ UNCHANGED <<loopVars, backoff, refused>>

\* Mutation: the doubled backoff is not capped.
UncappedBackoff(b) == 2 * b

NextBackoff(b) == IF 2 * b > MaxBackoff THEN MaxBackoff ELSE 2 * b

\* sleepOrDone returns true after the re-registration interval.
RenewalDue(s) ==
    /\ pc[s] = "renew"
    /\ pc' = [pc EXCEPT ![s] = "register"]
    /\ UNCHANGED <<loopVars, agentVars, backoff, fails, refused>>

\* sleepOrDone returns true after the backoff, which is then doubled.
RetryDue(s) ==
    /\ pc[s] = "retry"
    /\ pc' = [pc EXCEPT ![s] = "register"]
    /\ backoff' = [backoff EXCEPT ![s] = NextBackoff(@)]
    /\ UNCHANGED <<loopVars, agentVars, fails, refused>>

\* sleepOrDone returns false. When the timer has fired as well, select picks
\* either: RenewalDue and RetryDue stay possible after the cancellation.
StopAsleep(s) ==
    /\ cancelled
    /\ pc[s] \in {"renew", "retry"}
    /\ pc' = [pc EXCEPT ![s] = "stopped"]
    /\ wg' = wg - 1
    /\ UNCHANGED <<started, done, cancelled, agentVars, backoff, fails, refused>>

\* The third goroutine of Start: wg.Wait() returns and done is closed.
CloseDone ==
    /\ started
    /\ wg = 0
    /\ ~done
    /\ done' = TRUE
    /\ UNCHANGED <<started, pc, backoff, wg, cancelled, agentVars, fails,
                   refused>>

Cancel ==
    /\ ~cancelled
    /\ cancelled' = TRUE
    /\ UNCHANGED <<started, pc, backoff, wg, done, agentVars, fails, refused>>

-----------------------------------------------------------------------------
(* registerOnce: one call of the agent, and what comes of it. *)

\* The agent grants the free slot or renews our registration. A request made
\* under a cancelled ctx never leaves the client.
Accepted(s) ==
    /\ pc[s] = "register"
    /\ ~cancelled
    /\ holder[s] # "other"
    /\ holder' = [holder EXCEPT ![s] = "us"]
    /\ Succeeded(s)
    /\ UNCHANGED <<late, upsets>>

Conflict(s) ==
    /\ pc[s] = "register"
    /\ ~cancelled
    /\ holder[s] = "other"
    /\ Conflicted(s)
    /\ UNCHANGED agentVars

Refused(s) ==
    /\ pc[s] = "register"
    /\ ~cancelled
    /\ s \notin HealthySvc
    /\ GaveUp(s)
    /\ UNCHANGED agentVars

\* A 5xx, a transport error, the client's timeout or a cancelled ctx: the
\* request, if it left, may still reach the agent later.
NoSuccess(s) ==
    /\ pc[s] = "register"
    /\ late' \in {late, late \cup {s}}
    /\ Failed(s)
    /\ UNCHANGED <<holder, upsets>>

-----------------------------------------------------------------------------
(* The agent on its own. *)

\* A request whose client has gone is handled after all.
LateArrival(s) ==
    /\ s \in late
    /\ late' = late \ {s}
    /\ holder' = [holder EXCEPT ![s] = IF @ = "none" THEN "us" ELSE @]
    /\ UNCHANGED <<started, pc, backoff, wg, done, cancelled, upsets, fails,
                   refused>>

\* Another provider takes a free slot, or our entry is lost.
Upset(s) ==
    /\ upsets < MaxUpsets
    /\ upsets' = upsets + 1
    /\ \/ holder[s] = "none" /\ holder' = [holder EXCEPT ![s] = "other"]
       \/ holder[s] = "us" /\ holder' = [holder EXCEPT ![s] = "none"]
    /\ UNCHANGED <<started, pc, backoff, wg, done, cancelled, late, fails,
                   refused>>

\* The incumbent is displaced.
Displaced(s) ==
    /\ holder[s] = "other"
    /\ holder' = [holder EXCEPT ![s] = "none"]
    /\ UNCHANGED <<started, pc, backoff, wg, done, cancelled, late, upsets,
                   fails, refused>>

-----------------------------------------------------------------------------

Call(s) == Accepted(s) \/ Conflict(s) \/ Refused(s) \/ NoSuccess(s)

LoopStep(s) == Call(s) \/ RenewalDue(s) \/ RetryDue(s) \/ StopAsleep(s)

AgentStep(s) == LateArrival(s) \/ Upset(s) \/ Displaced(s)

\* Both loops and the closer have returned: nothing of the registrar is left.
Finished == done /\ UNCHANGED vars

Next ==
    \/ Start \/ Cancel \/ CloseDone \/ Finished
    \/ \E s \in Svc : LoopStep(s) \/ AgentStep(s)

Spec == Init /\ [][Next]_vars

-----------------------------------------------------------------------------

\* Every variable has its type; in particular runLoop's backoff stays between
\* its initial value and its cap whatever the sequence of answers.
TypeOK ==
    /\ started \in BOOLEAN
    /\ pc \in [Svc -> {"idle", "register", "renew", "retry", "stopped"}]
    /\ backoff \in [Svc -> InitialBackoff .. MaxBackoff]
    /\ wg \in 0 .. 2
    /\ done \in BOOLEAN
    /\ cancelled \in BOOLEAN
    /\ holder \in [Svc -> {"none", "us", "other"}]
    /\ late \subseteq Svc
    /\ upsets \in 0 .. MaxUpsets
    /\ fails \in [Svc -> 0 .. MaxFails]
    /\ refused \subseteq Svc

\* REQ-REG-080/090: a loop ends for two reasons only, a shutdown or a 4xx of
\* its own service that is not 409. Neither a conflict, nor any number of
\* failures, nor what happened to the other service (REQ-REG-060) ends it.
OnlyRefusalIsFatal ==
    \A s \in Svc : pc[s] = "stopped" => cancelled \/ s \in refused

\* REQ-REG-070/080: the backoff counts exactly the failures since the last
\* success. A success forgets them all; conflicts met in between neither
\* escalate it nor reset it, and the doubling takes effect after the sleep.
BackoffCountsFailures ==
    \A s \in Svc :
        /\ pc[s] = "retry" =>
            fails[s] > 0 /\ backoff[s] = Pace(InitialBackoff, MaxBackoff, fails[s] - 1)
        /\ pc[s] \in {"register", "renew"} =>
            backoff[s] = Pace(InitialBackoff, MaxBackoff, fails[s])

\* Done's channel is closed only once both loops have returned, whichever of
\* them gave up or was cancelled first.
DoneMeansReturned == done => \A s \in Svc : pc[s] = "stopped"

=============================================================================
