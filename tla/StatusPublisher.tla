--------------------------- MODULE StatusPublisher ---------------------------
(***************************************************************************)
(* internal/statuspublisher: the coalescing queue between the status       *)
(* poller and NATS JetStream.  Publish records the latest value of a key   *)
(* under a mutex and then signals a channel of capacity one; one           *)
(* background worker delivers the pending keys in rounds, each key with    *)
(* its own exponential backoff.                                            *)
(*                                                                         *)
(* Every critical section of p.mu is one step, and so is every channel     *)
(* operation and every call of js.Publish; everything in between           *)
(* interleaves.  Time is relative: left[k] is what remains of the cooldown *)
(* of k, so no clock grows.  A value stands for a (service type, status,   *)
(* message) triple, a key for a (subject, resource id) pair.               *)
(***************************************************************************)
EXTENDS Integers

CONSTANTS Key, Value, NoValue,
          Caller,          \* the goroutines that call Publish
          InitialBackoff,  \* publisherOptions.initialBackoff, in ticks
          MaxBackoff,      \* publisherOptions.maxBackoff, in ticks
          Healthy          \* the keys whose publishes the broker accepts
                           \* again and again (used by the fairness only)

ASSUME ValueAssumption == NoValue \notin Value
ASSUME BackoffAssumption ==
    /\ InitialBackoff \in Nat \ {0}
    /\ MaxBackoff \in Nat
    /\ InitialBackoff <= MaxBackoff
ASSUME HealthyAssumption == Healthy \subseteq Key

VARIABLES
    pending,   \* pending[k]: the value waiting for delivery, or NoValue
    retry,     \* retry[k]: the backoff of k, 0 when k has no retry entry
    left,      \* left[k]: ticks until retry[k].nextAttempt, 0 when due
    wake,      \* whether the wake channel holds its one token
    calls,     \* calls[c]: where caller c is inside Publish
    pc,        \* where the worker is
    ready,     \* the keys of this round that are still to be attempted
    attempted, \* whether this round had a ready key
    timer,     \* the wait of this round; counts down during the sleep
    key, val,  \* the key being attempted, and the value read for it
    cancelled, \* whether ctx is cancelled
    stored,    \* stored[k]: the last value the broker stored for k
    latest     \* history: the last value passed to Publish for k

queueVars  == <<pending, retry, left>>
roundVars  == <<ready, attempted, timer>>
workerVars == <<pc, ready, attempted, timer, key, val>>
vars == <<pending, retry, left, wake, calls, pc, ready, attempted, timer,
          key, val, cancelled, stored, latest>>

Entry == Value \cup {NoValue}

\* wait = -1: no key is cooling down, the worker blocks until it is woken.
NoTimer == -1

WorkerPc == {"new", "round", "attempt", "send", "remove", "clear", "bump",
             "sleep", "done"}

TypeOK ==
    /\ pending \in [Key -> Entry]
    /\ retry \in [Key -> 0..MaxBackoff]
    /\ left \in [Key -> 0..MaxBackoff]
    /\ wake \in BOOLEAN
    /\ calls \in [Caller -> {"idle", "recorded"}]
    /\ pc \in WorkerPc
    /\ ready \in SUBSET Key
    /\ attempted \in BOOLEAN
    /\ timer \in {NoTimer} \cup (0..MaxBackoff)
    /\ key \in Key
    /\ val \in Entry
    /\ cancelled \in BOOLEAN
    /\ stored \in [Key -> Entry]
    /\ latest \in [Key -> Entry]

Init ==
    /\ pending = [k \in Key |-> NoValue]
    /\ retry = [k \in Key |-> 0]
    /\ left = [k \in Key |-> 0]
    /\ wake = FALSE
    /\ calls = [c \in Caller |-> "idle"]
    /\ pc = "new"
    /\ ready = {}
    /\ attempted = FALSE
    /\ timer = NoTimer
    /\ key \in Key
    /\ val = NoValue
    /\ cancelled = FALSE
    /\ stored = [k \in Key |-> NoValue]
    /\ latest = [k \in Key |-> NoValue]

-----------------------------------------------------------------------------
(* Publish: the map write and the non-blocking send on wake are two steps. *)

Record(c, k, v) ==
    /\ calls[c] = "idle"
    /\ calls' = [calls EXCEPT ![c] = "recorded"]
    /\ pending' = [pending EXCEPT ![k] = v]
    /\ latest' = [latest EXCEPT ![k] = v]
    /\ UNCHANGED <<retry, left, wake, workerVars, cancelled, stored>>

\* Mutant of Signal: an unbuffered wake channel, whose non-blocking send is
\* dropped unless the worker already waits.
SignalUnbuffered(c) ==
    /\ calls[c] = "recorded"
    /\ calls' = [calls EXCEPT ![c] = "idle"]
    /\ wake' = (wake \/ pc = "sleep")
    /\ UNCHANGED <<queueVars, workerVars, cancelled, stored, latest>>


Signal(c) ==
    /\ calls[c] = "recorded"
    /\ calls' = [calls EXCEPT ![c] = "idle"]
    /\ wake' = TRUE
    /\ UNCHANGED <<queueVars, workerVars, cancelled, stored, latest>>

-----------------------------------------------------------------------------
(* The worker.                                                             *)

Start ==
    /\ pc = "new"
    /\ pc' = "round"
    /\ UNCHANGED <<queueVars, wake, calls, roundVars, key, val, cancelled,
                   stored, latest>>

PendingKeys == {k \in Key : pending[k] # NoValue}
CoolingKeys == {k \in PendingKeys : left[k] > 0}

\* Mutant of IsRoundWait: the cooling keys are left out of the wait.
IsEndlessWait(t) == t = NoTimer

\* The wait attemptRound computes: the shortest remaining cooldown.
IsRoundWait(t) ==
    IF CoolingKeys = {} THEN t = NoTimer
    ELSE /\ \E k \in CoolingKeys : left[k] = t
         /\ \A k \in CoolingKeys : t <= left[k]

\* attemptRound up to its unlock.  Reading the clock and taking the mutex
\* are one step: a tick in between would only lengthen the wait.
BeginRound ==
    /\ pc = "round"
    /\ ready' = PendingKeys \ CoolingKeys
    /\ attempted' = (ready' # {})
    /\ \E t \in {NoTimer} \cup (1..MaxBackoff) : IsRoundWait(t) /\ timer' = t
    /\ pc' = "attempt"
    /\ UNCHANGED <<queueVars, wake, calls, key, val, cancelled, stored, latest>>

\* Mutant of ReadCurrent: the value is taken off the queue before the send.
ReadAndDequeue(k) ==
    /\ pc = "attempt"
    /\ k \in ready
    /\ ready' = ready \ {k}
    /\ key' = k
    /\ val' = pending[k]
    /\ pending' = [pending EXCEPT ![k] = NoValue]
    /\ pc' = IF pending[k] = NoValue THEN "clear" ELSE "send"
    /\ UNCHANGED <<retry, left, wake, calls, attempted, timer, cancelled,
                   stored, latest>>

\* attemptOnce up to the send: currentValue under the mutex.  A key with no
\* value goes straight to clearRetry.
ReadCurrent(k) ==
    /\ pc = "attempt"
    /\ k \in ready
    /\ ready' = ready \ {k}
    /\ key' = k
    /\ val' = pending[k]
    /\ pc' = IF pending[k] = NoValue THEN "clear" ELSE "send"
    /\ UNCHANGED <<queueVars, wake, calls, attempted, timer, cancelled,
                   stored, latest>>

\* js.Publish returned nil: the stream stored the message.
SendAcked(k) ==
    /\ pc = "send"
    /\ key = k
    /\ stored' = [stored EXCEPT ![k] = val]
    /\ pc' = "remove"
    /\ UNCHANGED <<queueVars, wake, calls, roundVars, key, val, cancelled,
                   latest>>

\* js.Publish failed and nothing was stored.
SendLost ==
    /\ pc = "send"
    /\ pc' = "bump"
    /\ UNCHANGED <<queueVars, wake, calls, roundVars, key, val, cancelled,
                   stored, latest>>

\* js.Publish failed (its 5s timeout, a lost ack, a cancelled ctx) although
\* the stream stored the message.
SendAckLost ==
    /\ pc = "send"
    /\ stored' = [stored EXCEPT ![key] = val]
    /\ pc' = "bump"
    /\ UNCHANGED <<queueVars, wake, calls, roundVars, key, val, cancelled,
                   latest>>

\* Mutant of removeIfUnchanged: whatever is pending after the send goes.
RemoveAlways ==
    /\ pc = "remove"
    /\ pending' = [pending EXCEPT ![key] = NoValue]
    /\ pc' = "clear"
    /\ UNCHANGED <<retry, left, wake, calls, roundVars, key, val, cancelled,
                   stored, latest>>


removeIfUnchanged ==
    /\ pc = "remove"
    /\ pending' = [pending EXCEPT ![key] = IF @ = val THEN NoValue ELSE @]
    /\ pc' = "clear"
    /\ UNCHANGED <<retry, left, wake, calls, roundVars, key, val, cancelled,
                   stored, latest>>

\* Mutant of clearRetry: the backoff history survives the delivery.
KeepRetry ==
    /\ pc = "clear"
    /\ pc' = "attempt"
    /\ val' = NoValue
    /\ UNCHANGED <<queueVars, wake, calls, roundVars, key, cancelled, stored,
                   latest>>

\* The retry entry goes; attemptOnce returns, so its local val goes too.
clearRetry ==
    /\ pc = "clear"
    /\ retry' = [retry EXCEPT ![key] = 0]
    /\ left' = [left EXCEPT ![key] = 0]
    /\ pc' = "attempt"
    /\ val' = NoValue
    /\ UNCHANGED <<pending, wake, calls, roundVars, key, cancelled, stored,
                   latest>>

\* Mutant of NextBackoff: the doubling is not capped.
UncappedBackoff(b) == IF b = 0 THEN InitialBackoff ELSE 2 * b


NextBackoff(b) ==
    IF b = 0 THEN InitialBackoff
    ELSE IF 2 * b > MaxBackoff THEN MaxBackoff ELSE 2 * b

\* Mutant of bumpRetry: the failed value is put back, over a newer one.
BumpAndRequeue ==
    /\ pc = "bump"
    /\ pending' = [pending EXCEPT ![key] = val]
    /\ retry' = [retry EXCEPT ![key] = NextBackoff(@)]
    /\ left' = [left EXCEPT ![key] = NextBackoff(retry[key])]
    /\ pc' = "attempt"
    /\ val' = NoValue
    /\ UNCHANGED <<wake, calls, roundVars, key, cancelled, stored, latest>>


bumpRetry ==
    /\ pc = "bump"
    /\ retry' = [retry EXCEPT ![key] = NextBackoff(@)]
    /\ left' = [left EXCEPT ![key] = NextBackoff(retry[key])]
    /\ pc' = "attempt"
    /\ val' = NoValue
    /\ UNCHANGED <<pending, wake, calls, roundVars, key, cancelled, stored,
                   latest>>

\* Mutant of EndRound: ctx is only looked at in the select.
EndRoundUnchecked ==
    /\ pc = "attempt"
    /\ ready = {}
    /\ pc' = IF attempted THEN "round" ELSE "sleep"
    /\ UNCHANGED <<queueVars, wake, calls, roundVars, key, val, cancelled,
                   stored, latest>>

\* Back in run after attemptRound: ctx first, then another round at once if
\* this one attempted anything, else the select.
EndRound ==
    /\ pc = "attempt"
    /\ ready = {}
    /\ pc' = CASE cancelled -> "done"
               [] ~cancelled /\ attempted -> "round"
               [] OTHER -> "sleep"
    /\ UNCHANGED <<queueVars, wake, calls, roundVars, key, val, cancelled,
                   stored, latest>>

\* The three cases of the select (two when there is no timer).
Woken ==
    /\ pc = "sleep"
    /\ wake
    /\ wake' = FALSE
    /\ pc' = "round"
    /\ UNCHANGED <<queueVars, calls, roundVars, key, val, cancelled, stored,
                   latest>>

TimerFires ==
    /\ pc = "sleep"
    /\ timer = 0
    /\ pc' = "round"
    /\ UNCHANGED <<queueVars, wake, calls, roundVars, key, val, cancelled,
                   stored, latest>>

StopWhileAsleep ==
    /\ pc = "sleep"
    /\ cancelled
    /\ pc' = "done"
    /\ UNCHANGED <<queueVars, wake, calls, roundVars, key, val, cancelled,
                   stored, latest>>

-----------------------------------------------------------------------------
(* The environment: ctx is cancelled once, time passes.                    *)

Cancel ==
    /\ ~cancelled
    /\ cancelled' = TRUE
    /\ UNCHANGED <<queueVars, wake, calls, workerVars, stored, latest>>

Less(n) == IF n > 0 THEN n - 1 ELSE n

\* One tick: every cooldown shrinks, and the timer if it is running.
Tick ==
    /\ \/ \E k \in Key : left[k] > 0
       \/ pc = "sleep" /\ timer > 0
    /\ left' = [k \in Key |-> Less(left[k])]
    /\ timer' = IF pc = "sleep" THEN Less(timer) ELSE timer
    /\ UNCHANGED <<pending, retry, wake, calls, pc, ready, attempted, key,
                   val, cancelled, stored, latest>>

-----------------------------------------------------------------------------
Publish == \E c \in Caller :
    \/ \E k \in Key, v \in Value : Record(c, k, v)
    \/ Signal(c)

Send == SendLost \/ SendAckLost \/ \E k \in Key : SendAcked(k)

\* The steps of the worker that depend on nobody else.
WorkerStep ==
    \/ Start \/ BeginRound \/ removeIfUnchanged \/ clearRetry \/ bumpRetry
    \/ EndRound \/ Woken \/ TimerFires \/ StopWhileAsleep
    \/ \E k \in Key : ReadCurrent(k)

Next == Publish \/ WorkerStep \/ Send \/ Cancel \/ Tick

Spec == Init /\ [][Next]_vars

\* The scheduler runs the worker and lets a caller finish Publish, time
\* passes, js.Publish returns (it has a timeout of its own), and a broker
\* that is asked again and again for a healthy key accepts it some time.
Fairness ==
    /\ WF_vars(WorkerStep)
    /\ WF_vars(Send)
    /\ WF_vars(Tick)
    /\ \A c \in Caller : WF_vars(Signal(c))
    /\ \A k \in Healthy : SF_vars(SendAcked(k))

FairSpec == Spec /\ Fairness

-----------------------------------------------------------------------------
(* Safety.                                                                 *)

\* REQ-PUBLISH-070: no update is silently dropped, in spite of coalescing,
\* of sends whose outcome is unknown and of Publish calls that race with a
\* delivery (removeIfUnchanged).  What waits for a key is the last value
\* published for it, and when nothing waits the last value the broker stored
\* for that key is the last one published.
NothingDropped ==
    \A k \in Key : IF pending[k] = NoValue THEN stored[k] = latest[k]
                                           ELSE pending[k] = latest[k]

\* No wake-up is lost and no key is overslept (run, REQ-PUBLISH-095): while
\* the worker sleeps, a pending key is announced by the token in wake or by
\* a caller on its way to put it there, or it has failed before and the
\* running timer does not outlast its backoff.
NoLostWakeup ==
    pc = "sleep" =>
        \A k \in PendingKeys :
            \/ wake
            \/ \E c \in Caller : calls[c] = "recorded"
            \/ timer \in 0..retry[k] /\ retry[k] > 0

\* The comment in attemptOnce that calls its missing-value branch
\* unreachable: a key of the current round stays pending until the worker
\* itself has delivered it, whatever the callers do meanwhile.
AttemptedKeyIsPending ==
    /\ \A k \in ready : pending[k] # NoValue
    /\ pc \in {"send", "remove", "bump"} => pending[key] # NoValue

\* DD-077: only a key with an undelivered value carries backoff history, so
\* a resource whose earlier update got through is attempted at once when it
\* changes again.  The one exception is the gap between removeIfUnchanged
\* and clearRetry.
BackoffOnlyWhilePending ==
    \A k \in Key : retry[k] > 0 =>
        pending[k] # NoValue \/ (pc = "clear" /\ key = k)

\* REQ-PUBLISH-080 as written: a value that reaches the broker is the latest
\* recorded one at that moment.  attemptOnce reads the value, releases the
\* mutex and then sends, so this does not hold.
NeverSendsStale ==
    [][\A k \in Key : stored'[k] # stored[k] => stored'[k] = latest[k]]_vars

-----------------------------------------------------------------------------
(* Refinement and liveness.                                                *)

\* The queue implements LatestValueDelivery: the worker between
\* currentValue and the end of js.Publish is the courier, a pending key is
\* owed.
Carried == IF pc = "send" THEN {[key |-> key, val |-> val]} ELSE {}
Owed == [k \in Key |-> pending[k] # NoValue]

Delivery == INSTANCE LatestValueDelivery
              WITH carried <- Carried, seen <- stored, owed <- Owed

\* The consumer sees every key's values in the order Publish recorded them,
\* without ever going back, and a key is only taken off the queue once its
\* latest value is stored (removeIfUnchanged, currentValue).
DeliverySpec == Delivery!Spec

\* REQ-PUBLISH-070 and 095: when a healthy key is no longer published to,
\* its latest value ends up as the last one stored, even if the broker
\* refuses every other key for ever; unless the worker is shut down.
LatestDelivered ==
    \A k \in Healthy : \A v \in Value :
        <>[](latest[k] = v) => <>[](cancelled \/ stored[k] = v)

\* REQ-PUBLISH-060: once ctx is cancelled the worker returns and closes
\* done, whatever it was doing.
StopsWhenCancelled == cancelled ~> pc = "done"
=============================================================================
