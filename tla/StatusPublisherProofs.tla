------------------------ MODULE StatusPublisherProofs ------------------------
(***************************************************************************)
(* Proofs about StatusPublisher for any sets of keys, values and callers   *)
(* and any backoff bounds: the inductive invariant, the safety properties  *)
(* that follow from it, and the refinement of LatestValueDelivery.         *)
(***************************************************************************)
EXTENDS StatusPublisher, TLAPS

-----------------------------------------------------------------------------
(* The inductive invariant.                                                *)

\* A cooldown never outlasts the backoff it was started with.
LeftWithinBackoff == \A k \in Key : left[k] <= retry[k]

\* The worker is inside attemptOnce.
Attempting == pc \in {"send", "remove", "clear", "bump"}

\* A key leaves the round when its attempt begins, and a round that attempts
\* anything says so.
RoundBookkeeping ==
    /\ Attempting => key \notin ready /\ attempted
    /\ pc = "attempt" /\ ready # {} => attempted

\* What js.Publish is given is a value, and it is stored once acknowledged.
SentValue ==
    /\ pc \in {"send", "remove"} => val \in Value
    /\ pc = "remove" => stored[key] = val

\* NoLostWakeup, from the moment the round found nothing to attempt.
Announced(k) ==
    \/ wake
    \/ \E c \in Caller : calls[c] = "recorded"
    \/ retry[k] > 0 /\ 0 <= timer /\ timer <= retry[k]

GoingToSleep == pc = "sleep" \/ (pc = "attempt" /\ ready = {} /\ ~attempted)

SleepIsAnnounced ==
    GoingToSleep => \A k \in Key : pending[k] # NoValue => Announced(k)

IInv ==
    /\ TypeOK
    /\ LeftWithinBackoff
    /\ RoundBookkeeping
    /\ SentValue
    /\ AttemptedKeyIsPending
    /\ NothingDropped
    /\ BackoffOnlyWhilePending
    /\ SleepIsAnnounced

-----------------------------------------------------------------------------
(* Type correctness.                                                       *)

\* A backoff, the first or a doubled one, is at least one tick and never
\* above the maximum (bumpRetry).
LEMMA BackoffBounds ==
    ASSUME NEW b \in 0..MaxBackoff
    PROVE  NextBackoff(b) \in 1..MaxBackoff
  BY BackoffAssumption DEF NextBackoff

\* Every step keeps the state well typed; in particular the doubling of a
\* backoff stays within its bounds (bumpRetry).
LEMMA TypeStep == TypeOK /\ [Next]_vars => TypeOK'
<1> SUFFICES ASSUME TypeOK, [Next]_vars PROVE TypeOK'
  OBVIOUS
<1> USE DEF TypeOK, Entry, WorkerPc, NoTimer, queueVars, roundVars, workerVars
<1>1. ASSUME NEW c \in Caller, NEW k \in Key, NEW v \in Value, Record(c, k, v)
      PROVE  TypeOK'
  BY <1>1 DEF Record
<1>2. ASSUME NEW c \in Caller, Signal(c)
      PROVE  TypeOK'
  BY <1>2 DEF Signal
<1>3. CASE Start
  BY <1>3 DEF Start
<1>4. CASE BeginRound
  BY <1>4 DEF BeginRound, PendingKeys
<1>5. ASSUME NEW k \in Key, ReadCurrent(k)
      PROVE  TypeOK'
  BY <1>5 DEF ReadCurrent
<1>6. ASSUME NEW k \in Key, SendAcked(k)
      PROVE  TypeOK'
  BY <1>6 DEF SendAcked
<1>7. CASE SendLost
  BY <1>7 DEF SendLost
<1>8. CASE SendAckLost
  BY <1>8 DEF SendAckLost
<1>9. CASE removeIfUnchanged
  BY <1>9 DEF removeIfUnchanged
<1>10. CASE clearRetry
  BY <1>10, BackoffAssumption DEF clearRetry
<1>11. CASE bumpRetry
  <2>1. NextBackoff(retry[key]) \in 0..MaxBackoff
    BY BackoffBounds, BackoffAssumption
  <2>2. QED
    BY <1>11, <2>1 DEF bumpRetry
<1>12. CASE EndRound
  BY <1>12 DEF EndRound
<1>13. CASE Woken
  BY <1>13 DEF Woken
<1>14. CASE TimerFires
  BY <1>14 DEF TimerFires
<1>15. CASE StopWhileAsleep
  BY <1>15 DEF StopWhileAsleep
<1>16. CASE Cancel
  BY <1>16 DEF Cancel
<1>17. CASE Tick
  <2>1. \A n \in 0..MaxBackoff : Less(n) \in 0..MaxBackoff
    BY BackoffAssumption DEF Less
  <2>2. timer' \in {NoTimer} \cup (0..MaxBackoff)
    BY <1>17, BackoffAssumption DEF Tick, Less
  <2>3. QED
    BY <1>17, <2>1, <2>2 DEF Tick
<1>18. CASE UNCHANGED vars
  BY <1>18 DEF vars
<1>19. QED
  BY <1>1, <1>2, <1>3, <1>4, <1>5, <1>6, <1>7, <1>8, <1>9, <1>10, <1>11,
     <1>12, <1>13, <1>14, <1>15, <1>16, <1>17, <1>18
     DEF Next, Publish, WorkerStep, Send

\* A new publisher (newPublisher) is well typed.
LEMMA InitTypeOK == Init => TypeOK
<1> SUFFICES ASSUME Init PROVE TypeOK
  OBVIOUS
<1>1. 0 \in 0..MaxBackoff
  BY BackoffAssumption
<1>2. QED
  BY <1>1 DEF Init, TypeOK, Entry, WorkerPc, NoTimer

\* The state is well typed in every reachable state of the queue: no backoff
\* exceeds its maximum, no matter how often a key fails (bumpRetry).
THEOREM TypeCorrect == Spec => []TypeOK
  BY InitTypeOK, TypeStep, PTL DEF Spec

-----------------------------------------------------------------------------
(* The inductive invariant holds in every reachable state.                 *)

\* Nothing is pending, stored or published before the worker starts.
LEMMA IInvInit == Init => IInv
<1> SUFFICES ASSUME Init PROVE IInv
  OBVIOUS
<1>1. TypeOK
  BY InitTypeOK
<1>2. LeftWithinBackoff /\ BackoffOnlyWhilePending
  BY DEF Init, LeftWithinBackoff, BackoffOnlyWhilePending
<1>3. RoundBookkeeping /\ SentValue /\ AttemptedKeyIsPending /\ NothingDropped
  BY DEF Init, RoundBookkeeping, Attempting, SentValue, AttemptedKeyIsPending,
         NothingDropped
<1>4. SleepIsAnnounced
  BY DEF Init, SleepIsAnnounced, GoingToSleep
<1>5. QED
  BY <1>1, <1>2, <1>3, <1>4 DEF IInv

\* Every step of a caller, the worker, the broker or the clock preserves the
\* invariant.
LEMMA IInvStep == IInv /\ [Next]_vars => IInv'
<1> SUFFICES ASSUME IInv, [Next]_vars PROVE IInv'
  OBVIOUS
<1> USE DEF IInv, TypeOK, Entry, NoTimer, queueVars, roundVars, workerVars
<1>t. TypeOK'
  BY TypeStep
<1>1. ASSUME NEW c \in Caller, NEW k \in Key, NEW v \in Value, Record(c, k, v)
      PROVE  IInv'
  <2> USE <1>1, ValueAssumption DEF Record
  <2>1. AttemptedKeyIsPending' /\ NothingDropped' /\ BackoffOnlyWhilePending'
    BY DEF AttemptedKeyIsPending, NothingDropped, BackoffOnlyWhilePending
  <2>2. SleepIsAnnounced'
    BY DEF SleepIsAnnounced, Announced
  <2>3. LeftWithinBackoff' /\ RoundBookkeeping' /\ SentValue'
    BY DEF LeftWithinBackoff, RoundBookkeeping, Attempting, SentValue
  <2>4. QED
    BY <1>t, <2>1, <2>2, <2>3
<1>2. ASSUME NEW c \in Caller, Signal(c)
      PROVE  IInv'
  <2> USE <1>2 DEF Signal
  <2>1. SleepIsAnnounced'
    BY DEF SleepIsAnnounced, Announced
  <2>2. QED
    BY <1>t, <2>1 DEF LeftWithinBackoff, RoundBookkeeping, Attempting, SentValue,
       AttemptedKeyIsPending, NothingDropped, BackoffOnlyWhilePending
<1>3. CASE Start
  BY <1>t, <1>3 DEF Start, LeftWithinBackoff, RoundBookkeeping, Attempting,
     SentValue, AttemptedKeyIsPending, NothingDropped,
     BackoffOnlyWhilePending, SleepIsAnnounced, GoingToSleep
<1>4. CASE BeginRound
  <2> USE <1>4 DEF BeginRound
  <2>1. AttemptedKeyIsPending' /\ RoundBookkeeping'
    BY DEF AttemptedKeyIsPending, RoundBookkeeping, Attempting, PendingKeys
  <2>2. SleepIsAnnounced'
    <3> SUFFICES ASSUME GoingToSleep', NEW k \in Key, pending'[k] # NoValue
                 PROVE  Announced(k)'
      BY DEF SleepIsAnnounced
    <3>1. k \in CoolingKeys
      BY DEF GoingToSleep, PendingKeys
    <3>2. timer' \in 1..MaxBackoff /\ timer' <= left[k]
      BY <3>1, BackoffAssumption DEF IsRoundWait, CoolingKeys, PendingKeys
    <3>3. left[k] <= retry[k]
      BY DEF LeftWithinBackoff
    <3>4. QED
      BY <3>2, <3>3, BackoffAssumption DEF Announced
  <2>3. LeftWithinBackoff' /\ SentValue' /\ NothingDropped' /\ BackoffOnlyWhilePending'
    BY DEF LeftWithinBackoff, SentValue, NothingDropped, BackoffOnlyWhilePending
  <2>4. QED
    BY <1>t, <2>1, <2>2, <2>3
<1>5. ASSUME NEW k \in Key, ReadCurrent(k)
      PROVE  IInv'
  <2> USE <1>5 DEF ReadCurrent
  <2>1. pending[k] # NoValue
    BY DEF AttemptedKeyIsPending
  <2>2. RoundBookkeeping' /\ SentValue' /\ AttemptedKeyIsPending'
    BY <2>1 DEF RoundBookkeeping, Attempting, SentValue, AttemptedKeyIsPending
  <2>3. LeftWithinBackoff' /\ NothingDropped' /\ BackoffOnlyWhilePending' /\ SleepIsAnnounced'
    BY <2>1 DEF LeftWithinBackoff, NothingDropped, BackoffOnlyWhilePending,
       SleepIsAnnounced, GoingToSleep
  <2>4. QED
    BY <1>t, <2>2, <2>3
<1>6. ASSUME NEW k \in Key, SendAcked(k)
      PROVE  IInv'
  <2> USE <1>6 DEF SendAcked
  <2>1. NothingDropped' /\ AttemptedKeyIsPending' /\ SentValue'
    BY DEF NothingDropped, AttemptedKeyIsPending, SentValue
  <2>2. QED
    BY <1>t, <2>1 DEF LeftWithinBackoff, RoundBookkeeping, Attempting,
       BackoffOnlyWhilePending, SleepIsAnnounced, GoingToSleep
<1>7. CASE SendLost
  BY <1>t, <1>7 DEF SendLost, LeftWithinBackoff, RoundBookkeeping, Attempting,
     SentValue, AttemptedKeyIsPending, NothingDropped,
     BackoffOnlyWhilePending, SleepIsAnnounced, GoingToSleep
<1>8. CASE SendAckLost
  <2> USE <1>8 DEF SendAckLost
  <2>1. NothingDropped' /\ AttemptedKeyIsPending' /\ SentValue'
    BY DEF NothingDropped, AttemptedKeyIsPending, SentValue
  <2>2. QED
    BY <1>t, <2>1 DEF LeftWithinBackoff, RoundBookkeeping, Attempting,
       BackoffOnlyWhilePending, SleepIsAnnounced, GoingToSleep
<1>9. CASE removeIfUnchanged
  <2> USE <1>9 DEF removeIfUnchanged
  <2>1. key \notin ready /\ attempted
    BY DEF RoundBookkeeping, Attempting
  <2>2. stored[key] = val /\ val # NoValue
    BY ValueAssumption DEF SentValue
  <2>3. NothingDropped'
    BY <2>2 DEF NothingDropped
  <2>4. AttemptedKeyIsPending' /\ BackoffOnlyWhilePending'
    BY <2>1 DEF AttemptedKeyIsPending, BackoffOnlyWhilePending
  <2>5. QED
    BY <1>t, <2>1, <2>3, <2>4 DEF LeftWithinBackoff, RoundBookkeeping,
       Attempting, SentValue, SleepIsAnnounced, GoingToSleep
<1>10. CASE clearRetry
  <2> USE <1>10 DEF clearRetry
  <2>1. attempted
    BY DEF RoundBookkeeping, Attempting
  <2>2. LeftWithinBackoff' /\ BackoffOnlyWhilePending'
    BY DEF LeftWithinBackoff, BackoffOnlyWhilePending
  <2>3. QED
    BY <1>t, <2>1, <2>2 DEF RoundBookkeeping, Attempting, SentValue,
       AttemptedKeyIsPending, NothingDropped, SleepIsAnnounced, GoingToSleep
<1>11. CASE bumpRetry
  <2> USE <1>11 DEF bumpRetry
  <2>1. attempted
    BY DEF RoundBookkeeping, Attempting
  <2>2. LeftWithinBackoff'
    <3>1. NextBackoff(retry[key]) \in 1..MaxBackoff
      BY BackoffBounds
    <3>2. QED
      BY <3>1 DEF LeftWithinBackoff
  <2>3. BackoffOnlyWhilePending' /\ AttemptedKeyIsPending'
    BY DEF BackoffOnlyWhilePending, AttemptedKeyIsPending
  <2>4. QED
    BY <1>t, <2>1, <2>2, <2>3 DEF RoundBookkeeping, Attempting, SentValue,
       NothingDropped, SleepIsAnnounced, GoingToSleep
<1>12. CASE EndRound
  <2> USE <1>12 DEF EndRound
  <2>1. SleepIsAnnounced'
    BY DEF SleepIsAnnounced, GoingToSleep, Announced
  <2>2. QED
    BY <1>t, <2>1 DEF LeftWithinBackoff, RoundBookkeeping, Attempting, SentValue,
       AttemptedKeyIsPending, NothingDropped, BackoffOnlyWhilePending
<1>13. CASE Woken
  BY <1>t, <1>13 DEF Woken, LeftWithinBackoff, RoundBookkeeping, Attempting,
     SentValue, AttemptedKeyIsPending, NothingDropped,
     BackoffOnlyWhilePending, SleepIsAnnounced, GoingToSleep
<1>14. CASE TimerFires
  BY <1>t, <1>14 DEF TimerFires, LeftWithinBackoff, RoundBookkeeping, Attempting,
     SentValue, AttemptedKeyIsPending, NothingDropped,
     BackoffOnlyWhilePending, SleepIsAnnounced, GoingToSleep
<1>15. CASE StopWhileAsleep
  BY <1>t, <1>15 DEF StopWhileAsleep, LeftWithinBackoff, RoundBookkeeping,
     Attempting, SentValue, AttemptedKeyIsPending, NothingDropped,
     BackoffOnlyWhilePending, SleepIsAnnounced, GoingToSleep
<1>16. CASE Cancel
  BY <1>t, <1>16 DEF Cancel, LeftWithinBackoff, RoundBookkeeping, Attempting,
     SentValue, AttemptedKeyIsPending, NothingDropped,
     BackoffOnlyWhilePending, SleepIsAnnounced, GoingToSleep, Announced
<1>17. CASE Tick
  <2> USE <1>17 DEF Tick
  <2>1. LeftWithinBackoff'
    BY BackoffAssumption DEF LeftWithinBackoff, Less
  <2>2. SleepIsAnnounced'
    <3> SUFFICES ASSUME GoingToSleep', NEW k \in Key, pending'[k] # NoValue
                 PROVE  Announced(k)'
      BY DEF SleepIsAnnounced
    <3>1. Announced(k)
      BY DEF SleepIsAnnounced, GoingToSleep
    <3>2. 0 <= timer /\ timer <= retry[k] => 0 <= timer' /\ timer' <= retry[k]
      BY BackoffAssumption DEF Less
    <3>3. QED
      BY <3>1, <3>2 DEF Announced
  <2>3. QED
    BY <1>t, <2>1, <2>2 DEF RoundBookkeeping, Attempting, SentValue,
       AttemptedKeyIsPending, NothingDropped, BackoffOnlyWhilePending
<1>18. CASE UNCHANGED vars
  BY <1>t, <1>18 DEF vars, LeftWithinBackoff, RoundBookkeeping, Attempting,
     SentValue, AttemptedKeyIsPending, NothingDropped,
     BackoffOnlyWhilePending, SleepIsAnnounced, GoingToSleep, Announced
<1>19. QED
  BY <1>1, <1>2, <1>3, <1>4, <1>5, <1>6, <1>7, <1>8, <1>9, <1>10, <1>11,
     <1>12, <1>13, <1>14, <1>15, <1>16, <1>17, <1>18
     DEF Next, Publish, WorkerStep, Send

\* The inductive invariant holds in every reachable state of the queue.
THEOREM InductiveInvariant == Spec => []IInv
  BY IInvInit, IInvStep, PTL DEF Spec

-----------------------------------------------------------------------------
(* The safety properties.                                                  *)

\* REQ-PUBLISH-070 for any number of keys, values and concurrent callers and
\* any backoff: removeIfUnchanged never discards a value that is not the last
\* one the broker stored.
THEOREM NothingIsDropped == Spec => []NothingDropped
<1>1. IInv => NothingDropped
  BY DEF IInv
<1>2. QED
  BY <1>1, InductiveInvariant, PTL

\* No interleaving of Publish with the worker's select loses a wake-up, and
\* the worker never sleeps past the backoff of a pending key (run).
THEOREM NoWakeupIsLost == Spec => []NoLostWakeup
<1>1. IInv => NoLostWakeup
  <2> SUFFICES ASSUME IInv, pc = "sleep", NEW k \in Key, pending[k] # NoValue
               PROVE  \/ wake
                      \/ \E c \in Caller : calls[c] = "recorded"
                      \/ timer \in 0..retry[k] /\ retry[k] > 0
    BY DEF NoLostWakeup, PendingKeys
  <2>1. Announced(k)
    BY DEF IInv, SleepIsAnnounced, GoingToSleep
  <2>2. timer \in Int /\ retry[k] \in Int
    BY BackoffAssumption DEF IInv, TypeOK, NoTimer
  <2>3. QED
    BY <2>1, <2>2 DEF Announced
<1>2. QED
  BY <1>1, InductiveInvariant, PTL

\* The branch of attemptOnce for a key without a value is dead code, as its
\* comment claims.
THEOREM MissingValueIsUnreachable == Spec => []AttemptedKeyIsPending
<1>1. IInv => AttemptedKeyIsPending
  BY DEF IInv
<1>2. QED
  BY <1>1, InductiveInvariant, PTL

\* DD-077: a delivered key keeps no backoff history (clearRetry).
THEOREM NoStaleBackoff == Spec => []BackoffOnlyWhilePending
<1>1. IInv => BackoffOnlyWhilePending
  BY DEF IInv
<1>2. QED
  BY <1>1, InductiveInvariant, PTL

-----------------------------------------------------------------------------
(* The refinement.                                                         *)

\* A new publisher owes nothing and carries nothing.
LEMMA DeliveryInit == Init => Delivery!Init
  BY DEF Init, Delivery!Init, Carried, Owed

\* Each step of the queue is a step of LatestValueDelivery or invisible to
\* it.
LEMMA DeliveryStep == IInv /\ [Next]_vars => [Delivery!Next]_(Delivery!vars)
<1> SUFFICES ASSUME IInv, [Next]_vars PROVE [Delivery!Next]_(Delivery!vars)
  OBVIOUS
<1> USE DEF Delivery!vars, Carried, Owed, queueVars, roundVars, workerVars
<1> DEFINE Invisible == UNCHANGED <<pending, pc, key, val, stored, latest>>
<1>i. Invisible => UNCHANGED Delivery!vars
  OBVIOUS
<1>s. ASSUME UNCHANGED <<pending, stored, latest>>, pc # "send", pc' # "send"
      PROVE  UNCHANGED Delivery!vars
  BY <1>s
<1>1. ASSUME NEW c \in Caller, NEW k \in Key, NEW v \in Value, Record(c, k, v)
      PROVE  Delivery!Next
  <2>1. Owed' = [Owed EXCEPT ![k] = TRUE]
    BY <1>1, ValueAssumption DEF Record, IInv, TypeOK
  <2>2. Delivery!Record(k, v)
    BY <1>1, <2>1 DEF Record, Delivery!Record
  <2>3. QED
    BY <2>2 DEF Delivery!Next
<1>2. ASSUME NEW c \in Caller, Signal(c)
      PROVE  UNCHANGED Delivery!vars
  BY <1>i, <1>2 DEF Signal
<1>3. CASE Start
  BY <1>s, <1>3 DEF Start
<1>4. CASE BeginRound
  BY <1>s, <1>4 DEF BeginRound
<1>5. ASSUME NEW k \in Key, ReadCurrent(k)
      PROVE  Delivery!Next
  <2>1. pending[k] # NoValue /\ pending[k] = latest[k]
    BY <1>5 DEF ReadCurrent, IInv, AttemptedKeyIsPending, NothingDropped
  <2>2. Delivery!PickUp(k)
    BY <1>5, <2>1 DEF ReadCurrent, Delivery!PickUp
  <2>3. QED
    BY <2>2 DEF Delivery!Next
<1>6. ASSUME NEW k \in Key, SendAcked(k)
      PROVE  Delivery!HandOver
  BY <1>6 DEF SendAcked, Delivery!HandOver
<1>7. CASE SendLost
  BY <1>7 DEF SendLost, Delivery!Lose, Delivery!Next
<1>8. CASE SendAckLost
  BY <1>8 DEF SendAckLost, Delivery!HandOver, Delivery!Next
<1>9. CASE removeIfUnchanged
  <2>1. CASE pending[key] = val
    <3>1. stored[key] = latest[key]
      BY <1>9, <2>1, ValueAssumption
         DEF removeIfUnchanged, IInv, SentValue, NothingDropped, TypeOK
    <3>2. Owed' = [Owed EXCEPT ![key] = FALSE]
      BY <1>9, <2>1 DEF removeIfUnchanged, IInv, TypeOK
    <3>3. Delivery!Settle(key)
      BY <1>9, <3>1, <3>2 DEF removeIfUnchanged, Delivery!Settle
    <3>4. key \in Key
      BY DEF IInv, TypeOK
    <3>5. Delivery!Next
      BY <3>3, <3>4 DEF Delivery!Next, Delivery!Settle
    <3>6. QED
      BY <3>5
  <2>2. CASE pending[key] # val
    <3>1. pending' = pending
      BY <1>9, <2>2 DEF removeIfUnchanged, IInv, TypeOK
    <3>2. QED
      BY <1>s, <1>9, <3>1 DEF removeIfUnchanged
  <2>3. QED
    BY <2>1, <2>2
<1>10. CASE clearRetry
  BY <1>s, <1>10 DEF clearRetry
<1>11. CASE bumpRetry
  BY <1>s, <1>11 DEF bumpRetry
<1>12. CASE EndRound
  BY <1>s, <1>12 DEF EndRound
<1>13. CASE Woken
  BY <1>s, <1>13 DEF Woken
<1>14. CASE TimerFires
  BY <1>s, <1>14 DEF TimerFires
<1>15. CASE StopWhileAsleep
  BY <1>s, <1>15 DEF StopWhileAsleep
<1>16. CASE Cancel
  BY <1>i, <1>16 DEF Cancel
<1>17. CASE Tick
  BY <1>i, <1>17 DEF Tick
<1>18. CASE UNCHANGED vars
  BY <1>i, <1>18 DEF vars
<1>19. QED
  BY <1>1, <1>2, <1>3, <1>4, <1>5, <1>6, <1>7, <1>8, <1>9, <1>10, <1>11,
     <1>12, <1>13, <1>14, <1>15, <1>16, <1>17, <1>18
     DEF Next, Publish, WorkerStep, Send, Delivery!Next

\* The publisher implements LatestValueDelivery: for any number of keys,
\* values and callers, a consumer sees the values of a key in the order in
\* which Publish recorded them, and a key is given up only when the consumer
\* has its latest value.
THEOREM ImplementsDelivery == Spec => DeliverySpec
<1>1. Spec => Delivery!Init /\ [][Delivery!Next]_(Delivery!vars)
  BY DeliveryInit, DeliveryStep, InductiveInvariant, PTL DEF Spec
<1>2. QED
  BY <1>1 DEF DeliverySpec, Delivery!Spec
=============================================================================
