------------------------ MODULE ServerLifecycleProofs ------------------------
(***************************************************************************)
(* For every backoff range, agent, OSAC and sequence of restarts.          *)
(*                                                                         *)
(* The registrar: it is type correct, its backoff counts the failures      *)
(* since the last success, a loop ends only for a shutdown or a refusal of *)
(* its own service, and done is closed only after both loops have          *)
(* returned.  The last needs the WaitGroup's counter to be the number of   *)
(* loops that run, which is the strengthening IInv adds.                   *)
(*                                                                         *)
(* The process: it is type correct, registers only once its own health     *)
(* endpoint has answered, never ends a registration loop without a reason, *)
(* and exits with success only after a drained shutdown.  The registrar's  *)
(* invariant carries over because its steps are those of Registration;     *)
(* what is new is that an exit resets it, and that a restart, which clears *)
(* the cancellation, finds no loop that it ended.                          *)
(***************************************************************************)
EXTENDS ServerLifecycle, RecursionProofs

Runs(s) == IF pc[s] \in {"idle", "stopped"} THEN 0 ELSE 1

\* The WaitGroup counts the loops that run; none runs before Start, and a
\* loop that was started never becomes idle again.
WaitGroupCounts ==
    /\ wg = Runs("cluster") + Runs("vm")
    /\ \A s \in Svc : (pc[s] = "idle") <=> ~started

\* A loop that has not been started has not failed yet.
IdleIsFresh ==
    \A s \in Svc : pc[s] = "idle" => backoff[s] = InitialBackoff /\ fails[s] = 0

IInv ==
    /\ TypeOK
    /\ WaitGroupCounts
    /\ IdleIsFresh
    /\ BackoffCountsFailures
    /\ OnlyRefusalIsFatal
    /\ DoneMeansReturned

-----------------------------------------------------------------------------

\* Doubling and capping stays within the range of the backoff.
LEMMA BackoffBounds ==
    ASSUME NEW b \in InitialBackoff .. MaxBackoff
    PROVE  NextBackoff(b) \in InitialBackoff .. MaxBackoff
  BY RegistrationAssumption DEF NextBackoff

\* The backoff's steps, for the registrar's constants.
LEMMA BackoffPace ==
    ASSUME NEW n \in 0 .. MaxFails
    PROVE  /\ Pace(InitialBackoff, MaxBackoff, 0) = InitialBackoff
           /\ n > 0 => NextBackoff(Pace(InitialBackoff, MaxBackoff, n - 1))
                        = Pace(InitialBackoff, MaxBackoff, n)
           /\ Pace(InitialBackoff, MaxBackoff, MaxFails)
                = Pace(InitialBackoff, MaxBackoff, MaxFails - 1)
<1>1. Pace(InitialBackoff, MaxBackoff, 0) = InitialBackoff
  BY PaceSteps, RegistrationAssumption
<1>2. ASSUME n > 0
      PROVE  NextBackoff(Pace(InitialBackoff, MaxBackoff, n - 1))
               = Pace(InitialBackoff, MaxBackoff, n)
  <2>1. n - 1 \in Nat /\ (n - 1) + 1 = n
    BY <1>2, RegistrationAssumption
  <2>2. Pace(InitialBackoff, MaxBackoff, (n - 1) + 1) =
            IF 2 * Pace(InitialBackoff, MaxBackoff, n - 1) > MaxBackoff
            THEN MaxBackoff ELSE 2 * Pace(InitialBackoff, MaxBackoff, n - 1)
    BY <2>1, PaceSteps, RegistrationAssumption
  <2>3. QED
    BY <2>1, <2>2 DEF NextBackoff
<1>3. /\ Pace(InitialBackoff, MaxBackoff, MaxFails) = MaxBackoff
      /\ Pace(InitialBackoff, MaxBackoff, MaxFails - 1) = MaxBackoff
  <2>1. /\ MaxFails \in Nat /\ MaxFails + 1 >= MaxBackoff
        /\ MaxFails - 1 \in Nat /\ (MaxFails - 1) + 1 >= MaxBackoff
    BY RegistrationAssumption
  <2>2. QED
    BY <2>1, PaceSteps, RegistrationAssumption
<1>4. QED
  BY <1>1, <1>2, <1>3

\* The constructor and a fresh agent satisfy the inductive invariant.
LEMMA IInvInit == Init => IInv
<1> SUFFICES ASSUME Init
             PROVE  IInv
  OBVIOUS
<1>1. TypeOK
  <2>1. InitialBackoff \in InitialBackoff .. MaxBackoff
    BY RegistrationAssumption
  <2>2. 0 \in 0 .. MaxFails /\ 0 \in 0 .. MaxUpsets
    BY RegistrationAssumption
  <2>3. holder \in [Svc -> {"none", "us", "other"}]
    BY DEF Init
  <2>4. pc \in [Svc -> {"idle", "register", "renew", "retry", "stopped"}]
    BY DEF Init
  <2>5. backoff \in [Svc -> InitialBackoff .. MaxBackoff]
    BY <2>1 DEF Init
  <2>6. fails \in [Svc -> 0 .. MaxFails] /\ upsets \in 0 .. MaxUpsets
    BY <2>2 DEF Init
  <2>7. wg \in 0 .. 2
    BY DEF Init
  <2>8. started \in BOOLEAN /\ done \in BOOLEAN /\ cancelled \in BOOLEAN
    BY DEF Init
  <2>9. late \subseteq Svc /\ refused \subseteq Svc
    BY DEF Init
  <2>10. QED
    BY <2>3, <2>4, <2>5, <2>6, <2>7, <2>8, <2>9 DEF TypeOK
<1>2. WaitGroupCounts
  BY DEF Init, WaitGroupCounts, Runs, Svc
<1>3. OnlyRefusalIsFatal /\ DoneMeansReturned
  BY DEF Init, OnlyRefusalIsFatal, DoneMeansReturned
<1>4. IdleIsFresh /\ BackoffCountsFailures
  BY DEF Init, IdleIsFresh, BackoffCountsFailures
<1>5. QED
  BY <1>1, <1>2, <1>3, <1>4 DEF IInv

\* Every step of the registrar and of the agent keeps the variables' types.
LEMMA TypeStep == IInv /\ [Next]_vars => TypeOK'
<1> SUFFICES ASSUME IInv, [Next]_vars
             PROVE  TypeOK'
  OBVIOUS
<1> USE RegistrationAssumption DEF TypeOK, loopVars, agentVars
<1> TypeOK
  BY DEF IInv
<1>w. ASSUME NEW s \in Svc, pc[s] \notin {"idle", "stopped"}
      PROVE  wg \in 1 .. 2
  BY <1>w DEF IInv, WaitGroupCounts, Runs, Svc
<1>1. CASE Start
  BY <1>1 DEF Start
<1>2. CASE Cancel
  BY <1>2 DEF Cancel
<1>3. CASE CloseDone
  BY <1>3 DEF CloseDone
<1>4. CASE Finished
  BY <1>4 DEF Finished, vars
<1>5. ASSUME NEW s \in Svc, LoopStep(s)
      PROVE  TypeOK'
  <2>1. CASE Accepted(s)
    BY <2>1 DEF Accepted, Succeeded
  <2>2. CASE Conflict(s)
    BY <2>2 DEF Conflict, Conflicted
  <2>3. CASE Refused(s)
    <3>1. wg - 1 \in 0 .. 2
      BY <2>3, <1>w DEF Refused
    <3>2. QED
      BY <2>3, <3>1 DEF Refused, GaveUp
  <2>4. CASE NoSuccess(s)
    BY <2>4 DEF NoSuccess, Failed
  <2>5. CASE RenewalDue(s)
    BY <2>5 DEF RenewalDue
  <2>6. CASE RetryDue(s)
    <3>1. NextBackoff(backoff[s]) \in InitialBackoff .. MaxBackoff
      BY BackoffBounds
    <3>2. QED
      BY <2>6, <3>1 DEF RetryDue
  <2>7. CASE StopAsleep(s)
    <3>1. wg - 1 \in 0 .. 2
      BY <2>7, <1>w DEF StopAsleep
    <3>2. QED
      BY <2>7, <3>1 DEF StopAsleep
  <2>8. QED
    BY <1>5, <2>1, <2>2, <2>3, <2>4, <2>5, <2>6, <2>7 DEF LoopStep, Call
<1>6. ASSUME NEW s \in Svc, AgentStep(s)
      PROVE  TypeOK'
  BY <1>6 DEF AgentStep, LateArrival, Upset, Displaced
<1>7. CASE UNCHANGED vars
  BY <1>7 DEF vars
<1>8. QED
  BY <1>1, <1>2, <1>3, <1>4, <1>5, <1>6, <1>7 DEF Next

\* Every step keeps the backoff at the pace of the failures: a failure counts
\* before the backoff is doubled, a conflict changes neither.
LEMMA PaceStep ==
    IInv /\ [Next]_vars => IdleIsFresh' /\ BackoffCountsFailures'
<1> SUFFICES ASSUME IInv, [Next]_vars
             PROVE  IdleIsFresh' /\ BackoffCountsFailures'
  OBVIOUS
<1> DEFINE P(n) == Pace(InitialBackoff, MaxBackoff, n)
           Paced(s) ==
            /\ pc[s] = "idle" => backoff[s] = InitialBackoff /\ fails[s] = 0
            /\ pc[s] = "retry" => fails[s] > 0 /\ backoff[s] = P(fails[s] - 1)
            /\ pc[s] \in {"register", "renew"} => backoff[s] = P(fails[s])
<1>p. (IdleIsFresh /\ BackoffCountsFailures) <=> \A s \in Svc : Paced(s)
  BY DEF IdleIsFresh, BackoffCountsFailures
<1>q. (\A s \in Svc : Paced(s)') => IdleIsFresh' /\ BackoffCountsFailures'
  BY DEF IdleIsFresh, BackoffCountsFailures
<1>i. TypeOK /\ \A s \in Svc : Paced(s)
  BY <1>p DEF IInv
<1> SUFFICES \A s \in Svc : Paced(s)'
  BY <1>q
<1> HIDE DEF P
<1>0. P(0) = InitialBackoff /\ P(MaxFails) = P(MaxFails - 1) /\ MaxFails \in Nat \ {0}
  BY BackoffPace, RegistrationAssumption DEF P
<1> USE DEF loopVars, agentVars
<1>1. CASE Start
  <2>1. \A s \in Svc : backoff[s] = InitialBackoff /\ fails[s] = 0
    BY <1>1, <1>i DEF Start, IInv, WaitGroupCounts
  <2>2. QED
    BY <1>0, <1>1, <2>1 DEF Start
<1>2. CASE UNCHANGED <<pc, backoff, fails>>
  BY <1>i, <1>2
<1>3. ASSUME NEW s \in Svc, LoopStep(s)
      PROVE  \A r \in Svc : Paced(r)'
  <2>0. /\ pc \in [Svc -> {"idle", "register", "renew", "retry", "stopped"}]
        /\ backoff \in [Svc -> InitialBackoff .. MaxBackoff]
        /\ fails \in [Svc -> 0 .. MaxFails]
    BY <1>i DEF TypeOK
  <2>1. CASE Accepted(s)
    BY <1>0, <1>i, <2>0, <2>1 DEF Accepted, Succeeded
  <2>2. CASE Conflict(s)
    BY <1>i, <2>0, <2>2 DEF Conflict, Conflicted
  <2>3. CASE Refused(s)
    BY <1>i, <2>0, <2>3 DEF Refused, GaveUp
  <2>4. CASE NoSuccess(s)
    <3>1. /\ pc[s] = "register" /\ backoff' = backoff
          /\ pc' = [pc EXCEPT ![s] = "retry"]
          /\ fails' = [fails EXCEPT ![s] =
                        IF fails[s] < MaxFails THEN fails[s] + 1 ELSE fails[s]]
      BY <2>4 DEF NoSuccess, Failed
    <3>2. fails'[s] > 0 /\ backoff[s] = P(fails'[s] - 1)
      <4>1. CASE fails[s] < MaxFails
        <5>1. fails'[s] = fails[s] + 1 /\ fails'[s] - 1 = fails[s]
          BY <2>0, <3>1, <4>1
        <5>2. QED
          BY <1>i, <2>0, <3>1, <5>1
      <4>2. CASE ~(fails[s] < MaxFails)
        <5>1. fails[s] = MaxFails /\ fails'[s] = MaxFails
          BY <1>0, <2>0, <3>1, <4>2
        <5>2. QED
          BY <1>0, <1>i, <3>1, <5>1
      <4>3. QED
        BY <4>1, <4>2
    <3>3. QED
      BY <1>i, <2>0, <3>1, <3>2
  <2>5. CASE RenewalDue(s)
    BY <1>i, <2>0, <2>5 DEF RenewalDue
  <2>6. CASE RetryDue(s)
    <3>1. /\ pc[s] = "retry" /\ fails' = fails
          /\ pc' = [pc EXCEPT ![s] = "register"]
          /\ backoff' = [backoff EXCEPT ![s] = NextBackoff(backoff[s])]
      BY <2>6 DEF RetryDue
    <3>2. NextBackoff(backoff[s]) = P(fails[s])
      BY <1>i, <2>0, <3>1, BackoffPace DEF P
    <3>3. QED
      BY <1>i, <2>0, <3>1, <3>2
  <2>7. CASE StopAsleep(s)
    BY <1>i, <2>0, <2>7 DEF StopAsleep
  <2>8. QED
    BY <1>3, <2>1, <2>2, <2>3, <2>4, <2>5, <2>6, <2>7 DEF LoopStep, Call
<1>4. Cancel \/ CloseDone \/ Finished \/ (\E s \in Svc : AgentStep(s))
        \/ UNCHANGED vars => UNCHANGED <<pc, backoff, fails>>
  BY DEF Cancel, CloseDone, Finished, AgentStep, LateArrival, Upset, Displaced,
         vars
<1>5. QED
  BY <1>1, <1>2, <1>3, <1>4 DEF Next

\* Every step keeps the inductive invariant: a loop leaves the running ones
\* and the WaitGroup in the same step, so done cannot be closed too early.
LEMMA IInvStep == IInv /\ [Next]_vars => IInv'
<1> SUFFICES ASSUME IInv, [Next]_vars
             PROVE  IInv'
  OBVIOUS
<1>t. TypeOK' /\ IdleIsFresh' /\ BackoffCountsFailures'
  BY TypeStep, PaceStep
<1> DEFINE Rest == WaitGroupCounts /\ OnlyRefusalIsFatal /\ DoneMeansReturned
<1> SUFFICES Rest'
  BY <1>t DEF IInv
<1> USE DEF IInv, TypeOK, WaitGroupCounts, Runs, OnlyRefusalIsFatal,
            DoneMeansReturned, Svc, loopVars, agentVars
<1>1. CASE Start
  BY <1>1 DEF Start
<1>2. CASE Cancel
  BY <1>2 DEF Cancel
<1>3. CASE CloseDone
  BY <1>3 DEF CloseDone
<1>4. CASE Finished
  BY <1>4 DEF Finished, vars
<1>5. ASSUME NEW s \in Svc, LoopStep(s)
      PROVE  Rest'
  <2>1. CASE Accepted(s)
    BY <2>1 DEF Accepted, Succeeded
  <2>2. CASE Conflict(s)
    BY <2>2 DEF Conflict, Conflicted
  <2>3. CASE Refused(s)
    BY <2>3 DEF Refused, GaveUp
  <2>4. CASE NoSuccess(s)
    BY <2>4 DEF NoSuccess, Failed
  <2>5. CASE RenewalDue(s)
    BY <2>5 DEF RenewalDue
  <2>6. CASE RetryDue(s)
    BY <2>6 DEF RetryDue
  <2>7. CASE StopAsleep(s)
    BY <2>7 DEF StopAsleep
  <2>8. QED
    BY <1>5, <2>1, <2>2, <2>3, <2>4, <2>5, <2>6, <2>7 DEF LoopStep, Call
<1>6. ASSUME NEW s \in Svc, AgentStep(s)
      PROVE  Rest'
  BY <1>6 DEF AgentStep, LateArrival, Upset, Displaced
<1>7. CASE UNCHANGED vars
  BY <1>7 DEF vars
<1>8. QED
  BY <1>1, <1>2, <1>3, <1>4, <1>5, <1>6, <1>7 DEF Next

-----------------------------------------------------------------------------

\* The inductive invariant holds in every reachable state.
THEOREM InductiveInvariant == Spec => []IInv
  BY IInvInit, IInvStep, PTL DEF Spec

\* The registrar is type correct; its backoff never leaves its range.
THEOREM TypeCorrect == Spec => []TypeOK
<1>1. IInv => TypeOK
  BY DEF IInv
<1>2. QED
  BY <1>1, InductiveInvariant, PTL

\* REQ-REG-060/080/090: runLoop returns for a shutdown or for a 4xx other
\* than 409 of its own service, and for nothing else.
THEOREM LoopsEndForAReason == Spec => []OnlyRefusalIsFatal
<1>1. IInv => OnlyRefusalIsFatal
  BY DEF IInv
<1>2. QED
  BY <1>1, InductiveInvariant, PTL

\* REQ-REG-070/080: the wait before the next attempt is the initial backoff
\* doubled once per failure since the last success, up to the maximum.
THEOREM BackoffIsExponential == Spec => []BackoffCountsFailures
<1>1. IInv => BackoffCountsFailures
  BY DEF IInv
<1>2. QED
  BY <1>1, InductiveInvariant, PTL

\* Done's channel is closed only after both loops have returned.
THEOREM DoneIsLast == Spec => []DoneMeansReturned
<1>1. IInv => DoneMeansReturned
  BY DEF IInv
<1>2. QED
  BY <1>1, InductiveInvariant, PTL


-----------------------------------------------------------------------------
(* The process. *)

\* What each stage of the main goroutine knows.
Stages ==
    /\ main \in {"boot", "exited"} => ~started /\ ~probed
    /\ main \notin {"boot", "exited"} => serve # "off"
    /\ main = "ready" => probed
    /\ started => probed
    /\ main = "drain" => cancelled

ServerInv ==
    /\ IInv
    /\ ServerTypeOK
    /\ Stages
    /\ SuccessMeansDrained

-----------------------------------------------------------------------------

\* The process starts in a state that satisfies the inductive invariant.
LEMMA ServerInvInit == ServerInit => ServerInv
<1> SUFFICES ASSUME ServerInit
             PROVE  ServerInv
  OBVIOUS
<1>1. IInv
  BY IInvInit DEF ServerInit
<1>2. ServerTypeOK
  BY <1>1 DEF ServerInit, ServerTypeOK, IInv
<1>3. ~started
  BY DEF ServerInit, Init
<1>4. QED
  BY <1>1, <1>2, <1>3 DEF ServerInit, ServerInv, Stages, SuccessMeansDrained

\* The registrar's loops never change whether it was started or cancelled.
LEMMA LoopKeepsFlags ==
    ASSUME NEW s \in Svc, LoopStep(s) \/ AgentStep(s)
    PROVE  started' = started /\ cancelled' = cancelled
  BY DEF LoopStep, Call, Accepted, Conflict, Refused, NoSuccess, RenewalDue,
         RetryDue, StopAsleep, Succeeded, Conflicted, GaveUp, Failed, AgentStep,
         LateArrival, Upset, Displaced, loopVars

\* An exit leaves a registrar that has not been started.
LEMMA ExitResets ==
    ASSUME IInv, NEW status, Exit(status)
    PROVE  IInv' /\ ~started'
<1>1. TypeOK'
  <2>1. InitialBackoff \in InitialBackoff .. MaxBackoff /\ 0 \in 0 .. MaxFails
    BY RegistrationAssumption
  <2>2. pc' \in [Svc -> {"idle", "register", "renew", "retry", "stopped"}]
    BY DEF Exit
  <2>3. backoff' \in [Svc -> InitialBackoff .. MaxBackoff]
    BY <2>1 DEF Exit
  <2>4. fails' \in [Svc -> 0 .. MaxFails]
    BY <2>1 DEF Exit
  <2>5. late' \subseteq Svc /\ refused' \subseteq Svc
    BY DEF Exit, IInv, TypeOK
  <2>6. wg' \in 0 .. 2
    BY DEF Exit
  <2>b. started' \in BOOLEAN /\ done' \in BOOLEAN
    BY Zenon DEF Exit
  <2>7. /\ cancelled' \in BOOLEAN
        /\ holder' \in [Svc -> {"none", "us", "other"}]
        /\ upsets' \in 0 .. MaxUpsets
    BY DEF Exit, IInv, TypeOK
  <2>8. QED
    BY <2>2, <2>3, <2>4, <2>5, <2>6, <2>7, <2>b DEF TypeOK
<1>2. WaitGroupCounts'
  BY DEF Exit, WaitGroupCounts, Runs, Svc
<1>3. OnlyRefusalIsFatal' /\ DoneMeansReturned'
  BY DEF Exit, OnlyRefusalIsFatal, DoneMeansReturned
<1>4. IdleIsFresh' /\ BackoffCountsFailures'
  BY DEF Exit, IdleIsFresh, BackoffCountsFailures
<1>5. QED
  BY <1>1, <1>2, <1>3, <1>4 DEF IInv, Exit

\* An exit with success must come after a drained shutdown; any exit keeps the
\* rest of the invariant.
LEMMA ExitStep ==
    ASSUME ServerInv, NEW status \in {"success", "failure", "killed"},
           Exit(status), status = "success" => cancelled /\ ~request
    PROVE  ServerInv'
<1>1. IInv' /\ ~started'
  BY ExitResets DEF ServerInv
<1>2. ServerTypeOK'
  BY <1>1 DEF Exit, ServerTypeOK, ServerInv, IInv
<1>3. Stages'
  BY <1>1 DEF Exit, Stages
<1>4. SuccessMeansDrained'
  BY DEF Exit, SuccessMeansDrained, ServerInv, ServerTypeOK, TypeOK
<1>5. QED
  BY <1>1, <1>2, <1>3, <1>4 DEF ServerInv

\* A restarted process finds no loop that a shutdown of its predecessor ended.
LEMMA RestartStep == ServerInv /\ Restart => ServerInv'
<1> SUFFICES ASSUME ServerInv, Restart
             PROVE  ServerInv'
  OBVIOUS
<1>1. ~started /\ \A s \in Svc : pc[s] = "idle"
  BY DEF ServerInv, Stages, Restart, IInv, WaitGroupCounts
<1>2. TypeOK'
  BY DEF ServerInv, IInv, TypeOK, Restart, agentVars
<1>3. WaitGroupCounts' /\ DoneMeansReturned'
  BY DEF ServerInv, IInv, WaitGroupCounts, DoneMeansReturned, Runs, Restart
<1>b. IdleIsFresh' /\ BackoffCountsFailures'
  BY DEF ServerInv, IInv, IdleIsFresh, BackoffCountsFailures, Restart
<1>4. OnlyRefusalIsFatal'
  BY <1>1 DEF OnlyRefusalIsFatal, Restart
<1>5. ServerTypeOK'
  BY <1>2 DEF ServerInv, ServerTypeOK, Restart
<1>6. Stages' /\ SuccessMeansDrained'
  BY <1>1 DEF ServerInv, Stages, SuccessMeansDrained, Restart
<1>7. QED
  BY <1>2, <1>3, <1>4, <1>5, <1>6, <1>b DEF ServerInv, IInv

\* A step that leaves the registrar alone keeps the registrar's invariant.
LEMMA RegistrarUntouched == IInv /\ UNCHANGED vars => IInv'
  BY IInvStep

\* Every step of the process and its environment keeps the invariant.
LEMMA ServerInvStep == ServerInv /\ [ServerNext]_serverVars => ServerInv'
<1> SUFFICES ASSUME ServerInv, [ServerNext]_serverVars
             PROVE  ServerInv'
  OBVIOUS
<1> DEFINE Rest == ServerTypeOK /\ Stages /\ SuccessMeansDrained
<1>i. IInv /\ Rest
  BY DEF ServerInv
<1>1. ASSUME IInv', UNCHANGED vars,
             \/ Boot \/ ProbeAnswered \/ WindowElapsed \/ NextWindow
             \/ ProbeAbandoned \/ BeginShutdown \/ ServeFails
             \/ RequestArrives \/ RequestEnds \/ OsacSlows \/ OsacRecovers
      PROVE  ServerInv'
  <2>1. TypeOK'
    BY <1>1 DEF IInv
  <2>2. started' = started /\ cancelled' = cancelled
    BY <1>1 DEF vars
  <2>3. ServerTypeOK'
    BY <1>i, <1>1, <2>1 DEF ServerTypeOK, procVars, Boot, ProbeAnswered,
       WindowElapsed, NextWindow, ProbeAbandoned, BeginShutdown, ServeFails,
       RequestArrives, RequestEnds, OsacSlows, OsacRecovers
  <2>4. Stages' /\ SuccessMeansDrained'
    BY <1>i, <1>1, <2>2 DEF Stages, SuccessMeansDrained, procVars, Boot,
       ProbeAnswered, WindowElapsed, NextWindow, ProbeAbandoned,
       BeginShutdown, ServeFails, RequestArrives, RequestEnds, OsacSlows,
       OsacRecovers
  <2>5. QED
    BY <1>1, <2>3, <2>4 DEF ServerInv
<1>2. ASSUME \/ Boot \/ ProbeAnswered \/ WindowElapsed \/ NextWindow
             \/ ProbeAbandoned \/ BeginShutdown \/ ServeFails
             \/ RequestArrives \/ RequestEnds \/ OsacSlows \/ OsacRecovers
      PROVE  ServerInv'
  <2>1. UNCHANGED vars
    BY <1>2 DEF Boot, ProbeAnswered, WindowElapsed, NextWindow, ProbeAbandoned,
       BeginShutdown, ServeFails, RequestArrives, RequestEnds, OsacSlows,
       OsacRecovers
  <2>2. QED
    BY <1>i, <1>1, <1>2, <2>1, RegistrarUntouched
<1>3. CASE OnReady
  <2>1. IInv'
    BY <1>i, <1>3, IInvStep DEF OnReady, Next
  <2>2. ServerTypeOK'
    BY <1>i, <1>3, <2>1 DEF OnReady, ServerTypeOK, IInv
  <2>3. started' /\ cancelled' = cancelled
    BY <1>3 DEF OnReady, Start
  <2>4. Stages' /\ SuccessMeansDrained'
    BY <1>i, <1>3, <2>3 DEF OnReady, Stages, SuccessMeansDrained
  <2>5. QED
    BY <2>1, <2>2, <2>4 DEF ServerInv
<1>4. CASE BootFails \/ ServeErrorTaken \/ Killed \/ DrainTimesOut
  BY <1>4, ExitStep DEF BootFails, ServeErrorTaken, Killed, DrainTimesOut
<1>5. CASE Drained
  BY <1>i, <1>5, ExitStep DEF Drained, Stages
<1>6. CASE Restart
  BY <1>6, RestartStep
<1>7. CASE Signal
  <2>1. IInv'
    BY <1>i, <1>7, IInvStep DEF Signal, Next
  <2>2. ServerTypeOK'
    BY <1>i, <1>7, <2>1 DEF Signal, ServerTypeOK, procVars, IInv
  <2>3. started' = started /\ cancelled'
    BY <1>7 DEF Signal, Cancel
  <2>4. Stages' /\ SuccessMeansDrained'
    BY <1>i, <1>7, <2>3 DEF Signal, Stages, SuccessMeansDrained, procVars
  <2>5. QED
    BY <2>1, <2>2, <2>4 DEF ServerInv
<1>8. ASSUME [Next]_vars, started' = started, cancelled' = cancelled,
             UNCHANGED <<procVars, slow>>
      PROVE  ServerInv'
  <2>1. IInv'
    BY <1>i, <1>8, IInvStep
  <2>2. ServerTypeOK'
    BY <1>i, <1>8, <2>1 DEF ServerTypeOK, procVars, IInv
  <2>3. Stages' /\ SuccessMeansDrained'
    BY <1>i, <1>8 DEF Stages, SuccessMeansDrained, procVars
  <2>4. QED
    BY <2>1, <2>2, <2>3 DEF ServerInv
<1>9. CASE RegistrarDone
  <2>1. Next /\ started' = started /\ cancelled' = cancelled
    BY <1>9 DEF RegistrarDone, CloseDone, Next
  <2>2. QED
    BY <1>8, <1>9, <2>1 DEF RegistrarDone
<1>10. ASSUME NEW s \in Svc, RegistrarStep(s) \/ Agent(s)
       PROVE  ServerInv'
  <2>1. LoopStep(s) \/ AgentStep(s)
    BY <1>10 DEF RegistrarStep, Agent
  <2>2. Next
    BY <2>1 DEF Next
  <2>3. started' = started /\ cancelled' = cancelled
    BY <2>1, LoopKeepsFlags
  <2>4. QED
    BY <1>8, <1>10, <2>2, <2>3 DEF RegistrarStep, Agent
<1>11. CASE UNCHANGED serverVars
  BY <1>8, <1>11 DEF serverVars, vars
<1>12. QED
  BY <1>2, <1>3, <1>4, <1>5, <1>6, <1>7, <1>9, <1>10, <1>11
     DEF ServerNext, Run

-----------------------------------------------------------------------------

\* The inductive invariant holds in every reachable state of the process.
THEOREM ServerInductive == ServerSpec => []ServerInv
  BY ServerInvInit, ServerInvStep, PTL DEF ServerSpec

\* The process is type correct, through any number of crashes and restarts.
THEOREM ServerTypeCorrect == ServerSpec => []ServerTypeOK
<1>1. ServerInv => ServerTypeOK
  BY DEF ServerInv
<1>2. QED
  BY <1>1, ServerInductive, PTL

\* REQ-REG-050: Registrar.Start is called only after the server has answered
\* its own health request, in every life of the process.
THEOREM RegistrationWaitsForReadiness == ServerSpec => []RegistersOnlyWhenReady
<1>1. ServerInv => RegistersOnlyWhenReady
  BY DEF ServerInv, Stages, RegistersOnlyWhenReady
<1>2. QED
  BY <1>1, ServerInductive, PTL

\* REQ-REG-060/080/090: in the running process too, a registration loop ends
\* only for a shutdown of this life or a refusal of its own service.
THEOREM ServerLoopsEndForAReason == ServerSpec => []OnlyRefusalIsFatal
<1>1. ServerInv => OnlyRefusalIsFatal
  BY DEF ServerInv, IInv
<1>2. QED
  BY <1>1, ServerInductive, PTL

\* REQ-REG-070/080: so is its backoff exponential, and a restart begins anew.
THEOREM ServerBackoffIsExponential == ServerSpec => []BackoffCountsFailures
<1>1. ServerInv => BackoffCountsFailures
  BY DEF ServerInv, IInv
<1>2. QED
  BY <1>1, ServerInductive, PTL

\* REQ-HTTP-030/040: exit status 0 means a requested shutdown that cut off no
\* request.
THEOREM SuccessIsDrained == ServerSpec => []SuccessMeansDrained
<1>1. ServerInv => SuccessMeansDrained
  BY DEF ServerInv
<1>2. QED
  BY <1>1, ServerInductive, PTL

==============================================================================
