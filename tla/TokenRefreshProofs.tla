-------------------------- MODULE TokenRefreshProofs --------------------------
(***************************************************************************)
(* For every margin, reuse delta, token life, backoff range and timeout:   *)
(* the refresh loop is type correct and never sleeps through the expiry of *)
(* the token it published, its backoff is the initial one doubled once per *)
(* failure since the last success, and a health check never answers        *)
(* "healthy" later than its probe's timeout after the token was valid.     *)
(***************************************************************************)
EXTENDS TokenRefresh, RecursionProofs

\* The sleep leaves the margin, and a token is worth more than oauth2's delta
\* when it is published: so one late wake-up does not reach the expiry.
SleepLeavesMargin ==
    /\ pc = "set" => source > ReuseDelta
    /\ pc = "wait" =>
        /\ token > 0
        /\ timer > 0 => token >= timer + RefreshMargin
        /\ timer = 0 /\ noticed => token > 1

\* The age of what a health check has read is what its probe has used up.
CheckIsFresh ==
    /\ have /\ token > 0 => expired = 0
    /\ check = "valid" => have /\ expired + left =< ProbeTimeout

TokenInv ==
    /\ TypeOK
    /\ SleepLeavesMargin
    /\ CheckIsFresh
    /\ BackoffCountsFailures

-----------------------------------------------------------------------------

\* Doubling and capping stays within the range of the backoff.
LEMMA BackoffBounds ==
    ASSUME NEW b \in InitialBackoff .. MaxBackoff
    PROVE  NextBackoff(b) \in InitialBackoff .. MaxBackoff
  BY TokenAssumption DEF NextBackoff

\* The backoff's steps, for the loop's constants.
LEMMA BackoffPace ==
    ASSUME NEW n \in 0 .. FailCap
    PROVE  /\ Pace(InitialBackoff, MaxBackoff, 0) = InitialBackoff
           /\ n > 0 => NextBackoff(Pace(InitialBackoff, MaxBackoff, n - 1))
                        = Pace(InitialBackoff, MaxBackoff, n)
           /\ Pace(InitialBackoff, MaxBackoff, FailCap)
                = Pace(InitialBackoff, MaxBackoff, FailCap - 1)
<1>1. Pace(InitialBackoff, MaxBackoff, 0) = InitialBackoff
  BY PaceSteps, TokenAssumption
<1>2. ASSUME n > 0
      PROVE  NextBackoff(Pace(InitialBackoff, MaxBackoff, n - 1))
               = Pace(InitialBackoff, MaxBackoff, n)
  <2>1. n - 1 \in Nat /\ (n - 1) + 1 = n
    BY <1>2, TokenAssumption DEF FailCap
  <2>2. Pace(InitialBackoff, MaxBackoff, (n - 1) + 1) =
            IF 2 * Pace(InitialBackoff, MaxBackoff, n - 1) > MaxBackoff
            THEN MaxBackoff ELSE 2 * Pace(InitialBackoff, MaxBackoff, n - 1)
    BY <2>1, PaceSteps, TokenAssumption
  <2>3. QED
    BY <2>1, <2>2 DEF NextBackoff
<1>3. /\ Pace(InitialBackoff, MaxBackoff, FailCap) = MaxBackoff
      /\ Pace(InitialBackoff, MaxBackoff, FailCap - 1) = MaxBackoff
  <2>1. /\ FailCap \in Nat /\ FailCap + 1 >= MaxBackoff
        /\ FailCap - 1 \in Nat /\ (FailCap - 1) + 1 >= MaxBackoff
    BY TokenAssumption DEF FailCap
  <2>2. QED
    BY <2>1, PaceSteps, TokenAssumption
<1>4. QED
  BY <1>1, <1>2, <1>3

\* What is left of a natural number after a tick is a natural number.
LEMMA LessIsNat ==
    ASSUME NEW n \in Nat
    PROVE  /\ Less(n) \in Nat
           /\ Less(n) =< n
           /\ n > 0 => Less(n) = n - 1
           /\ n = 0 => Less(n) = 0
  BY DEF Less

\* The loop and the health checks start in the inductive invariant.
LEMMA TokenInit == Init => TokenInv
<1> SUFFICES ASSUME Init
             PROVE  TokenInv
  OBVIOUS
<1> USE TokenAssumption DEF Init
<1>1. pc \in Asleep \cup Documents \cup {"token", "request", "set", "stopped"}
  BY DEF Asleep, Documents
<1>2. /\ source \in Nat /\ token \in Nat /\ timer \in Nat
      /\ backoff \in InitialBackoff .. MaxBackoff
      /\ fails \in 0 .. FailCap
      /\ left \in 0 .. ProbeTimeout
      /\ expired \in 0 .. ProbeTimeout + 1
  BY DEF FailCap
<1>3. /\ inner \in BOOLEAN /\ have \in BOOLEAN
      /\ noticed \in BOOLEAN /\ cancelled \in BOOLEAN
  BY Zenon
<1>4. check \in Probing \cup {"none", "healthy", "unhealthy"}
  BY DEF Probing
<1>5. TypeOK
  BY <1>1, <1>2, <1>3, <1>4 DEF TypeOK
<1>6. SleepLeavesMargin /\ CheckIsFresh
  BY DEF SleepLeavesMargin, CheckIsFresh
<1>7. BackoffCountsFailures
  <2>1. 0 \in 0 .. FailCap
    BY DEF FailCap
  <2>2. QED
    BY <2>1, BackoffPace DEF BackoffCountsFailures
<1>8. QED
  BY <1>5, <1>6, <1>7 DEF TokenInv

\* Every step of the loop keeps the types.
LEMMA TypeStep == TokenInv /\ [Next]_vars => TypeOK'
<1> SUFFICES ASSUME TokenInv, [Next]_vars
             PROVE  TypeOK'
  OBVIOUS
<1> TypeOK
  BY DEF TokenInv
<1> USE TokenAssumption DEF TypeOK, Asleep, Documents, Probing, FailCap,
        tokenVars, healthVars, loopVars
<1>1. CASE Token
  BY <1>1 DEF Token
<1>2. CASE Discovered
  BY <1>2 DEF Discovered
<1>3. CASE FirstDocumentMissing
  BY <1>3 DEF FirstDocumentMissing
<1>4. CASE FailAndSleep
  BY <1>4 DEF FailAndSleep
<1>5. CASE Granted
  BY <1>5 DEF Granted
<1>6. CASE setToken
  <2>1. RefreshWait(source) \in Nat
    BY DEF RefreshWait
  <2>2. QED
    BY <1>6, <2>1 DEF setToken
<1>7. CASE RefreshDue
  BY <1>7 DEF RefreshDue
<1>8. CASE RetryDue
  <2>1. NextBackoff(backoff) \in InitialBackoff .. MaxBackoff
    BY BackoffBounds
  <2>2. QED
    BY <1>8, <2>1 DEF RetryDue
<1>9. CASE StopAsleep
  BY <1>9 DEF StopAsleep
<1>10. CASE TokenStatus
  BY <1>10 DEF TokenStatus
<1>11. CASE Probed
  BY <1>11 DEF Probed
<1>12. CASE Cancel
  BY <1>12 DEF Cancel
<1>13. CASE Tick
  <2>1. /\ source' \in Nat /\ token' \in Nat
        /\ timer' \in Nat /\ timer' =< timer
        /\ left' \in 0 .. ProbeTimeout
    BY <1>13, LessIsNat DEF Tick
  <2>2. expired' \in 0 .. ProbeTimeout + 1
    BY <1>13 DEF Tick
  <2>3. noticed' \in BOOLEAN
    BY <1>13, Zenon DEF Tick
  <2>4. /\ pc' = pc /\ inner' = inner /\ have' = have /\ backoff' = backoff
        /\ fails' = fails /\ check' = check /\ cancelled' = cancelled
    BY <1>13 DEF Tick
  <2>5. QED
    BY <2>1, <2>2, <2>3, <2>4
<1>14. CASE UNCHANGED vars
  BY <1>14 DEF vars
<1>15. QED
  BY <1>1, <1>2, <1>3, <1>4, <1>5, <1>6, <1>7, <1>8, <1>9, <1>10, <1>11,
     <1>12, <1>13, <1>14 DEF Next, Loop, Discovery, DiscoveryFails, Denied

\* Every step keeps the margin: only setToken begins the sleep, and only a
\* tick that the sleep has room for shortens the token's life in it.
LEMMA MarginStep == TokenInv /\ [Next]_vars => SleepLeavesMargin'
<1> SUFFICES ASSUME TokenInv, [Next]_vars
             PROVE  SleepLeavesMargin'
  OBVIOUS
<1> TypeOK /\ SleepLeavesMargin
  BY DEF TokenInv
<1> USE TokenAssumption DEF TypeOK, SleepLeavesMargin, tokenVars, loopVars
<1>1. CASE Token
  BY <1>1 DEF Token
<1>2. CASE Discovered \/ FirstDocumentMissing \/ FailAndSleep \/ RefreshDue
           \/ RetryDue \/ StopAsleep
  BY <1>2 DEF Discovered, FirstDocumentMissing, FailAndSleep, RefreshDue,
     RetryDue, StopAsleep
<1>3. CASE Granted
  BY <1>3 DEF Granted
<1>4. CASE setToken
  BY <1>4 DEF setToken, RefreshWait
<1>5. CASE TokenStatus \/ Probed \/ Cancel
  BY <1>5 DEF TokenStatus, Probed, Cancel
<1>6. CASE Tick
  <2>1. CASE pc = "wait"
    <3>1. token > 0 /\ token' = token - 1 /\ noticed' = FALSE /\ pc' = pc
      BY <1>6, <2>1, LessIsNat DEF Tick
    <3>2. CASE timer > 0
      <4>1. timer' = timer - 1
        BY <1>6, <3>2, LessIsNat DEF Tick
      <4>2. QED
        BY <2>1, <3>1, <3>2, <4>1
    <3>3. CASE timer = 0
      <4>1. noticed /\ timer' = 0
        BY <1>6, <2>1, <3>3, LessIsNat DEF Tick, Asleep
      <4>2. QED
        BY <2>1, <3>1, <3>3, <4>1
    <3>4. QED
      BY <3>2, <3>3
  <2>2. CASE pc # "wait"
    BY <1>6, <2>2 DEF Tick, Asleep, Documents
  <2>3. QED
    BY <2>1, <2>2
<1>7. CASE UNCHANGED vars
  BY <1>7 DEF vars
<1>8. QED
  BY <1>1, <1>2, <1>3, <1>4, <1>5, <1>6, <1>7
     DEF Next, Loop, Discovery, DiscoveryFails, Denied

\* Every step keeps a running health check fresh: a tick that ages the token
\* uses up as much of the probe's time.
LEMMA FreshStep == TokenInv /\ [Next]_vars => CheckIsFresh'
<1> SUFFICES ASSUME TokenInv, [Next]_vars
             PROVE  CheckIsFresh'
  OBVIOUS
<1> TypeOK /\ SleepLeavesMargin /\ CheckIsFresh
  BY DEF TokenInv
<1> USE TokenAssumption DEF TypeOK, CheckIsFresh, tokenVars, healthVars, loopVars
<1>1. CASE Token \/ Discovered \/ FirstDocumentMissing \/ FailAndSleep
           \/ Granted \/ RefreshDue \/ RetryDue \/ StopAsleep \/ Cancel
  BY <1>1 DEF Token, Discovered, FirstDocumentMissing, FailAndSleep, Granted,
     RefreshDue, RetryDue, StopAsleep, Cancel
<1>2. CASE setToken
  <2>1. source > 0 /\ expired' = 0 /\ have' = TRUE
    BY <1>2 DEF setToken, SleepLeavesMargin
  <2>2. QED
    BY <1>2, <2>1 DEF setToken
<1>3. CASE TokenStatus
  BY <1>3 DEF TokenStatus
<1>4. CASE Probed
  BY <1>4 DEF Probed, Probing
<1>5. CASE Tick
  <2>1. have /\ token' > 0 => expired' = 0
    BY <1>5, LessIsNat DEF Tick
  <2>2. check = "valid" => left > 0 /\ left' = left - 1 /\ expired' =< expired + 1
    BY <1>5, LessIsNat DEF Tick, Probing
  <2>3. have' = have /\ check' = check
    BY <1>5 DEF Tick
  <2>4. expired' \in Int
    BY <1>5 DEF Tick
  <2>5. QED
    BY <2>1, <2>2, <2>3, <2>4
<1>6. CASE UNCHANGED vars
  BY <1>6 DEF vars
<1>7. QED
  BY <1>1, <1>2, <1>3, <1>4, <1>5, <1>6
     DEF Next, Loop, Discovery, DiscoveryFails, Denied

\* Every step keeps the backoff at the pace of the failures: whichever call
\* failed is counted before the backoff is doubled.
LEMMA PaceStep == TokenInv /\ [Next]_vars => BackoffCountsFailures'
<1> SUFFICES ASSUME TokenInv, [Next]_vars
             PROVE  BackoffCountsFailures'
  OBVIOUS
<1>i. TypeOK /\ BackoffCountsFailures
  BY DEF TokenInv
<1>0. /\ fails \in 0 .. FailCap /\ FailCap \in Nat \ {0}
      /\ Pace(InitialBackoff, MaxBackoff, 0) = InitialBackoff
      /\ fails > 0 => NextBackoff(Pace(InitialBackoff, MaxBackoff, fails - 1))
                        = Pace(InitialBackoff, MaxBackoff, fails)
      /\ Pace(InitialBackoff, MaxBackoff, FailCap)
            = Pace(InitialBackoff, MaxBackoff, FailCap - 1)
  BY <1>i, TokenAssumption, BackoffPace DEF TypeOK, FailCap
<1> USE <1>i DEF BackoffCountsFailures
<1>1. ASSUME UNCHANGED <<backoff, fails>>,
             \/ pc' = pc \/ pc' = "stopped"
             \/ pc \notin {"backoff", "stopped"} /\ pc' # "backoff"
      PROVE  BackoffCountsFailures'
  BY <1>1
<1>2. ASSUME FailAndSleep, pc \notin {"backoff", "stopped"}
      PROVE  BackoffCountsFailures'
  <2>1. /\ pc' = "backoff" /\ backoff' = backoff
        /\ fails' = IF fails < FailCap THEN fails + 1 ELSE FailCap
    BY <1>2 DEF FailAndSleep
  <2>2. fails' > 0 /\ backoff = Pace(InitialBackoff, MaxBackoff, fails' - 1)
    <3>1. CASE fails < FailCap
      <4>1. fails' = fails + 1 /\ fails' - 1 = fails
        BY <1>0, <2>1, <3>1
      <4>2. QED
        BY <1>0, <1>2, <4>1
    <3>2. CASE ~(fails < FailCap)
      <4>1. fails = FailCap /\ fails' = FailCap
        BY <1>0, <2>1, <3>2
      <4>2. QED
        BY <1>0, <1>2, <4>1
    <3>3. QED
      BY <3>1, <3>2
  <2>3. QED
    BY <2>1, <2>2
<1>3. CASE Token
  <2>1. pc' \in {"oauth-authorization-server", "set", "request"}
    <3>1. inner \in BOOLEAN /\ (source > ReuseDelta \/ source =< ReuseDelta)
      BY TokenAssumption DEF TypeOK
    <3>2. QED
      BY <1>3, <3>1 DEF Token
  <2>2. QED
    BY <1>1, <1>3, <2>1 DEF Token
<1>4. CASE Discovered \/ FirstDocumentMissing \/ Granted
  BY <1>1, <1>4 DEF Discovered, FirstDocumentMissing, Granted, Documents
<1>5. CASE Denied \/ DiscoveryFails
  BY <1>2, <1>5 DEF Denied, DiscoveryFails, Documents
<1>6. CASE setToken
  BY <1>0, <1>6 DEF setToken
<1>7. CASE RefreshDue \/ StopAsleep
  BY <1>1, <1>7 DEF RefreshDue, StopAsleep
<1>8. CASE RetryDue
  BY <1>0, <1>8 DEF RetryDue
<1>9. CASE TokenStatus \/ Probed \/ Cancel \/ Tick \/ UNCHANGED vars
  BY <1>1, <1>9 DEF TokenStatus, Probed, Cancel, Tick, vars, loopVars
<1>10. QED
  BY <1>3, <1>4, <1>5, <1>6, <1>7, <1>8, <1>9 DEF Next, Loop, Discovery

-----------------------------------------------------------------------------

\* The inductive invariant holds in every reachable state.
THEOREM TokenInductive == Spec => []TokenInv
<1>1. TokenInv /\ [Next]_vars => TokenInv'
  BY TypeStep, MarginStep, FreshStep, PaceStep DEF TokenInv
<1>2. QED
  BY <1>1, TokenInit, PTL DEF Spec

\* The loop is type correct; its backoff and its sleeps never leave their
\* range.
THEOREM TypeCorrect == Spec => []TypeOK
<1>1. TokenInv => TypeOK
  BY DEF TokenInv
<1>2. QED
  BY <1>1, TokenInductive, PTL

\* REQ-OSAC-020: refreshLoop never sleeps through the expiry of the token it
\* published last.
THEOREM NoSleepThroughExpiry == Spec => []ExpiredMeansTrying
<1>1. TokenInv => ExpiredMeansTrying
  BY DEF TokenInv, SleepLeavesMargin, ExpiredMeansTrying, TypeOK
<1>2. QED
  BY <1>1, TokenInductive, PTL

\* REQ-OSAC-060: the wait before the next attempt is the initial backoff
\* doubled once per failure since the last success, up to the maximum.
THEOREM BackoffIsExponential == Spec => []BackoffCountsFailures
<1>1. TokenInv => BackoffCountsFailures
  BY DEF TokenInv
<1>2. QED
  BY <1>1, TokenInductive, PTL

\* REQ-HLT-030/060: checkHealth answers "healthy" no later than ProbeTimeout
\* after the token was valid.
THEOREM HealthIsRecent == Spec => HealthyIsRecent
<1>1. TokenInv /\ [Next]_vars =>
        [(check \in Probing /\ check' = "healthy") => have /\ expired =< ProbeTimeout]_vars
  <2> SUFFICES ASSUME TokenInv, [Next]_vars, check \in Probing, check' = "healthy"
               PROVE  have /\ expired =< ProbeTimeout
    BY Zenon
  <2>1. Probed
    BY DEF Next, Loop, Discovery, Token, Discovered, FirstDocumentMissing,
       DiscoveryFails, FailAndSleep, Granted, Denied, setToken, RefreshDue,
       RetryDue, StopAsleep, TokenStatus, Cancel, Tick, healthVars, vars, Probing
  <2>2. check = "valid"
    BY <2>1 DEF Probed
  <2>3. have
    BY <2>2 DEF TokenInv, CheckIsFresh
  <2>4. expired + left =< ProbeTimeout
    BY <2>2 DEF TokenInv, CheckIsFresh
  <2>5. expired \in Nat /\ left \in Nat /\ ProbeTimeout \in Nat
    BY TokenAssumption DEF TokenInv, TypeOK
  <2>6. expired =< ProbeTimeout
    BY <2>4, <2>5
  <2>7. QED
    BY <2>3, <2>6
<1>2. QED
  BY <1>1, TokenInductive, PTL DEF Spec, HealthyIsRecent

===============================================================================
