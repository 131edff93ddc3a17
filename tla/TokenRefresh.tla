---------------------------- MODULE TokenRefresh ----------------------------
(***************************************************************************)
(* The OIDC token refresh loop of internal/osac: Bootstrap.refreshLoop     *)
(* asks its token source for a token, publishes it for the per-RPC         *)
(* credentials and for TokenStatus, and sleeps until shortly before it     *)
(* expires; a failure is retried with exponential backoff. The source      *)
(* first discovers the token endpoint (two well-known documents under one  *)
(* shared deadline), then delegates to golang.org/x/oauth2, whose          *)
(* ReuseTokenSource (external) returns its cached token as long as more    *)
(* than ReuseDelta of its life is left.                                    *)
(*                                                                         *)
(* The health endpoints read what the loop publishes: checkHealth looks at *)
(* the token first and then probes OSAC, which takes up to ProbeTimeout.   *)
(*                                                                         *)
(* Time is counted in ticks; a token is the life it has left. Local steps  *)
(* of the loop take no time, network calls take any, and a timer that has  *)
(* run out is noticed within a tick.                                       *)
(***************************************************************************)
EXTENDS Backoff

CONSTANTS
    RefreshMargin,              \* refreshMargin
    ReuseDelta,                 \* oauth2's expiry delta (10 s)
    Lifetimes,                  \* lives the identity provider grants
    DiscoveryTimeout,           \* oidcDiscoveryTimeout, for both documents
    ProbeTimeout,               \* cfg.ProbeTimeout
    InitialBackoff, MaxBackoff  \* Bootstrap.initialBackoff / maxBackoff

ASSUME TokenAssumption ==
    /\ RefreshMargin \in Nat
    /\ ReuseDelta \in Nat \ {0}
    /\ ReuseDelta =< RefreshMargin
    /\ Lifetimes \subseteq Nat
    /\ \A l \in Lifetimes : l > ReuseDelta
    /\ DiscoveryTimeout \in Nat \ {0}
    /\ ProbeTimeout \in Nat \ {0}
    /\ InitialBackoff \in Nat \ {0}
    /\ MaxBackoff \in Nat
    /\ InitialBackoff =< MaxBackoff

VARIABLES
    pc,         \* where refreshLoop is
    inner,      \* discoveringTokenSource.inner is set
    source,     \* external: life left of the token ReuseTokenSource caches
    have,       \* Bootstrap.haveToken
    token,      \* life left of Bootstrap.token (until expiresAt)
    backoff,    \* refreshLoop's local backoff
    timer,      \* what is left of the loop's sleep or the discovery's time
    noticed,    \* the loop has run since the last tick
    cancelled,  \* ctx is cancelled
    fails,      \* history: failures since the last success, up to FailCap
    check,      \* checkHealth: the token status it has read, or its answer
    left,       \* what is left of the probe's time
    expired     \* history: ticks since the token was valid, up to a cap

tokenVars == <<inner, source, have, token>>
loopVars == <<pc, inner, source, have, token, backoff, timer, noticed, fails>>
healthVars == <<check, left, expired>>
vars == <<loopVars, healthVars, cancelled>>

Asleep == {"wait", "backoff"}
Documents == {"oauth-authorization-server", "openid-configuration"}
Probing == {"valid", "invalid"}
FailCap == MaxBackoff

Init ==
    /\ pc = "token"
    /\ inner = FALSE
    /\ source = 0
    /\ have = FALSE
    /\ token = 0
    /\ backoff = InitialBackoff
    /\ timer = 0
    /\ noticed = TRUE
    /\ cancelled = FALSE
    /\ fails = 0
    /\ check = "none"
    /\ left = 0
    /\ expired = ProbeTimeout + 1

-----------------------------------------------------------------------------
(* discoveringTokenSource.Token *)

\* The first call discovers; a later one asks ReuseTokenSource, which answers
\* from its cache unless the cached token is about to expire.
Token ==
    /\ pc = "token"
    /\ pc' = CASE ~inner -> "oauth-authorization-server"
               [] inner /\ source > ReuseDelta -> "set"
               [] inner /\ source =< ReuseDelta -> "request"
    /\ timer' = IF inner THEN timer ELSE DiscoveryTimeout
    /\ noticed' = TRUE
    /\ UNCHANGED <<tokenVars, backoff, fails, healthVars, cancelled>>

\* refreshLoop on an error: sleep the backoff.
FailAndSleep ==
    /\ pc' = "backoff"
    /\ timer' = backoff
    /\ fails' = IF fails < FailCap THEN fails + 1 ELSE FailCap
    /\ noticed' = TRUE
    /\ UNCHANGED <<tokenVars, backoff, healthVars, cancelled>>

\* refreshLoop on an error from the token request.
Denied ==
    /\ pc = "request"
    /\ FailAndSleep

\* A well-known document names the token endpoint: it is kept for good.
Discovered ==
    /\ pc \in Documents
    /\ timer > 0
    /\ inner' = TRUE
    /\ pc' = "request"
    /\ noticed' = TRUE
    /\ UNCHANGED <<source, have, token, backoff, timer, fails, healthVars, cancelled>>

\* Mutation: the fallback is never asked.
NoFallback ==
    /\ pc = "oauth-authorization-server"
    /\ FailAndSleep

\* The RFC 8414 document is missing or unusable: the fallback is next.
FirstDocumentMissing ==
    /\ pc = "oauth-authorization-server"
    /\ timer > 0
    /\ pc' = "openid-configuration"
    /\ noticed' = TRUE
    /\ UNCHANGED <<tokenVars, backoff, timer, fails, healthVars, cancelled>>

\* Neither document was usable, or the deadline that both share has passed:
\* if the first was still awaited then, the second fails at once.
DiscoveryFails ==
    /\ pc \in Documents
    /\ timer = 0 \/ pc = "openid-configuration"
    /\ FailAndSleep

\* The identity provider grants a token, which ReuseTokenSource caches.
Granted ==
    /\ pc = "request"
    /\ source' \in Lifetimes
    /\ pc' = "set"
    /\ noticed' = TRUE
    /\ UNCHANGED <<inner, have, token, backoff, timer, fails, healthVars, cancelled>>

-----------------------------------------------------------------------------
(* refreshLoop *)

\* Mutation: the loop sleeps until the token has expired.
WaitUntilExpiry(life) == life

RefreshWait(life) == IF life > RefreshMargin THEN life - RefreshMargin ELSE 0

\* Mutation: a success leaves the backoff as it is.
SetTokenKeepBackoff ==
    /\ pc = "set"
    /\ have' = TRUE
    /\ token' = source
    /\ expired' = IF source > 0 THEN 0 ELSE expired
    /\ fails' = 0
    /\ timer' = RefreshWait(source)
    /\ pc' = "wait"
    /\ noticed' = TRUE
    /\ UNCHANGED <<inner, source, backoff, check, left, cancelled>>

\* setToken, the reset of the backoff and the computation of the sleep.
setToken ==
    /\ pc = "set"
    /\ have' = TRUE
    /\ token' = source
    /\ expired' = IF source > 0 THEN 0 ELSE expired
    /\ backoff' = InitialBackoff
    /\ fails' = 0
    /\ timer' = RefreshWait(source)
    /\ pc' = "wait"
    /\ noticed' = TRUE
    /\ UNCHANGED <<inner, source, check, left, cancelled>>

\* sleepOrDone returns true after a success.
RefreshDue ==
    /\ pc = "wait"
    /\ timer = 0
    /\ pc' = "token"
    /\ noticed' = TRUE
    /\ UNCHANGED <<tokenVars, backoff, timer, fails, healthVars, cancelled>>

\* Mutation: the doubled backoff is not capped.
UncappedBackoff(b) == 2 * b

NextBackoff(b) == IF 2 * b > MaxBackoff THEN MaxBackoff ELSE 2 * b

\* sleepOrDone returns true after a failure; the backoff is doubled.
RetryDue ==
    /\ pc = "backoff"
    /\ timer = 0
    /\ pc' = "token"
    /\ backoff' = NextBackoff(backoff)
    /\ noticed' = TRUE
    /\ UNCHANGED <<tokenVars, timer, fails, healthVars, cancelled>>

\* Mutation: the sleep after a success ignores ctx.
StopInBackoff ==
    /\ cancelled
    /\ pc = "backoff"
    /\ pc' = "stopped"
    /\ UNCHANGED <<tokenVars, backoff, timer, noticed, fails, healthVars, cancelled>>

\* sleepOrDone returns false. Token() itself does not look at ctx.
StopAsleep ==
    /\ cancelled
    /\ pc \in Asleep
    /\ pc' = "stopped"
    /\ UNCHANGED <<tokenVars, backoff, timer, noticed, fails, healthVars, cancelled>>

-----------------------------------------------------------------------------
(* checkHealth *)

\* Mutation: the probe has only the deadline of the HTTP request.
ProbeWithoutTimeout ==
    /\ check \notin Probing
    /\ check' = IF have /\ token > 0 THEN "valid" ELSE "invalid"
    /\ left' = 6 * ProbeTimeout
    /\ UNCHANGED <<loopVars, expired, cancelled>>

\* TokenStatus is read, and the probe begins.
TokenStatus ==
    /\ check \notin Probing
    /\ check' = IF have /\ token > 0 THEN "valid" ELSE "invalid"
    /\ left' = ProbeTimeout
    /\ UNCHANGED <<loopVars, expired, cancelled>>

\* The probe has succeeded, or has failed or run out of time, and the token
\* status read before it completes the answer.
Probed ==
    /\ check \in Probing
    /\ \/ left > 0 /\ check' = IF check = "valid" THEN "healthy" ELSE "unhealthy"
       \/ check' = "unhealthy"
    /\ left' = 0
    /\ UNCHANGED <<loopVars, expired, cancelled>>

-----------------------------------------------------------------------------
(* The environment *)

Cancel ==
    /\ ~cancelled
    /\ cancelled' = TRUE
    /\ UNCHANGED <<loopVars, healthVars>>

Less(n) == IF n > 0 THEN n - 1 ELSE 0

\* Time passes during calls and sleeps; a timer or a deadline that ran out
\* before this tick has been noticed first.
Tick ==
    /\ pc \in Asleep \cup Documents \cup {"request", "stopped"}
    /\ pc \in Asleep \cup Documents /\ timer = 0 => noticed
    /\ check \in Probing => left > 0
    /\ source' = Less(source)
    /\ token' = Less(token)
    /\ expired' = IF have /\ token > 1 THEN 0
                  ELSE IF expired =< ProbeTimeout THEN expired + 1 ELSE expired
    /\ timer' = Less(timer)
    /\ left' = Less(left)
    /\ noticed' = FALSE
    /\ UNCHANGED <<pc, inner, have, backoff, fails, check, cancelled>>

-----------------------------------------------------------------------------

Discovery == Discovered \/ FirstDocumentMissing \/ DiscoveryFails

Loop ==
    \/ Token \/ Discovery \/ Granted \/ Denied
    \/ setToken \/ RefreshDue \/ RetryDue \/ StopAsleep

Next == Loop \/ TokenStatus \/ Probed \/ Cancel \/ Tick

Spec == Init /\ [][Next]_vars

\* The loop's goroutine is scheduled, and every wait of it that the code
\* bounds ends (WF); the token request is not bounded, so that it ends, and
\* again and again with a token, is an assumption about the identity provider
\* (SF); so is that its fallback document is served again and again (SF). Time
\* passes even while the loop does not pause (SF), a health check ends (WF),
\* and select does not for ever prefer an expired timer to a cancelled ctx
\* (SF).
Fairness ==
    /\ WF_vars(Loop /\ pc # "request")
    /\ WF_vars(Probed)
    /\ SF_vars(Tick)
    /\ SF_vars(StopAsleep)
    /\ SF_vars(FirstDocumentMissing)
    /\ SF_vars(pc = "openid-configuration" /\ Discovered)
    /\ SF_vars(Granted)

FairSpec == Spec /\ Fairness

-----------------------------------------------------------------------------

\* Every variable has its type; the backoff and the sleeps derived from it
\* stay within the configured maximum.
TypeOK ==
    /\ pc \in Asleep \cup Documents \cup {"token", "request", "set", "stopped"}
    /\ inner \in BOOLEAN
    /\ source \in Nat
    /\ have \in BOOLEAN
    /\ token \in Nat
    /\ backoff \in InitialBackoff .. MaxBackoff
    /\ timer \in Nat
    /\ pc = "backoff" => timer =< MaxBackoff
    /\ noticed \in BOOLEAN
    /\ cancelled \in BOOLEAN
    /\ fails \in 0 .. FailCap
    /\ check \in Probing \cup {"none", "healthy", "unhealthy"}
    /\ left \in 0 .. ProbeTimeout
    /\ expired \in 0 .. ProbeTimeout + 1

\* REQ-OSAC-020: an expired token is served only while a replacement is being
\* asked for or a failure is being backed off from; the loop never sleeps
\* through the expiry of the token it published last.
ExpiredMeansTrying == have /\ token = 0 => pc # "wait"

\* REQ-OSAC-060: the backoff doubles with every failure since the last
\* success, discovery and token request alike, up to the maximum, and starts
\* over after a success, whatever failures preceded it.
BackoffCountsFailures ==
    /\ pc = "backoff" =>
        fails > 0 /\ backoff = Pace(InitialBackoff, MaxBackoff, fails - 1)
    /\ pc \notin {"backoff", "stopped"} =>
        backoff = Pace(InitialBackoff, MaxBackoff, fails)

\* REQ-HLT-030/060: the token may expire while OSAC is probed, but a check
\* that answers "healthy" does so no later than ProbeTimeout after it was
\* valid, whatever the refresh loop does meanwhile.
HealthyIsRecent ==
    [][(check \in Probing /\ check' = "healthy") => have /\ expired =< ProbeTimeout]_vars

\* REQ-OSAC-011/060: until a shutdown, an identity provider that serves only
\* the fallback document, again and again in time, and grants tokens again and
\* again, is enough for a valid token, after a discovery whose first document
\* hung until the shared deadline, a failed request or an expiry in between.
TokenRecovers == ~(have /\ token > 0) ~> (have /\ token > 0) \/ cancelled

\* A shutdown ends the loop, whichever sleep or call it interrupts, provided
\* that a token request ends by itself: nothing cancels it.
StopsWhenCancelled == cancelled ~> pc = "stopped"

\* bootstrap.go:156: within refreshMargin of its expiry the cached token is
\* "due for refresh": when the refresh timer has fired, a new one is
\* requested. The code asks ReuseTokenSource, which answers with the token
\* it already has until ReuseDelta before the expiry.
TimerRefreshes ==
    [][pc = "token" /\ have /\ token =< RefreshMargin => pc' = "request"]_pc

=============================================================================
