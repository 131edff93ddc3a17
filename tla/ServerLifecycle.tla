--------------------------- MODULE ServerLifecycle ---------------------------
(***************************************************************************)
(* The life of the process: cmd/osac-service-provider's run starts the     *)
(* parts, Server.Run of internal/apiserver serves, polls its own health    *)
(* endpoint and starts the registrar once it answers, and drains the       *)
(* requests in flight when ctx is cancelled by a signal.  The registrar is *)
(* Registration; its loops live and die with the process, while the agent  *)
(* goes on.                                                                *)
(*                                                                         *)
(* External: the platform that signals, kills and restarts the process,    *)
(* its clients, and OSAC as far as /health asks it: a health request takes *)
(* as long as OSAC's answer, at most ProbeTimeout.                         *)
(***************************************************************************)
EXTENDS Registration

CONSTANTS
    ProbeTimeout,     \* OSACConfig.ProbeTimeout: how long /health asks OSAC
    SelfProbeTimeout  \* waitForReady's client.Timeout

ASSUME ServerAssumption ==
    /\ ProbeTimeout \in Nat \ {0}
    /\ SelfProbeTimeout \in Nat \ {0}

VARIABLES
    main,     \* where the main goroutine is
    serve,    \* the goroutine around http.Server.Serve
    request,  \* a request of a client is being handled
    slow,     \* external: OSAC does not answer before ProbeTimeout
    code,     \* the exit status, once there is one
    probed,   \* history: /health has answered the self-probe in this life
    dropped   \* history: a request was cut off by the exit

procVars == <<main, serve, request, code, probed, dropped>>
serverVars == <<vars, procVars, slow>>

ServerInit ==
    /\ Init
    /\ main = "boot"
    /\ serve = "off"
    /\ request = FALSE
    /\ slow \in BOOLEAN
    /\ code = "none"
    /\ probed = FALSE
    /\ dropped = FALSE

Alive == main # "exited"

-----------------------------------------------------------------------------
(* run and mainRun *)

\* os.Exit: what the process has in memory is gone, the deferred Close calls
\* wait for nobody, and a registration request that is under way may still
\* reach the agent.
Exit(status) ==
    /\ main' = "exited"
    /\ code' = status
    /\ dropped' = request
    /\ request' = FALSE
    /\ serve' = "off"
    /\ probed' = FALSE
    /\ started' = FALSE
    /\ pc' = [s \in Svc |-> "idle"]
    /\ backoff' = [s \in Svc |-> InitialBackoff]
    /\ wg' = 0
    /\ done' = FALSE
    /\ fails' = [s \in Svc |-> 0]
    /\ refused' = {}
    /\ \E sent \in SUBSET {s \in Svc : pc[s] = "register"} : late' = late \cup sent
    /\ UNCHANGED <<cancelled, holder, upsets, slow>>

\* run up to srv.Run's go statement: the configuration, the version matrix,
\* the listener and the parts are there; none of them waits for its peer.
Boot ==
    /\ main = "boot"
    /\ main' = "probe"
    /\ serve' = "serving"
    /\ UNCHANGED <<vars, request, slow, code, probed, dropped>>

\* One of the steps of run fails: the error ends the process.
BootFails ==
    /\ main = "boot"
    /\ Exit("failure")

\* The platform starts the process again.
Restart ==
    /\ main = "exited"
    /\ main' = "boot"
    /\ code' = "none"
    /\ dropped' = FALSE
    /\ cancelled' = FALSE
    /\ UNCHANGED <<started, pc, backoff, wg, done, agentVars, fails, refused,
                   serve, request, slow, probed>>

\* The process is killed without a signal it could handle.
Killed ==
    /\ Alive
    /\ Exit("killed")

\* SIGTERM or SIGINT.
Signal ==
    /\ Alive
    /\ Cancel
    /\ UNCHANGED <<procVars, slow>>

-----------------------------------------------------------------------------
(* Server.Run: readiness *)

\* How long a health request takes.
HealthLatency == IF slow THEN ProbeTimeout ELSE 0

\* waitForReady gets a response, whatever its status: any will do.
ProbeAnswered ==
    /\ main = "probe"
    /\ serve = "serving"
    /\ ~cancelled
    /\ HealthLatency < SelfProbeTimeout
    /\ main' = "ready"
    /\ probed' = TRUE
    /\ UNCHANGED <<vars, serve, request, slow, code, dropped>>

\* Mutations: an elapsed window counts as ready; it ends the wait for good.
WindowMeansReady ==
    /\ main = "probe"
    /\ ~cancelled
    /\ main' = "ready"
    /\ UNCHANGED <<vars, serve, request, slow, code, probed, dropped>>

WindowIsFinal ==
    /\ main = "probe"
    /\ ~cancelled
    /\ main' = "run"
    /\ UNCHANGED <<vars, serve, request, slow, code, probed, dropped>>

\* waitForReady's deadline fires before a request succeeded: unless ctx is
\* cancelled by now, waitForReadyUntilCancelled pauses before the next window.
WindowElapsed ==
    /\ main = "probe"
    /\ ~cancelled
    /\ main' = "pause"
    /\ UNCHANGED <<vars, serve, request, slow, code, probed, dropped>>

NextWindow ==
    /\ main = "pause"
    /\ main' = "probe"
    /\ UNCHANGED <<vars, serve, request, slow, code, probed, dropped>>

\* ctx is cancelled before a request succeeded: onReady is skipped. A request
\* that is under way fails with ctx, so an answer can no longer come.
ProbeAbandoned ==
    /\ main \in {"probe", "pause"}
    /\ cancelled
    /\ main' = "run"
    /\ UNCHANGED <<vars, serve, request, slow, code, probed, dropped>>

\* onReady: Registrar.Start. ctx may have been cancelled since the answer.
OnReady ==
    /\ main = "ready"
    /\ Start
    /\ main' = "run"
    /\ UNCHANGED <<serve, request, slow, code, probed, dropped>>

-----------------------------------------------------------------------------
(* Server.Run: serving and shutting down *)

\* Serve returns an error other than ErrServerClosed; it stays in serveCh
\* until Run comes to its select.
ServeFails ==
    /\ serve = "serving"
    /\ serve' = "failed"
    /\ UNCHANGED <<vars, main, request, slow, code, probed, dropped>>

\* Run's select takes the error: Run returns it without a Shutdown.
ServeErrorTaken ==
    /\ main = "run"
    /\ serve = "failed"
    /\ Exit("failure")

\* Mutation: Close instead of Shutdown does not wait for the requests.
CloseAtOnce ==
    /\ main = "run"
    /\ cancelled
    /\ Exit("success")

\* Run's select takes ctx.Done: Shutdown closes the listener and waits.
BeginShutdown ==
    /\ main = "run"
    /\ cancelled
    /\ main' = "drain"
    /\ serve' = "closed"
    /\ UNCHANGED <<vars, request, slow, code, probed, dropped>>

Drained ==
    /\ main = "drain"
    /\ ~request
    /\ Exit("success")

\* Mutation: Shutdown is called without a deadline.
DrainForEver == FALSE

\* shutdownCtx expires first: Run returns the error.
DrainTimesOut ==
    /\ main = "drain"
    /\ request
    /\ Exit("failure")

RequestArrives ==
    /\ serve = "serving"
    /\ ~request
    /\ request' = TRUE
    /\ UNCHANGED <<vars, main, serve, slow, code, probed, dropped>>

\* The handler returns, panics (and is recovered), or gives up when the
\* request's timeout has cancelled its context.
RequestEnds ==
    /\ request
    /\ request' = FALSE
    /\ UNCHANGED <<vars, main, serve, slow, code, probed, dropped>>

\* OSAC's pace is of no consequence here once the self-probe is over.
OsacSlows ==
    /\ main \in {"probe", "pause"}
    /\ ~slow
    /\ slow' = TRUE
    /\ UNCHANGED <<vars, procVars>>

OsacRecovers ==
    /\ slow
    /\ slow' = FALSE
    /\ UNCHANGED <<vars, procVars>>

-----------------------------------------------------------------------------

Run ==
    \/ Boot \/ ProbeAnswered \/ WindowElapsed \/ NextWindow \/ ProbeAbandoned
    \/ OnReady \/ ServeErrorTaken \/ BeginShutdown \/ Drained \/ DrainTimesOut

\* The registrar's goroutines, as long as the process lives.
RegistrarStep(s) == LoopStep(s) /\ UNCHANGED <<procVars, slow>>
RegistrarDone == CloseDone /\ UNCHANGED <<procVars, slow>>

Agent(s) == AgentStep(s) /\ UNCHANGED <<procVars, slow>>

ServerNext ==
    \/ Run \/ BootFails \/ ServeFails \/ RequestArrives \/ RequestEnds
    \/ Signal \/ Killed \/ Restart \/ OsacSlows \/ OsacRecovers \/ RegistrarDone
    \/ \E s \in Svc : RegistrarStep(s) \/ Agent(s)

ServerSpec == ServerInit /\ [][ServerNext]_serverVars

\* The main goroutine is scheduled, its timers fire and its own requests end
\* (WF); a window is not for ever over just before the answer comes (SF). The
\* registrar's goroutines are scheduled, the HTTP client's timeout ends every
\* call and timers fire (WF). The agent of a healthy service is up again and
\* again (SF) and its incumbent leaves (WF).
FairServerSpec ==
    /\ ServerSpec
    /\ WF_serverVars(Run)
    /\ SF_serverVars(ProbeAnswered)
    /\ \A s \in Svc : WF_serverVars(RegistrarStep(s))
    /\ \A s \in HealthySvc :
        /\ SF_serverVars(Accepted(s) /\ UNCHANGED <<procVars, slow>>)
        /\ WF_serverVars(Displaced(s) /\ UNCHANGED <<procVars, slow>>)

\* In addition, OSAC answers in time again and again, not only in the pauses
\* between two windows.
FairOsacServerSpec ==
    FairServerSpec /\ SF_serverVars(main = "probe" /\ OsacRecovers)

-----------------------------------------------------------------------------

\* Every variable has its type.
ServerTypeOK ==
    /\ TypeOK
    /\ main \in {"boot", "probe", "pause", "ready", "run", "drain", "exited"}
    /\ serve \in {"off", "serving", "failed", "closed"}
    /\ request \in BOOLEAN
    /\ slow \in BOOLEAN
    /\ code \in {"none", "success", "failure", "killed"}
    /\ probed \in BOOLEAN
    /\ dropped \in BOOLEAN

\* REQ-REG-050, AC-REG-030: the registrar runs only in a process whose own
\* health endpoint has answered, however many windows or lives went before.
RegistersOnlyWhenReady == started => probed /\ serve # "off"

\* REQ-HTTP-030/040: exit status 0 means that the process was told to stop
\* and that no request was cut off by its end.
SuccessMeansDrained == code = "success" => cancelled /\ ~dropped

\* REQ-REG-010/052, DD-141: a provider that serves gets every healthy service
\* registered, however slow its first health answers were and in however
\* many lives, unless it is told to stop or stops serving.
ServingIsRegistered ==
    \A s \in HealthySvc :
        serve = "serving" /\ holder[s] # "us"
            ~> holder[s] = "us" \/ cancelled \/ serve # "serving"

\* REQ-HTTP-030: a process that is told to stop ends, in whatever step of
\* start, readiness or registration the signal comes; and so does one whose
\* server fails after it was ready.
ProcessEnds ==
    cancelled \/ (serve = "failed" /\ main \in {"ready", "run"}) ~> ~Alive

\* server.go:103: onReady is "invoked once the server is confirmed to be
\* serving HTTP requests": a server that goes on serving starts the registrar.
\* The self-probe asks for less time than the health handler may take, so a
\* slow OSAC keeps it from ever being confirmed.
ServingStartsRegistration ==
    serve = "serving" ~> started \/ cancelled \/ serve # "serving"

==============================================================================
