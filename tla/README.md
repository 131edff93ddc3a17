# TLA+ verification of osac-service-provider

This directory models the parts of the OSAC service provider that keep state
or run concurrently, checks them with TLC on small instances, and proves the
most important safety results with TLAPS for every value of the constants.
`PROJECT.json` maps every definition to the source lines it models and lists
the runs, the mutations used to show that each property can fail, the hazards
and the theorems.

## 1. The system and its parts

The service provider (SP) sits between DCM (control plane and
environment-agent) and an OSAC fulfillment service. It is one Go process:
`main.run` creates the parts, starts their goroutines under one `ctx` that a
signal cancels, and serves HTTP until then.

| Part | State | Operations | Interacts with |
|------|-------|------------|----------------|
| `internal/statuspublisher` | pending value per key, backoff per key, wake channel | `Publish`, `Start`, worker (`run`, `attemptRound`, `attemptOnce`), `Close` | called by the poller; publishes to NATS JetStream |
| `internal/statuspoll` | last reported (status, message) per resource, cycle counter | `Start`, `run`, `runCycle`, paged `List`, change and disappearance detection, resync | lists from OSAC, calls `Publish` |
| `cluster/status.go`, `vm/status.go`, `statuspoll/message.go` | none | `MapStatus`, `clusterMessage`, `vmMessage` | used by poller and CRUD |
| `internal/registration` | one loop and one backoff per service type, WaitGroup, done | `Start`, `runLoop`, `registerOnce` | environment-agent over HTTP |
| `internal/osac` | discovered endpoint, published token and expiry | `refreshLoop`, `Token`, `setToken`, `TokenStatus`, `Probe` | OIDC issuer; every gRPC call reads the token |
| `internal/vm` | none of its own; networks and subnets live in OSAC | create (with default network), get, list, delete | OSAC |
| `internal/cluster` | none of its own | create (version and node-set resolution), get (with kubeconfig secret), list, delete | OSAC |
| `internal/apiserver`, `cmd` | listener, readiness, shutdown | `Run`, `waitForReadyUntilCancelled`, middleware | the platform's signals; starts registration through `onReady`; probes its own health endpoint |
| `internal/health` | none | `checkHealth` | reads the token status, probes OSAC; asked by the server's own readiness probe |
| `handlers`, `grpcerror`, `pagination`, `httperror`, `config`, `versionmatrix` | none after start | pure translation | — |

What is hard in it, and what correctness means there:

* **Publisher.** Callers, one worker and an unreliable broker share a map, a
  channel of capacity one and timers; values are read under a mutex and sent
  outside it. Correct: no update is lost, no wake-up is lost, a failing key
  delays nobody else, the worker ends when it is cancelled.
* **Poller.** It reads a changing collection in pages, which may come short,
  in another order or not to the end, and infers deletions from absence.
  Correct: DELETED only for what was gone, once; the cache agrees with what was
  published; the reports converge.
* **End to end.** The control plane drops events about instances it does not
  know yet, and the SP may restart with empty memory. Correct: the view
  converges nevertheless.
* **Registration.** Two loops with four kinds of answers. Correct: they are
  independent, end only for a reason, and a slot that becomes free is taken.
* **Token refresh.** Two caches of one token with different margins. Correct:
  the loop never sleeps through an expiry and recovers from every failure, and
  the health endpoints do not report an old token as valid.
* **VM creates and the default network.** Handlers run concurrently and keep
  nothing; the first creates race between listing and creating the network,
  calls fail after they took effect, VMs are deleted meanwhile. Correct: the
  number of networks is bounded, a VM attaches only to a usable one, the
  answer is true, every request ends.
* **Cluster CRUD.** A request makes up to four calls, and OSAC changes between
  any two of them: the existing cluster that explains a conflict disappears,
  the secret of a cluster goes before it is read. Correct: what is answered was
  true during the request, what is created is what was asked for, and following
  the page tokens misses nothing.
* **The process.** Serving, the readiness probe, registration, the signal and
  the drain overlap; the process is killed and started again. Correct: no
  registration before readiness, a serving provider gets registered, the
  process ends when it should, and its exit status is true.

The `hazards` of `PROJECT.json` list these line by line.

## 2. Modules

| Module | Models | Uses |
|--------|--------|------|
| `LatestValueDelivery` | abstract promise of the publisher | — |
| `StatusPublisher` | `internal/statuspublisher` | implements `LatestValueDelivery` |
| `StatusMapping` | `MapStatus`, messages (operators) | — |
| `StatusPoller` | `internal/statuspoll` and OSAC's collections | `StatusMapping` |
| `StatusReporting` | OSAC → poller → publisher → control plane, with restarts | `StatusPoller`, `LatestValueDelivery` |
| `Backoff` | exponential backoff in closed form, as the requirements state it | — |
| `Registration` | `internal/registration` and environment-agent | `Backoff` |
| `ServerLifecycle` | `internal/apiserver`'s `Run`, `cmd/osac-service-provider`, with the registrar inside | `Registration` |
| `TokenRefresh` | refresh loop, token source, `TokenStatus` and `Probe` of `internal/osac`, `internal/health` | `Backoff` |
| `VMTranslate` | disk capacities, boot disk, error classification (operators) | — |
| `VMService` | create and delete of `internal/vm`, `handlers/vm`, OSAC's networks and VMs | `VMTranslate` |
| `ClusterTranslate` | validation, node set, version, labels, page tokens, error mapping of clusters (operators) | `StatusMapping` |
| `ClusterService` | create, get, delete and list of `internal/cluster`, `handlers/cluster`, `internal/pagination`, and OSAC's clusters and secrets | `ClusterTranslate` |
| `MC*` | constants of the instances | the module of that name |
| `RecursionProofs` | induction and loops, for the proofs about recursive functions | `Backoff` |
| `StatusPublisherProofs`, `LatestValueDeliveryProofs`, `StatusPollerProofs`, `ServerLifecycleProofs` (with the registrar's), `TokenRefreshProofs`, `VMServiceProofs`, `ClusterServiceProofs` | theorems | the module of that name; those about backoff and clusters `RecursionProofs` |

Definitions whose comment begins with *Mutation* or *Mutant* are deliberately
wrong variants of the definition that follows; no specification uses them.
They document which plausible bug each property detects.

### StatusPublisher

`pending`, `retry` (with `left`, the rest of the cooldown), `wake` are the
fields of `Publisher`; `pc, ready, attempted, timer, key, val` the worker's
control state and locals; `calls` the callers inside `Publish`; `stored` is
the stream. Each critical section, each channel operation and each send is an
action: `Record`/`Signal` are the two halves of `Publish`, `BeginRound` is
`attemptRound` up to its unlock, `ReadCurrent` the read of the current value,
`SendAcked`/`SendLost`/`SendAckLost` the outcomes of `js.Publish`,
`removeIfUnchanged`, `clearRetry`, `bumpRetry` the functions of those names,
`EndRound`, `Woken`, `TimerFires`, `StopWhileAsleep` the rest of `run`. Time
is relative (ticks left), so there is no clock to bound. A value stands for
(service type, status, message); the envelope's fresh UUID and time are left
out, and `buildEnvelope`'s documented-unreachable error with them.

### StatusPoller, StatusMapping

One action per `List` call (`ListPage`, `ListFails`), per item (`HandleItem`:
mapping, comparison, cache update and the begin of `Publish`), per
disappeared id (`ReportGone`) and per step of the loop. Clusters and VMs run
through the same actions with `kind` telling them apart, because the code is
the same twice. OSAC is a sequence that changes between any two calls, and an
answer is cut from it at the offset. What OSAC does not promise is left open:
it may put fewer items on a page than the limit, down to none (`PageLength`);
the order may change from call to call (`OsacReorder`); and `Total` may be
reached by a page or not, whatever the collection holds (`atTotal`). As in the
code, a listing ends at an empty page, whatever `Total` says, and at `Total`.
`reported`, `steady` and `gaps` are history: what was published last, what
has existed ever since the listing began, and what may have made this listing
skip a resource: one was *deleted* between two pages, one has *moved*, or OSAC
has *cut* the listing short. The cycle counter is kept modulo `ResyncEvery`, the
only way the code reads it.

### StatusReporting

The poller's actions with `Publish` replaced by `LatestValueDelivery!Record`;
the courier's `HandOver` makes an event unread, `Consume` applies it if the
control plane knows the instance and drops it otherwise. `Restart` empties
everything the process holds. `MaxRestarts` bounds the crashes.

### Registration

`pc[s]` is `register` (a call is under way), `renew` (sleeping the
re-registration interval, after success or 409), `retry` (sleeping the backoff)
or `stopped`. The doubling happens after the sleep, as in the code. When `ctx`
is cancelled and the timer has fired, `select` may take either. The agent
(external) holds one slot per service type; `NoSuccess` may leave a request
behind that arrives later; `MaxUpsets` bounds how often it gives a slot to
somebody else or loses our entry; `MaxFails` is where the failure count used by
a property saturates, assumed to be no less than `MaxBackoff`: after that many
doublings the backoff is at its cap, so counting further would tell nothing.

The module has no run of its own: `ServerLifecycle` starts it, and its
properties are checked there.

### ServerLifecycle

`main` is where the main goroutine is: `boot` (everything before `srv.Run`),
`probe` and `pause` (a window of `waitForReady`, and the pause between two),
`ready` (answered, `onReady` is next), `run` (the `select`), `drain`
(`Shutdown`), `exited`. `serve` is the goroutine around `Serve`; one `request`
stands for the requests in flight, since all that is asked is whether there is
one. The registrar's actions are those of `Registration`; `Exit` clears what
the process holds and may leave registration requests on the wire, `Restart`
is the platform's, the agent keeps its table. A health request takes
`HealthLatency`, that is as long as OSAC does, up to `ProbeTimeout`; the
self-probe waits `SelfProbeTimeout`. Any HTTP status satisfies it, so an
unhealthy provider is ready too. An error of `Serve` waits in its channel until
`Run` reaches the `select`: during the readiness wait nobody looks at it.

### TokenRefresh

Time in ticks of 10 s: `token` and `source` are the lives left of the token
that `Bootstrap` publishes and of the one oauth2's `ReuseTokenSource`
(external) caches. `Token` decides between discovery, reuse and a request;
the two documents of the discovery share the deadline in `timer`, so
`DiscoveryFails` follows the first one directly if it hangs. The health check
is two steps beside the loop: `TokenStatus` reads the token, `Probed` ends the
probe, at most `ProbeTimeout` later, and answers with what was read before.
`fails` and `expired` are history. Local steps take no time and a timer that
ran out is noticed within a tick. Tokens are assumed to live longer than
oauth2's 10 s delta; a token without `expires_in` is not modelled.

### VMService, VMTranslate

`vnet`, `subnet` and `vms` are what OSAC holds; `pc, id, obj, net, sub, own,
left` are the local variables of each request between two of its RPCs. One RPC
is one action: `UseListed`/`NoneListed` the outcomes of `Subnets/List`,
`CreateVNet`, `PollVNet`, `CreateSubnet`, `PollSubnet` the provisioning,
`CreateVM`, `VMExists`, `GetExisting` the idempotent create. `BeginCreate` is
everything before the first RPC, the disk translation included; `RejectCreate`
the 400s. A call fails without effect, with any code (`CallFails`), or its
answer is lost after it took effect (`RespondLost`, with a `LostCode`: the
codes of a refusal say that nothing happened). The code passes every error on
as it is, with one exception: `AlreadyExists` of `ComputeInstances/Create`, for
the id or for a name (`VMExists`), leads to a Get, and if nothing has the id,
to a 404. The default network and subnet are created under fixed names, and
their `AlreadyExists` is passed on as 409. Delete is one RPC and so one step;
Get is read-only. `List` may return the default subnets in any order. Nobody
deletes networks. Poll time is counted in intervals. The conversion of a
capacity that does not fit `int32` is implementation-defined in Go and may give
any value here.

### ClusterService, ClusterTranslate

The service keeps nothing, so one request is modelled at a time and everything
else, other requests included, is OSAC changing between two of its steps
(`OsacReports`, `OthersCreate`, `OthersDelete`). What another request of this
provider creates meanwhile differs from `OthersCreate` only in its labels,
which none of these calls reads. `pc` is the RPC that comes next, `request`,
`key` and `version` are the locals of the handler, `saw` is history: which
facts held at some moment of the request. `GetTemplate`, `ListVersions`,
`CreateCluster`, `AlreadyExists`, `CreateFails`, `GetExisting` are `Create`;
`GetCluster` and `GetSecret` are `Get`; `DeleteCluster` is one RPC and one
step. A create or delete that fails with a `LostCode` may have taken effect;
every other code is a refusal. Codes are passed on as they are, with the
exceptions the code makes; `ReadError` leaves out only what is decided
elsewhere in the model (whether a template, cluster or secret is found) and
`AlreadyExists` of a read. `answer` keeps, as history, after which RPC it was
given. `List` is an operator, since it reads once: the page for a size and an
offset, with OSAC free to put fewer items on each page than asked for, or none
(`OsacPages`). Node counts are integers that `int32` wraps at `MaxInt32`;
versions are a minor and a patch, with catalog entries that have no name or are
no SemVer; a page token is an encoded offset. OSAC lists in a fixed order while
the collection does not change; its proto promises none.

## 3. Runs

| Run | Instance | Shows |
|-----|----------|-------|
| `publisher` | 1 caller, 1 key that is accepted again and again, 1 that may fail for ever, 2 values, backoff 1..2; 339,866 states | no lost update or wake-up; refinement; delivery without head-of-line blocking; shutdown |
| `publisher_stale` | same | **violation**: a stale value is sent |
| `poller` | 2 VMs, 1 status, pages of up to 2, the clusters' listing may always fail; 56,974 states | cache and deletions; the reports converge; the loop goes on and ends |
| `poller_paging` | 2 VMs, pages of up to 1 | **violation**: false DELETED by deletions alone |
| `reporting` | 1 cluster, 2 statuses that differ in the message, 1 restart; 165,536 states | the control plane's view converges |
| `server_lifecycle` | both services, cluster may be refused, 1 upset, backoff 1..2, probe 5 s, self-probe 1 s; 112,160 states | readiness, registration, shutdown, kill and restart |
| `readiness_slow_osac` | same, without the assumption that OSAC is fast again | **violation**: a serving provider never starts to register |
| `token_refresh` | lives of 20, 40 and 90 s, margin 30 s, delta and discovery 10 s, probe 20 s | no sleep through an expiry; backoff; recovery; shutdown; health is recent |
| `token_reuse` | same | **violation**: the timer does not refresh |
| `vm_service` | 2 concurrent requests, 1 VM, 3 networks, one poll after the first, 3 codes; 191,491 states | bounded provisioning, true answers, right disks, every request ends |
| `cluster_service` | 2 ids, 2 names, 7 specs on both sides of every check, 3 catalogs, 6 page sizes, 5 codes, pages of 1 or 2 and with an empty first or second one; 269,667 states | true answers, right objects, complete listings |
| `cluster_conflict` | same | **violation**: a create answers 409 |

Why the bounds are enough. In the publisher a race needs a caller between its two
steps and the worker between two of its own, two values to tell old from new,
and a second key to fail while the first is healthy; callers do not wait for one
another, and the safety properties are proved for any number of them and for
every backoff (section 4). The backoff 1, 2, 2 contains the first value, a
doubling and the cap. In the poller two resources give a listing an order and
pages to shift, and pages of up to two items come full, short and empty;
`ResyncEvery = 2` has a resync and a plain cycle. With two statuses as well the
liveness check would take too long: that a change is reported, be it of the
message alone, is checked end to end in `reporting` and proved, for every set of
statuses, by `CacheTellsLastReport`. One crash at any point is enough for the
questions asked of a restart, since the process keeps nothing.
`server_lifecycle` has any number of lives, because an exit returns to the
first state up to what the agent holds; one upset lets an entry be lost or the
slot be taken once, and the backoff 1, 2, 2 contains a doubling and the cap. In
`token_refresh` one life is below the margin, one barely above it, and the
probe outlasts the first one. For clusters, two ids and two names are what a
conflict of one without the other needs, and 3-bit counts overflow at 4. For
VMs, two requests for one VM and one network more than requests let both race,
lose answers and start again; the requested disks include a missing boot disk,
capacities that round up and the largest one an `int32` holds.

### Properties worth knowing

* `NothingDropped`, `NoLostWakeup`, `AttemptedKeyIsPending`,
  `BackoffOnlyWhilePending` and `DeliverySpec` (refinement) for the publisher;
  `LatestDelivered` and `StopsWhenCancelled` for its liveness.
* `CacheIsLastReport`, `DeletedOnce`, `OnlyGapsMislead`, `ReportsConverge`,
  `LoopGoesOn` for the poller. `NoFalseDeletion` does not hold, even if nothing
  but deletions happens between two pages. `OnlyGapsMislead` says what it takes
  for a resource that exists to be reported DELETED: during its listing a
  resource was deleted, or the order changed, or OSAC ended the listing, by an
  empty page or by its `Total`, before it had listed everything (REQ-POLL-020
  wants the empty page to end it); a listing that fails, or whose pages are
  merely short, never does it. `ReportsConverge` is about a kind whose listings
  are in the end not cut.
* `LiveStatusConverges`, `GoneStatusConverges` end to end, for listings that
  are in the end not cut. The second holds only without a crash: a resource
  deleted while the SP is down, or whose DELETED was still queued, is never
  reported.
* `OnlyRefusalIsFatal`, `BackoffCountsFailures`, `RegistersOnlyWhenReady`,
  `SuccessMeansDrained`, `ServingIsRegistered`, `ProcessEnds` for the process
  and its registrar. `ProcessEnds` excludes a server that fails during the
  readiness wait: until a signal comes, nothing notices.
* `ExpiredMeansTrying`, `BackoffCountsFailures`, `HealthyIsRecent`,
  `TokenRecovers` for the token. `TokenRecovers` needs only the fallback
  document, but the first one must be answered, however badly, now and then: if
  it always hangs, the shared deadline leaves the fallback no time.
* `SubnetsBoundedByConcurrency`, `AttachedNetworkIsReady`, `AnswersAreTrue`,
  `DisksAsRequested`, `RequestsEnd` for VM creates. Three limits are visible
  in them: a create that finds a default subnet in the list uses it even while
  it is pending (only the request that provisions it waits); virtual networks,
  unlike subnets, are not bounded, since each create that times out before its
  subnet leaves one behind; and the two polls have a deadline each.
  `AnswersAreTrue` says that a refusal (4xx) means that this request made no VM,
  and that a 409 is never about the VM: it is about the fixed names of the
  default network. If OSAC keeps those names unique, which its proto does not
  say and SC-M4-001 assumes it does not, then a network that is left without a
  subnet makes every later VM create answer 409. A 404 of a create does not mean
  that the VM existed: with a name that is taken nothing has the id.
* `CreateAnswersAreTrue`, `GetAnswersAreTrue`, `CreatedAsRequested`,
  `ListingIsComplete` for clusters. Their limits: 201 after a conflict on the
  id is answered for whatever cluster has the id, with the version of this
  request, whoever made it; 409 does surface (finding 5), but only if the id
  was absent at some moment of the request, so never to the retry of a create
  whose cluster is still there; 404 surfaces only if OSAC answers `NotFound` to
  `ClusterVersions/List` or to `Clusters/Create`, which the code passes on; an
  ACTIVE cluster whose secret is gone by the second call is a 500; the newest
  version is the newest of one `List` answer, which OSAC may cut short; an
  empty page ends a caller's listing, so what follows it is not seen, which is
  the price of never looping; and `ListingIsComplete` is about a collection
  that does not change while it is paged through, since the token is an offset.

### Where the code and its documents differ

1. `publisher_stale`: REQ-PUBLISH-080 forbids delivering a stale value after a
   newer one was recorded; `attemptOnce` reads, unlocks and sends. The newer
   value follows.
2. `poller_paging`: offset paging over a changing collection misses a
   resource that exists and reports it DELETED until the next cycle. It takes
   more than 100 resources of a kind.
3. `token_reuse`: within the 30 s margin the loop receives the cached token
   again, so the refresh really happens 10 s before the expiry, and the loop
   does not pause for the 20 s in between.
4. `readiness_slow_osac`: the self-probe that gates registration waits 1 s for a
   health handler that waits up to 5 s for OSAC. The gate is meant to test the
   process's own listener (DD-141), but with a slow OSAC it never opens, and the
   provider serves without ever registering. A refused connection answers at
   once, so it takes an OSAC that hangs.
5. `cluster_conflict`: REQ-CREATE-040 and section 4.6 of the M3 specification
   say that `AlreadyExists` never surfaces, never as 409. `Create` returns it
   when the Get that follows finds nothing: for a name that is taken and for a
   cluster deleted in between. The comment at that line and a test want it so:
   the specification is behind the code.

Two smaller remarks without a run: `ShutdownTimeout` (15 s) is shorter than
`RequestTimeout` (30 s), so a long request makes an orderly shutdown exit with
an error; and nobody waits for the publisher's worker, so an orderly shutdown
loses the queued statuses just as a crash does.

### Fairness

Weak fairness of a goroutine's own steps stands for the Go scheduler; of timers
and ticks for time; of an RPC's end for its timeout (`js.Publish` has 5 s,
`List` has `ListTimeout`, the registration client its HTTP timeout, an HTTP
request of the SP the server's request timeout, the probe and the discovery
their deadlines, a self-probe its window). The token request has no timeout of
its own and ignores the shutdown: `TokenRefresh` gives it no weak fairness, and
only assumes, of the identity provider, that a request made again and again is
granted in the end. Strong fairness of a `select` branch stands for Go's random
choice among ready branches. Strong fairness of a remote success (a healthy
key's publish, a healthy kind's page, a healthy service's registration, the
issuer's answers) is the assumption that what is tried again and again succeeds
some time; only the parties named healthy get it, so that the others may fail
for ever. `FairOsacServerSpec` adds that OSAC is fast again and again while the
self-probe waits; without that assumption (`FairServerSpec`) the registration
may never start, which is finding 4. `StatusReporting` must assume it of
listings *in resync cycles*: a cycle whose listing failed still counts as the
resync.

## 4. Proofs

* **StatusPublisherProofs** (any keys, values, callers, backoff range):
  `TypeCorrect`, `NothingIsDropped`, `NoWakeupIsLost`,
  `MissingValueIsUnreachable`, `NoStaleBackoff`, `ImplementsDelivery`. The
  invariants are not inductive alone. `IInv` adds what the worker knows where
  it stands: the cooldown left is within the backoff; the value it sends is
  one that was pending (and, once acknowledged, the one stored); the keys of
  the round are pending; and, from the moment the round's wait is computed
  until the sleep, each pending key is covered by the wait, a token in `wake`,
  or a caller about to put one there. The last is needed because a key can be
  recorded between the unlock of `attemptRound` and the `select`. The
  refinement maps the worker at `send` to the courier and a pending key to an
  owed one; each step is a step of `LatestValueDelivery` or a stutter.
* **LatestValueDeliveryProofs**: `Promise`, the abstract specification implies
  that a key that is not owed is up to date at the reader.
* **StatusPollerProofs** (any ids, statuses, page size, resync period):
  `TypeCorrect`, `CacheTellsLastReport`, `GapsAloneMislead`, `DeletedIsOnce`.
  `PollInv` adds three things. Ids are unique in OSAC (`OneEntryPerId`),
  without which an offset says nothing about what was read. While `gaps` is
  empty, the pages read so far hold every resource up to the offset, since OSAC
  has only appended (`PagesCover`); so a listing that then ends has reached the
  end and holds everything that was there all the time (`ListingCovers`), and
  what is reported gone was not. And the cache holds live reports only, which
  with `CacheIsLastReport` gives `DeletedIsOnce`.
* **RecursionProofs**: the library's induction theorems take a predicate as a
  parameter, which the provers cannot instantiate; `InductionOnSet` is
  induction for a set, derived from the well-foundedness of `<` on the
  naturals. `RunExists` says that a loop of N rounds has a run, which is what
  it takes to show that a recursive function satisfies its own definition.
  `PaceSteps`: `Backoff`'s closed form begins with the first wait, doubles and
  caps, and has reached the cap after as many failures as the cap has units.
* **ServerLifecycleProofs** (any timeouts, any agent, any number of lives):
  first the registrar alone, `TypeCorrect`, `LoopsEndForAReason`, `DoneIsLast`,
  `BackoffIsExponential`, by an invariant that says that the WaitGroup's
  counter is the number of running loops and, through `PaceSteps`, that each
  loop's backoff is the closed form of its failure count. Then the process,
  `ServerTypeCorrect`, `RegistrationWaitsForReadiness`,
  `ServerLoopsEndForAReason`, `ServerBackoffIsExponential`, `SuccessIsDrained`.
  It reuses the registrar's invariant, since the registrar's steps are the
  same; new are the exit, which resets it, and the restart, which clears the
  cancellation and must find no loop that ended because of it. `Stages` says
  what the main goroutine knows where it is: the server is up after boot, the
  self-probe was answered before `onReady`, a drain follows a cancellation.
* **TokenRefreshProofs** (any margin, delta, lives, deadlines and backoff
  range): `TypeCorrect`, `NoSleepThroughExpiry`, `HealthIsRecent`,
  `BackoffIsExponential` (by `PaceSteps`).
  `SleepLeavesMargin` relates the sleep to the token: while the timer runs, the
  token outlives it by the margin; once it has run out, there is a tick left to
  notice. This rests on delta being positive and at most the margin, and on
  lives longer than the delta. `CheckIsFresh` says that the age of what a health
  check read and the rest of its probe never exceed the probe's timeout.
* **ClusterServiceProofs** (any ids, names, specs, templates, catalogs and
  codes): `CreateTellsTheTruth`, `GetTellsTheTruth`. The invariant adds that
  while a request runs, everything true now has been seen, and what each RPC
  rests on: at `existing` the id or the name was taken, at `secret` the cluster
  was ACTIVE, and before the create nothing was made. A call that may have made
  something fails with a `LostCode` only, which is no refusal. `TypeCorrect`,
  `ObjectsAreRight`, `ListingsAreComplete`, `NothingListedTwice` rest on a
  second invariant, `DataInv`, about the data a request carries, and on lemmas
  about the operators: `SelectsNewest`, the loop of `resolveVersion` ends with
  the newest matching version of any catalog (induction over its rounds);
  `CountFits`, a count that passed the check survives `int32`; `LabelsWin`, the
  provider's labels override the caller's; `InOrderLists`, OSAC's listing has
  every id once and in order; `WalkIsComplete`, the pages joined are the
  listing up to the first empty page, by induction over the requests: `Ahead`
  says that the token a caller has after n of them leads past what it has, and
  no less far than n, so that it cannot have one after as many as there are
  clusters. It needs offsets that decode to themselves, hence no more clusters
  than `int32` can count.
* **VMServiceProofs** (any number of clients, VMs, networks and poll rounds):
  `TypeCorrect`, `SubnetsAreBounded`, `AttachmentsAreReady`,
  `CreateTellsTheTruth`, `DisksAreRight`. The bound holds because each subnet
  records its creator and no client creates a second one
  (`OneSubnetPerClient`): a client on its way to creating one saw an empty list
  in the same request, and its own earlier subnet would have been in it. The
  map from subnets to creators is then injective, which bounds the cardinality.
  The two other parts of the inductive invariant say which networks are ready
  at each point of a request and what the request has seen of its VM and has
  been told of it (`asked`). For the disks, `CapacityCovered` (the rounding
  division of `ParseDiskCapacityGiB` gives the smallest number of GiB that
  covers, in each unit) and `SplitTranslates` (taking the boot disk out leaves
  the others in order) show the translation right where it is made, and the
  invariant carries the object to the VM.

Assumptions: the named `ASSUME`s of the modules, all of them evaluated by TLC
on the instances. Backoff bounds are positive and ordered, as `config` and the
constants of the code have them; the marker for "nothing" is not a value; the
codes by which a call that took effect may be answered (`LostCode`) are errors
of the server or of the connection, no refusals, which is an assumption about
OSAC; `DELETED` is no live status; specs and catalogs have the shape of their
Go types; there are at most `MaxInt32` clusters, since a page's offset is an
`int32`.

Model-checked only: liveness (`LatestDelivered`, `StopsWhenCancelled`,
`ReportsConverge`, `LoopGoesOn`, `LiveStatusConverges`, `GoneStatusConverges`,
`ServingIsRegistered`, `ProcessEnds`, `TokenRecovers`, `RequestsEnd`), because
the prover has no rule for fairness and `ENABLED`, and with it the composition
`StatusReporting`, whose properties are all of that kind. Every invariant and
every action property of the passing runs is proved as well. No module uses
`RECURSIVE`, under which the prover loses its SMT backend: recursion is written
as recursive functions.

## 5. Not modelled

* **Generated code.** Of the repository's roughly 30,500 lines of Go outside
  tests about 27,000 are generated from OpenAPI and protobuf: types, accessors,
  stubs, routing. They hold no decisions of this program, so the map, which
  names only translated code, covers a small share of the whole and most of the
  3,400 lines written by hand.
* **Configuration, the version matrix file, TLS set-up**: read once before
  anything starts; later state does not depend on how.
* **HTTP problem bodies, logging, `apiHandler`'s forwarding, the CloudEvents
  envelope, the registration payload, message texts**: formatting, abstracted to
  the values they carry.
* **Node-set and address echoes of Get and List**: copies of what OSAC says.
* **Token responses without `expires_in`** and clock jumps.
* **Test doubles**, except the mock store that tells how OSAC takes an offset.

## 6. Plan

1. Proofs about the composition: what of `StatusReporting` is safety (what the
   control plane reads was reported by the poller, and a crash loses only what
   was still queued), stated and checked first.
2. An action property of `LatestValueDelivery`: the reader of a key never goes
   back to an older value, whenever the two were recorded in that order; proved
   there, it carries over to the publisher by the refinement.
