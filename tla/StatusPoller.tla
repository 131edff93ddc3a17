----------------------------- MODULE StatusPoller -----------------------------
(***************************************************************************)
(* internal/statuspoll: the loop that lists every cluster and every VM     *)
(* from OSAC page by page, compares each with the last reported (status,   *)
(* message), and calls Publisher.Publish for what is new, changed or gone, *)
(* and for everything on a resync cycle.                                   *)
(*                                                                         *)
(* A List call is one step, and OSAC changes between any two of them: the  *)
(* listing is no snapshot.  OSAC may return fewer items than asked for,    *)
(* none at all, and in no defined order (clusters_service.proto), and what *)
(* it says of Total need not be right.  The cache is only touched by the   *)
(* poll goroutine, so handling one item (cache update and the begin of the *)
(* Publish call) is one step; Publish itself returns in a later one.       *)
(***************************************************************************)
EXTENDS StatusMapping, FiniteSets, SequencesExt

CONSTANTS IdOf,         \* IdOf[kind]: the ids resources of the kind may have
          RawStatus,    \* RawStatus[kind]: what OSAC may say of a resource
          ListPageSize, \* listPageSize
          ResyncEvery,  \* resyncEvery, after New made it positive
          NoReport,     \* nothing cached or reported
          HealthyKind   \* the kinds whose List calls succeed now and then
                        \* (used by the fairness only)

Kind == {"cluster", "vm"}
Id == UNION {IdOf[k] : k \in Kind}

\* The report made up for a resource that is gone from the listing.
DeletedReport == [status |-> "DELETED", message |-> "resource no longer found"]

LiveReport(k) == {Reported(k, raw) : raw \in RawStatus[k]}
Report == (UNION {LiveReport(k) : k \in Kind}) \cup {DeletedReport}

\* A Publish call: the event about one resource.
Call == [kind : Kind, id : Id, val : Report]

ASSUME PagingAssumption == ListPageSize \in Nat \ {0}
ASSUME ResyncAssumption == ResyncEvery \in Nat \ {0}
ASSUME HealthyKindAssumption == HealthyKind \subseteq Kind
ASSUME ReportAssumption ==
    /\ NoReport \notin Report \cup Call
    /\ \A k \in Kind : DeletedReport \notin LiveReport(k)

VARIABLES
    osac,      \* osac[kind]: the resources OSAC holds, in the order it lists
    pc,        \* where the poll goroutine is
    kind,      \* the kind being polled
    cycle,     \* Poller.cycle, modulo ResyncEvery
    items,     \* while listing: the items so far; then: the items to handle
    offset,    \* the offset of the next page
    seen,      \* the ids handled in this listing
    cache,     \* clusterCache and vmCache
    call,      \* the Publish call in progress, or NoReport
    cancelled, \* whether ctx is cancelled
    reported,  \* history: the last value passed to Publish per resource
    steady,    \* history: ids present from the listing's begin to its end
    gaps       \* history: what may have made this listing skip a resource

osacVars == <<osac, steady, gaps>>
pollVars == <<pc, kind, cycle, items, offset, seen, cache, call>>
vars == <<osac, pc, kind, cycle, items, offset, seen, cache, call, cancelled,
          reported, steady, gaps>>

Item(k) == [id : Id, raw : RawStatus[k]]
Present(k) == {osac[k][i].id : i \in DOMAIN osac[k]}

TypeOK ==
    /\ \A k \in Kind : osac[k] \in Seq(Item(k)) /\ IsInjective(osac[k])
    /\ pc \in {"list", "items", "gone", "idle", "done"}
    /\ kind \in Kind
    /\ cycle \in 0..(ResyncEvery - 1)
    /\ items \in Seq(Item(kind))
    /\ offset \in Nat
    /\ seen \in SUBSET Id
    /\ cache \in [Kind -> [Id -> Report \cup {NoReport}]]
    /\ call \in Call \cup {NoReport}
    /\ cancelled \in BOOLEAN
    /\ reported \in [Kind -> [Id -> Report \cup {NoReport}]]
    /\ steady \in SUBSET Id
    /\ gaps \subseteq {"deleted", "moved", "cut"}

Init ==
    /\ osac = [k \in Kind |-> <<>>]
    /\ pc = "list"
    /\ kind = "cluster"
    /\ cycle = 0
    /\ items = <<>>
    /\ offset = 0
    /\ seen = {}
    /\ cache = [k \in Kind |-> [i \in Id |-> NoReport]]
    /\ call = NoReport
    /\ cancelled = FALSE
    /\ reported = [k \in Kind |-> [i \in Id |-> NoReport]]
    /\ steady = {}
    /\ gaps = {}

-----------------------------------------------------------------------------
(* OSAC: its resources come, change and go, and no order is promised.      *)

OsacCreate(k, i, raw) ==
    /\ i \notin Present(k)
    /\ osac' = [osac EXCEPT ![k] = Append(@, [id |-> i, raw |-> raw])]
    /\ UNCHANGED <<pollVars, cancelled, reported, steady, gaps>>

OsacUpdate(k, n, raw) ==
    /\ n \in DOMAIN osac[k]
    /\ osac' = [osac EXCEPT ![k][n].raw = raw]
    /\ UNCHANGED <<pollVars, cancelled, reported, steady, gaps>>

OsacDelete(k, n) ==
    /\ n \in DOMAIN osac[k]
    /\ osac' = [osac EXCEPT ![k] = RemoveAt(@, n)]
    /\ IF pc = "list" /\ k = kind
       THEN /\ steady' = steady \ {osac[k][n].id}
            /\ gaps' = gaps \cup {"deleted"}
       ELSE UNCHANGED <<steady, gaps>>
    /\ UNCHANGED <<pollVars, cancelled, reported>>

\* No order was asked for: two resources change places in the next listing.
OsacReorder(k, m, n) ==
    /\ {m, n} \subseteq DOMAIN osac[k]
    /\ osac' = [osac EXCEPT ![k] = [@ EXCEPT ![m] = osac[k][n], ![n] = osac[k][m]]]
    /\ gaps' = IF pc = "list" /\ k = kind THEN gaps \cup {"moved"} ELSE gaps
    /\ UNCHANGED <<pollVars, cancelled, reported, steady>>

OsacStep == \E k \in Kind :
    \/ \E i \in IdOf[k], raw \in RawStatus[k] : OsacCreate(k, i, raw)
    \/ \E n \in DOMAIN osac[k] :
        \/ OsacDelete(k, n)
        \/ \E raw \in RawStatus[k] : OsacUpdate(k, n, raw)
        \/ \E m \in 1..(n - 1) : OsacReorder(k, m, n)

-----------------------------------------------------------------------------
(* One poll cycle: clusters first, then VMs.                               *)

Resync == cycle % ResyncEvery = 0

\* How many items List may answer with at this moment, and which ones.
PageLength == {n \in 0..ListPageSize : n = 0 \/ offset + n <= Len(osac[kind])}
Page(n) == SubSeq(osac[kind], offset + 1, offset + n)

\* The start of pollClusters or pollVMs.
BeginListing(k) ==
    /\ kind' = k
    /\ pc' = "list"
    /\ items' = <<>>
    /\ offset' = 0
    /\ seen' = {}
    /\ steady' = Present(k)
    /\ gaps' = {}

\* The end of one kind: on to the VMs, or the end of runCycle.
FinishKind ==
    IF kind = "cluster"
    THEN BeginListing("vm") /\ UNCHANGED cycle
    ELSE /\ pc' = "idle"
         /\ cycle' = (cycle + 1) % ResyncEvery
         /\ items' = <<>>
         /\ seen' = {}
         /\ offset' = 0
         /\ steady' = {}
         /\ gaps' = {}
         /\ UNCHANGED kind

\* Mutant of ListPage: only the first page is fetched.
ListFirstPage ==
    /\ pc = "list"
    /\ ~cancelled
    /\ \E n \in PageLength : items' = Page(n)
    /\ pc' = "items"
    /\ UNCHANGED <<osac, kind, cycle, offset, seen, cache, call, cancelled,
                   reported, steady, gaps>>

\* One List call that succeeds, with n items and a Total that is reached by
\* them or not.  The listing ends at an empty page, whatever Total says, and
\* at Total: a cut if OSAC holds more.
ListPage ==
    /\ pc = "list"
    /\ ~cancelled
    /\ \E n \in PageLength, atTotal \in BOOLEAN :
        /\ items' = items \o Page(n)
        /\ IF n = 0 \/ atTotal
           THEN /\ pc' = "items"
                /\ offset' = 0
                /\ gaps' = IF offset + n < Len(osac[kind]) THEN gaps \cup {"cut"}
                                                          ELSE gaps
           ELSE /\ offset' = offset + n
                /\ UNCHANGED <<pc, gaps>>
    /\ UNCHANGED <<osac, kind, cycle, seen, cache, call, cancelled, reported,
                   steady>>

\* Mutant of ListFails: the error is taken for the end of the listing.
ListCutShort ==
    /\ pc = "list"
    /\ pc' = "items"
    /\ offset' = 0
    /\ UNCHANGED <<osac, kind, cycle, items, seen, cache, call, cancelled,
                   reported, steady, gaps>>

\* Mutant of ListFails: the call is repeated at once, whatever the error.
ListRetried ==
    /\ pc = "list"
    /\ UNCHANGED vars

\* One List call that fails, times out, or finds ctx cancelled: the kind is
\* skipped for this cycle, its pages so far are thrown away.
ListFails ==
    /\ pc = "list"
    /\ FinishKind
    /\ UNCHANGED <<osac, cache, call, cancelled, reported>>

\* Mutant of ItemReport: the status is cached and published as OSAC said it.
ItemUnmapped(raw) == raw

\* MapStatus and the message derivation for a listed item.
ItemReport(raw) == Reported(kind, raw)

\* Mutant of NeedsPublish: the resync is ignored.
DiffersFromCache(i, now) == cache[kind][i] # now

\* changed || resync.
NeedsPublish(i, now) == cache[kind][i] # now \/ Resync

\* publishClusterIfNeeded / publishVMIfNeeded for the next listed item.
HandleItem ==
    /\ pc = "items"
    /\ call = NoReport
    /\ items # <<>>
    /\ LET id == Head(items).id
           now == ItemReport(Head(items).raw)
       IN /\ call' = IF NeedsPublish(id, now)
                     THEN [kind |-> kind, id |-> id, val |-> now]
                     ELSE NoReport
          /\ cache' = [cache EXCEPT ![kind][id] = now]
          /\ seen' = seen \cup {id}
    /\ items' = Tail(items)
    /\ UNCHANGED <<osac, pc, kind, cycle, offset, cancelled, reported, steady,
                   gaps>>

ItemsHandled ==
    /\ pc = "items"
    /\ call = NoReport
    /\ items = <<>>
    /\ pc' = "gone"
    /\ UNCHANGED <<osac, kind, cycle, items, offset, seen, cache, call,
                   cancelled, reported, steady,
                   gaps>>

Gone == {i \in Id : cache[kind][i] # NoReport} \ seen

\* Mutants of ReportGone: the id stays on the cache; it is dropped silently.
ReportAndKeep(i) ==
    /\ pc = "gone"
    /\ call = NoReport
    /\ i \in Gone
    /\ call' = [kind |-> kind, id |-> i, val |-> DeletedReport]
    /\ UNCHANGED <<osac, pc, kind, cycle, items, offset, seen, cache,
                   cancelled, reported, steady,
                   gaps>>

DropSilently(i) ==
    /\ pc = "gone"
    /\ call = NoReport
    /\ i \in Gone
    /\ cache' = [cache EXCEPT ![kind][i] = NoReport]
    /\ UNCHANGED <<osac, pc, kind, cycle, items, offset, seen, call,
                   cancelled, reported, steady,
                   gaps>>

\* A cached id that was not listed: DELETED, and off the cache.
ReportGone(i) ==
    /\ pc = "gone"
    /\ call = NoReport
    /\ i \in Gone
    /\ call' = [kind |-> kind, id |-> i, val |-> DeletedReport]
    /\ cache' = [cache EXCEPT ![kind][i] = NoReport]
    /\ UNCHANGED <<osac, pc, kind, cycle, items, offset, seen, cancelled,
                   reported, steady, gaps>>

GoneHandled ==
    /\ pc = "gone"
    /\ call = NoReport
    /\ Gone = {}
    /\ FinishKind
    /\ UNCHANGED <<osac, cache, call, cancelled, reported>>

\* The select at the end of run's loop: the ticker, or ctx.
NextCycle ==
    /\ pc = "idle"
    /\ BeginListing("cluster")
    /\ UNCHANGED <<osac, cycle, cache, call, cancelled, reported>>

Stop ==
    /\ pc = "idle"
    /\ cancelled
    /\ pc' = "done"
    /\ UNCHANGED <<osac, kind, cycle, items, offset, seen, cache, call,
                   cancelled, reported, steady,
                   gaps>>

\* Publisher.Publish takes the value and returns.
PublishReturns ==
    /\ call # NoReport
    /\ reported' = [reported EXCEPT ![call.kind][call.id] = call.val]
    /\ call' = NoReport
    /\ UNCHANGED <<osac, pc, kind, cycle, items, offset, seen, cache,
                   cancelled, steady, gaps>>

Cancel ==
    /\ ~cancelled
    /\ cancelled' = TRUE
    /\ UNCHANGED <<osac, pollVars, reported, steady, gaps>>

PollStep ==
    \/ ListPage \/ ListFails \/ HandleItem \/ ItemsHandled \/ GoneHandled
    \/ NextCycle \/ Stop
    \/ \E i \in Id : ReportGone(i)

Next == OsacStep \/ PollStep \/ PublishReturns \/ Cancel

Spec == Init /\ [][Next]_vars

\* The poll goroutine is scheduled, Publish returns, the ticker ticks; the
\* select takes a cancelled ctx some time; a List call that is made again and
\* again succeeds some time, for each page of a healthy kind.
Fairness ==
    /\ WF_vars(PollStep)
    /\ WF_vars(PublishReturns)
    /\ SF_vars(Stop)
    /\ \A k \in HealthyKind : \A n \in 0..Cardinality(IdOf[k]) :
        SF_vars(kind = k /\ offset = n /\ ListPage)

FairSpec == Spec /\ Fairness

-----------------------------------------------------------------------------
(* Safety.                                                                 *)

\* The value the publisher was last given for a resource, counting the call
\* that is under way.
LastReport(k, i) ==
    IF call # NoReport /\ call.kind = k /\ call.id = i THEN call.val
                                                       ELSE reported[k][i]

\* REQ-POLL-040: the cache is what the publisher was told last, whatever
\* listings failed in between: a resource off the cache was never reported
\* or was reported DELETED, one on the cache needs no report as long as it
\* looks the same.
CacheIsLastReport ==
    \A k \in Kind, i \in Id :
        IF cache[k][i] = NoReport
        THEN LastReport(k, i) \in {NoReport, DeletedReport}
        ELSE LastReport(k, i) = cache[k][i]

\* REQ-POLL-050, AC-POLL-030: DELETED is reported exactly once per
\* disappearance: never for a resource whose last report was DELETED or that
\* was never reported.
DeletedOnce ==
    [][call' # call /\ call' # NoReport =>
        (call'.val = DeletedReport =>
            reported[call'.kind][call'.id] \in LiveReport(call'.kind))]_vars

\* REQ-POLL-020 and 050: "resource no longer found" is only said of a
\* resource that was missing from OSAC at some moment of the listing, if OSAC
\* keeps its order and cuts no listing short.  With more than one page it does
\* not hold: the offset is not stable under deletions.
NoFalseDeletion ==
    call # NoReport /\ call.val = DeletedReport /\ gaps \subseteq {"deleted"} =>
        call.id \notin steady

\* REQ-POLL-020, 050 and 090: a resource that OSAC held all through the
\* listing is called gone for three reasons only: during the listing another
\* one was deleted, or two changed places, or OSAC ended it early with an
\* empty page or too small a Total.  It is never for a List call that failed,
\* after whatever pages had succeeded, nor for a page shorter than asked, nor
\* for what was created or updated meanwhile.
OnlyGapsMislead ==
    call # NoReport /\ call.val = DeletedReport => call.id \notin steady \/ gaps # {}

-----------------------------------------------------------------------------
(* Liveness.                                                               *)

\* The reports of kind k agree with what OSAC holds.
Agrees(k, reports) ==
    /\ \A n \in DOMAIN osac[k] :
        reports[osac[k][n].id] = Reported(k, osac[k][n].raw)
    /\ \A i \in IdOf[k] \ Present(k) : reports[i] \in {NoReport, DeletedReport}

\* REQ-POLL-040, 050, 090: when OSAC comes to rest for a kind whose listing
\* works now and then and is no longer cut short, the reports end up agreeing
\* with OSAC, whatever false deletions were made before, however OSAC sizes
\* the pages, and though the listing of the other kind may fail in every
\* cycle; unless ctx is cancelled.
ReportsConverge ==
    \A k \in HealthyKind :
        <>[][FALSE]_(osac[k]) /\ <>[](kind = k => "cut" \notin gaps) =>
            <>[](cancelled \/ Agrees(k, reported[k]))

\* REQ-POLL-090, 100: the loop never stalls, not even when every List fails,
\* and it ends when ctx is cancelled.
LoopGoesOn == []<>(pc = "idle" \/ cancelled) /\ (cancelled ~> pc = "done")
=============================================================================
