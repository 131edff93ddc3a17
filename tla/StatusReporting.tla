--------------------------- MODULE StatusReporting ---------------------------
(***************************************************************************)
(* Status reporting end to end: OSAC, the poller, the publisher and the    *)
(* control plane that consumes the events.  The poller is StatusPoller;    *)
(* the publisher is LatestValueDelivery, which StatusPublisher implements, *)
(* with the fairness its LatestDelivered property gives.                   *)
(*                                                                         *)
(* The control plane (external) drops an event about an instance it has    *)
(* not persisted yet and acknowledges it all the same (DD-074), and the    *)
(* service provider may crash and start again with nothing but its         *)
(* configuration.                                                          *)
(***************************************************************************)
EXTENDS StatusMapping, FiniteSets

CONSTANTS IdOf, RawStatus, ListPageSize, ResyncEvery, NoReport,
          MaxRestarts   \* bound on the crashes of the service provider

ASSUME RestartAssumption == MaxRestarts \in Nat

VARIABLES
    osac, pc, kind, cycle, items, offset, seen, cache, call, cancelled,
    steady, gaps,                 \* the poller's (ctx is never cancelled:
                                    \* a crash covers every way to stop)
    latest, carried, stored, owed,  \* the publisher's
    known,    \* known[r]: the control plane has persisted instance r
    unread,   \* unread[r]: an event about r is not consumed yet
    view,     \* view[r]: the status the control plane shows for r
    restarts  \* how often the service provider has crashed

pollerVars == <<osac, pc, kind, cycle, items, offset, seen, cache, call,
                cancelled, steady, gaps>>
deliveryVars == <<latest, carried, stored, owed>>
consumerVars == <<known, unread, view>>
vars == <<pollerVars, deliveryVars, consumerVars, restarts>>

\* The publisher's key of a resource is (subject, id); the subject is fixed
\* by the kind.
Resource == UNION {{<<k, i>> : i \in IdOf[k]} : k \in {"cluster", "vm"}}

Poller == INSTANCE StatusPoller WITH
    HealthyKind <- {"cluster", "vm"},
    reported <- [k \in {"cluster", "vm"} |->
                    [i \in UNION {IdOf["cluster"], IdOf["vm"]} |->
                        IF <<k, i>> \in Resource THEN latest[<<k, i>>] ELSE NoReport]]

Delivery == INSTANCE LatestValueDelivery WITH
    Key <- Resource, Value <- Poller!Report, NoValue <- NoReport,
    seen <- stored

Init ==
    /\ Delivery!Init
    /\ Poller!Init
    /\ known = [r \in Resource |-> FALSE]
    /\ unread = [r \in Resource |-> FALSE]
    /\ view = [r \in Resource |-> NoReport]
    /\ restarts = 0

-----------------------------------------------------------------------------

OsacStep ==
    /\ UNCHANGED <<deliveryVars, consumerVars, restarts>>
    /\ Poller!OsacStep

PollStep ==
    /\ UNCHANGED <<deliveryVars, consumerVars, restarts>>
    /\ Poller!PollStep

\* The poller's call of Publisher.Publish.
PublishCall ==
    /\ call # NoReport
    /\ Delivery!Record(<<call.kind, call.id>>, call.val)
    /\ Poller!PublishReturns
    /\ UNCHANGED <<consumerVars, restarts>>

PickUp(r) == Delivery!PickUp(r) /\ UNCHANGED <<pollerVars, consumerVars, restarts>>

Lose == Delivery!Lose /\ UNCHANGED <<pollerVars, consumerVars, restarts>>

HandOver(r) ==
    /\ Delivery!HandOver
    /\ \E p \in carried : p.key = r
    /\ unread' = [unread EXCEPT ![r] = TRUE]
    /\ UNCHANGED <<pollerVars, known, view, restarts>>

Settle(r) ==
    /\ owed[r]
    /\ Delivery!Settle(r)
    /\ UNCHANGED <<pollerVars, consumerVars, restarts>>

\* CreateInstance of the control plane persists its row only after it called
\* this service provider, at any time from then on.
PersistInstance(r) ==
    /\ ~known[r]
    /\ known' = [known EXCEPT ![r] = TRUE]
    /\ UNCHANGED <<pollerVars, deliveryVars, unread, view, restarts>>

\* The control plane's consumer: the event is acknowledged either way.
Consume(r) ==
    /\ unread[r]
    /\ unread' = [unread EXCEPT ![r] = FALSE]
    /\ view' = [view EXCEPT ![r] = IF known[r] THEN stored[r] ELSE @]
    /\ UNCHANGED <<pollerVars, deliveryVars, known, restarts>>

\* The process dies and comes back: the poller's cache and cycle and the
\* publisher's queue are gone.  OSAC, the stream and the control plane stay.
Restart ==
    /\ restarts < MaxRestarts
    /\ restarts' = restarts + 1
    /\ kind' = "cluster"
    /\ pc' = "list"
    /\ cycle' = 0
    /\ items' = <<>>
    /\ offset' = 0
    /\ seen' = {}
    /\ cache' = [k \in DOMAIN cache |-> [i \in DOMAIN cache[k] |-> NoReport]]
    /\ call' = NoReport
    /\ steady' = Poller!Present("cluster")
    /\ gaps' = {}
    /\ latest' = [r \in Resource |-> NoReport]
    /\ carried' = {}
    /\ owed' = [r \in Resource |-> FALSE]
    /\ UNCHANGED <<osac, cancelled, stored, consumerVars>>

Next ==
    \/ OsacStep \/ PollStep \/ PublishCall \/ Lose \/ Restart
    \/ \E r \in Resource :
        \/ PickUp(r) \/ HandOver(r) \/ Settle(r)
        \/ PersistInstance(r) \/ Consume(r)

\* The goroutines are scheduled, the control plane consumes and persists, and
\* what is tried again and again succeeds some time: a delivery, and each page
\* of a listing in a resync cycle.  That the resync listings succeed must be
\* assumed: a cycle counts as the resync even if its listing failed, so what
\* the control plane dropped stays lost for another ResyncEvery cycles.
Fairness ==
    /\ WF_vars(PollStep)
    /\ \A k \in {"cluster", "vm"} : \A n \in 0..Cardinality(IdOf[k]) :
        SF_vars(/\ kind = k /\ offset = n /\ Poller!Resync
                /\ UNCHANGED <<deliveryVars, consumerVars, restarts>>
                /\ Poller!ListPage)
    /\ WF_vars(PublishCall)
    /\ \A r \in Resource :
        /\ SF_vars(PickUp(r))
        /\ SF_vars(HandOver(r))
        /\ WF_vars(Settle(r))
        /\ WF_vars(PersistInstance(r))
        /\ WF_vars(Consume(r))

Spec == Init /\ [][Next]_vars /\ Fairness

-----------------------------------------------------------------------------
ViewOf(k) == [i \in IdOf[k] |-> view[<<k, i>>]]

\* DD-074: once OSAC is at rest and cuts no listing short, the control plane
\* ends up showing the status and message of every resource that exists,
\* although it drops events about instances it does not know yet and the
\* service provider may have crashed at any point: the resync repeats what
\* was lost.
LiveStatusConverges ==
    <>[][FALSE]_osac /\ <>[]("cut" \notin gaps) =>
        <>[](\A k \in {"cluster", "vm"} : \A n \in DOMAIN osac[k] :
                ViewOf(k)[osac[k][n].id] = Poller!Reported(k, osac[k][n].raw))

\* REQ-POLL-050: once OSAC is at rest and cuts no listing short, the control
\* plane ends up showing no status, or DELETED, for every resource that does
\* not exist; only if the service provider never crashed, because the cache
\* that tells what is gone is not persisted and DELETED is not repeated by the
\* resync.
GoneStatusConverges ==
    <>[][FALSE]_osac /\ <>[]("cut" \notin gaps) =>
        <>[](restarts > 0 \/
             \A k \in {"cluster", "vm"} : \A i \in IdOf[k] \ Poller!Present(k) :
                ViewOf(k)[i] \in {NoReport, Poller!DeletedReport})
=============================================================================
