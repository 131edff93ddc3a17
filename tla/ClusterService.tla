---------------------------- MODULE ClusterService ----------------------------
(***************************************************************************)
(* internal/cluster and its HTTP handlers: create, get, delete and list of *)
(* clusters.  The service keeps no state: a request is a few local         *)
(* variables between RPCs, and every RPC is one step.  So one request is   *)
(* modelled at a time, and OSAC changes between any two of its steps as    *)
(* other requests, other clients of OSAC and OSAC itself may change it.    *)
(*                                                                         *)
(* OSAC (external) keeps clusters with unique ids and unique names, reports *)
(* their state, and keeps the kubeconfig secret a ready cluster refers to. *)
(* A call that fails with a code by which its answer may have been lost     *)
(* may have taken effect; one that OSAC refuses has not.                   *)
(***************************************************************************)
EXTENDS ClusterTranslate, Functions

CONSTANTS
    MaxClusters,  \* bound: ids are 1 .. MaxClusters, and so they are listed
    Name,         \* cluster names
    CreateSpec,   \* what a create may ask for
    NodeSets,     \* what a template's node sets may be; {} if it is unknown
    Catalogs,     \* what ClusterVersions/List may answer
    OsacState,    \* the states OSAC may report
    OsacPages,    \* how many items OSAC puts at most on the page at an offset
    PageSizes,    \* max_page_size values to list with
    RpcCode,      \* codes of failed calls, a cancelled ctx included
    LostCode      \* the ones that do not tell whether the call took effect

ClusterId == 1 .. MaxClusters

\* An item of the version catalog; names are numbers, 0 is the empty one.
Version == [minor : Int, patch : Nat, name : Nat, semver : BOOLEAN]

ASSUME ClusterAssumption ==
    /\ MaxClusters \in 1 .. MaxInt32
    /\ \A spec \in CreateSpec : spec.name \in Name /\ spec.count \in Int
    /\ Catalogs \subseteq Seq(Version)
    /\ OsacState \subseteq ClusterState
    /\ OsacPages \subseteq [0 .. MaxClusters -> Nat]
    /\ PageSizes \subseteq Int \cup {None}
    /\ LostCode \subseteq RpcCode
    /\ \A code \in LostCode : classifyError(code) \in {500, 502}
    /\ None \notin Name \cup Int \cup Version \cup [decimal : Nat]

VARIABLES
    store,    \* OSAC's clusters by id: None, or a record
    pc,       \* "idle", or the RPC that comes next
    request,  \* the request's operation, id and spec
    key,      \* Create's nodeSetKey
    catalog,  \* history: the catalog that resolveVersion was given
    version,  \* Create's versionRef
    answer,   \* the last answer: status, kubeconfig, and history: after which
              \* RPC it was given
    saw       \* history: what was true at some moment of the request

locals == <<key, catalog, version>>
vars == <<store, pc, request, key, catalog, version, answer, saw>>

\* kubeconfig: what Status.kubeconfig_secret leads to.
Kubeconfig == {"no reference", "no secret", "empty", "data"}
Answer(status, kubeconfig, after) ==
    [status |-> status, kubeconfig |-> kubeconfig, after |-> after]
NoAnswer == Answer(0, "omitted", "none")
NoRequest == [op |-> "none", id |-> 1, spec |-> None]

Taken(st, n) == \E i \in ClusterId : st[i] # None /\ st[i].name = n
Active(c) == ClusterMapStatus("OK", c.state, <<>>) = "ACTIVE"

\* The facts a request's answer may rest on.
Facts(st, r) ==
    LET c == st[r.id] IN
    CASE r.op = "create" ->
            {IF c # None THEN "there" ELSE "absent"}
              \cup (IF Taken(st, r.spec.name) THEN {"taken"} ELSE {})
      [] r.op = "get" ->
            IF c = None THEN {"absent"}
            ELSE {IF Active(c) THEN "active" ELSE "inactive"}
                   \cup (IF c.kubeconfig = "data" THEN {"data"} ELSE {})
      [] OTHER -> {}

Init ==
    /\ store = [i \in ClusterId |-> None]
    /\ pc = "idle"
    /\ request = NoRequest
    /\ key = None
    /\ catalog = <<>>
    /\ version = None
    /\ answer = NoAnswer
    /\ saw = {}

-----------------------------------------------------------------------------

\* The handler returns; its local variables are gone.
Respond(status, kubeconfig) ==
    /\ pc' = "idle"
    /\ answer' = Answer(status, kubeconfig, pc)
    /\ key' = None
    /\ catalog' = <<>>
    /\ version' = None
    /\ UNCHANGED request

Fail(code) == Respond(classifyError(code), "omitted")

Begin(op, i, spec, first) ==
    /\ pc = "idle"
    /\ pc' = first
    /\ request' = [op |-> op, id |-> i, spec |-> spec]
    /\ answer' = NoAnswer
    /\ saw' = Facts(store, request')
    /\ UNCHANGED <<store, locals>>

\* What a call that reads may fail with: what the service passes on as it is.
\* Whether a template, a cluster or a secret is found is decided by NodeSets and
\* the store, in the actions below; nothing decides it for the version catalog,
\* whose NotFound is passed on too. A read conflicts with nothing.
ReadError(call) ==
    RpcCode \ (IF call = "versions" THEN {"AlreadyExists"}
                                   ELSE {"AlreadyExists", "NotFound"})

\* An RPC that reads fails.
CallFails ==
    /\ pc \in {"template", "versions", "existing", "get", "secret"}
    /\ \E code \in ReadError(pc) : Fail(code)
    /\ UNCHANGED <<store, saw>>

-----------------------------------------------------------------------------
(* CreateCluster and Service.Create *)

BeginCreate(i, spec) ==
    /\ validateCreateRequest(spec)
    /\ Begin("create", i, spec, "template")

\* 400 without any call to OSAC.
RejectCreate(i, spec) ==
    /\ pc = "idle"
    /\ ~validateCreateRequest(spec)
    /\ request' = [op |-> "create", id |-> i, spec |-> spec]
    /\ answer' = Answer(400, "omitted", "none")
    /\ saw' = Facts(store, request')
    /\ UNCHANGED <<store, pc, locals>>

\* Mutation: any of several node sets will do, or none at all.
GetAnyTemplate ==
    /\ pc = "template"
    /\ \E nodeSets \in NodeSets : key' \in nodeSets \cup {None}
    /\ pc' = "versions"
    /\ UNCHANGED <<store, request, catalog, version, answer, saw>>

\* ClusterTemplates/Get; without a single node set the request is at fault.
GetTemplate ==
    /\ pc = "template"
    /\ \E nodeSets \in NodeSets :
        IF resolveNodeSetKey(nodeSets) = None
        THEN Fail("InvalidArgument")
        ELSE /\ key' = resolveNodeSetKey(nodeSets)
             /\ pc' = "versions"
             /\ UNCHANGED <<request, catalog, version, answer>>
    /\ UNCHANGED <<store, saw>>

\* ClusterVersions/List.
ListVersions ==
    /\ pc = "versions"
    /\ \E cat \in Catalogs :
        LET v == resolveVersion(cat, request.spec.version) IN
        IF v = None
        THEN Fail("InvalidArgument")
        ELSE /\ catalog' = cat
             /\ version' = v
             /\ pc' = "create"
             /\ UNCHANGED <<request, key, answer>>
    /\ UNCHANGED <<store, saw>>

Object == toOSACCluster(request.id, request.spec, key, version)
Free == store[request.id] = None /\ ~Taken(store, request.spec.name)
Created ==
    [store EXCEPT ![request.id] =
        [name |-> Object.name, labels |-> Object.labels, ours |-> TRUE,
         state |-> "UNSPECIFIED", kubeconfig |-> "no reference"]]

\* Clusters/Create succeeds.
CreateCluster ==
    /\ pc = "create"
    /\ Free
    /\ store' = Created
    /\ saw' = saw \cup Facts(store', request) \cup {"made"}
    /\ Respond(201, "omitted")

\* Mutation: AlreadyExists is taken for a retry without a look.
ConflictMeansCreated ==
    /\ pc = "create"
    /\ ~Free
    /\ Respond(201, "omitted")
    /\ UNCHANGED <<store, saw>>

\* Clusters/Create answers AlreadyExists, for the id or for the name.
AlreadyExists ==
    /\ pc = "create"
    /\ ~Free
    /\ pc' = "existing"
    /\ UNCHANGED <<store, request, locals, answer, saw>>

\* Clusters/Create fails otherwise, and the code is passed on: OSAC refuses the
\* object, or does not find what it refers to, or the answer is lost.
CreateFails ==
    /\ pc = "create"
    /\ \/ /\ \E code \in RpcCode \ {"AlreadyExists"} : Fail(code)
          /\ UNCHANGED <<store, saw>>
       \/ /\ Free
          /\ store' = Created
          /\ saw' = saw \cup Facts(store', request) \cup {"made"}
          /\ \E code \in LostCode : Fail(code)

\* Clusters/Get for the id that exists already: its answer is Create's; if
\* there is no such cluster (any more), the conflict is.
GetExisting ==
    /\ pc = "existing"
    /\ IF store[request.id] # None THEN Respond(201, "omitted") ELSE Fail("AlreadyExists")
    /\ UNCHANGED <<store, saw>>

-----------------------------------------------------------------------------
(* GetCluster and DeleteCluster *)

BeginGet(i) == Begin("get", i, None, "get")

\* Clusters/Get. Only an ACTIVE cluster has a kubeconfig.
GetCluster ==
    /\ pc = "get"
    /\ LET c == store[request.id] IN
        \/ c = None /\ Fail("NotFound")
        \/ c # None /\ ~Active(c) /\ Respond(200, "empty")
        \/ c # None /\ Active(c) /\ c.kubeconfig = "no reference" /\ Fail("Internal")
        \/ /\ c # None /\ Active(c) /\ c.kubeconfig # "no reference"
           /\ pc' = "secret"
           /\ UNCHANGED <<request, locals, answer>>
    /\ UNCHANGED <<store, saw>>

\* What Secrets/Get finds now; a secret goes with its cluster.
Secret == IF store[request.id] = None THEN "no secret" ELSE store[request.id].kubeconfig

\* Mutation: a secret that is missing is answered like a missing cluster.
GetSecretOr404 ==
    /\ pc = "secret"
    /\ \/ Secret = "data" /\ Respond(200, "data")
       \/ Secret = "empty" /\ Fail("Internal")
       \/ Secret \notin {"data", "empty"} /\ Fail("NotFound")
    /\ UNCHANGED <<store, saw>>

\* Secrets/Get. Without data the server is at fault, not the request.
GetSecret ==
    /\ pc = "secret"
    /\ \/ Secret = "data" /\ Respond(200, "data")
       \/ Secret # "data" /\ Fail("Internal")
    /\ UNCHANGED <<store, saw>>

\* Clusters/Delete is the whole request; NotFound is a success.
DeleteCluster(i) ==
    /\ pc = "idle"
    /\ request' = [op |-> "delete", id |-> i, spec |-> None]
    /\ saw' = {}
    /\ \/ /\ store' = [store EXCEPT ![i] = None]
          /\ answer' = Answer(204, "omitted", "none")
       \/ /\ UNCHANGED store
          /\ \E code \in RpcCode \ {"NotFound", "AlreadyExists"} :
               answer' = Answer(classifyError(code), "omitted", "none")
       \/ /\ store' = [store EXCEPT ![i] = None]
          /\ \E code \in LostCode :
               answer' = Answer(classifyError(code), "omitted", "none")
    /\ UNCHANGED <<pc, locals>>

-----------------------------------------------------------------------------
(* ListClusters *)

\* A set of ids in the order in which OSAC lists them.
InOrder(ids) ==
    LET upTo[n \in 0 .. MaxClusters] ==
            IF n = 0 THEN <<>>
            ELSE IF n \in ids THEN Append(upTo[n - 1], n) ELSE upTo[n - 1]
    IN upTo[MaxClusters]

\* What OSAC has that matches the filter. Its answer is cut from it at the
\* offset: no more than the limit, and no more than OSAC puts on that page,
\* which may be nothing at all; its Total is how many there are.
Matching(st) ==
    InOrder({i \in ClusterId : st[i] # None /\ ownershipFilter(st[i].labels)})

Smaller(m, n) == IF m < n THEN m ELSE n

\* The items of OSAC's answer.
OsacPage(st, limit, offset, most) ==
    LET all == Matching(st) IN
    SubSeq(all, offset + 1,
           Smaller(offset + Smaller(limit, most[offset]), Len(all)))

\* Mutation: a token is given as long as Total says that there is more.
ListToTotal(st, size, offset, most) ==
    LET limit == NormalizeMaxPageSize(size)
        items == OsacPage(st, limit, offset, most)
        next == nextOffset(offset, limit, Len(items))
    IN [items |-> items,
        token |-> IF next < Len(Matching(st)) THEN encodePageToken(next) ELSE None]

\* Service.List: the page for a max_page_size and an offset, and the token of
\* the next page, or None. An empty page has none, whatever Total says.
List(st, size, offset, most) ==
    LET limit == NormalizeMaxPageSize(size)
        items == OsacPage(st, limit, offset, most)
        next == nextOffset(offset, limit, Len(items))
    IN [items |-> items,
        token |-> IF items # <<>> /\ next < Len(Matching(st))
                  THEN encodePageToken(next) ELSE None]

-----------------------------------------------------------------------------
(* OSAC on its own, and its other clients *)

Changes(st) ==
    /\ store' = st
    /\ saw' = IF pc = "idle" THEN saw ELSE saw \cup Facts(st, request)
    /\ UNCHANGED <<pc, request, locals, answer>>

\* The state of a cluster and what its kubeconfig secret holds change; a
\* reference to the secret, once made, stays.
OsacReports(i, state, kubeconfig) ==
    /\ store[i] # None
    /\ kubeconfig = "no reference" => store[i].kubeconfig = "no reference"
    /\ Changes([store EXCEPT ![i].state = state, ![i].kubeconfig = kubeconfig])

\* Somebody else creates a cluster, without this provider's labels.
OthersCreate(i, n) ==
    /\ store[i] = None
    /\ ~Taken(store, n)
    /\ Changes([store EXCEPT ![i] =
            [name |-> n, labels |-> <<>>, ours |-> FALSE,
             state |-> "UNSPECIFIED", kubeconfig |-> "no reference"]])

OthersDelete(i) ==
    /\ store[i] # None
    /\ Changes([store EXCEPT ![i] = None])

-----------------------------------------------------------------------------

Next ==
    \/ \E i \in ClusterId :
        \/ \E spec \in CreateSpec : BeginCreate(i, spec) \/ RejectCreate(i, spec)
        \/ BeginGet(i) \/ DeleteCluster(i) \/ OthersDelete(i)
        \/ \E n \in Name : OthersCreate(i, n)
        \/ \E s \in OsacState, k \in Kubeconfig : OsacReports(i, s, k)
    \/ GetTemplate \/ ListVersions \/ CreateCluster \/ AlreadyExists
    \/ CreateFails \/ GetExisting \/ GetCluster \/ GetSecret \/ CallFails

Spec == Init /\ [][Next]_vars

-----------------------------------------------------------------------------

\* Every variable has its type, and no RPC is made before the ones whose
\* answers it is built from have answered.
TypeOK ==
    /\ \A i \in ClusterId :
        store[i] # None =>
            /\ store[i].name \in Name
            /\ store[i].ours \in BOOLEAN
            /\ store[i].state \in OsacState \cup {"UNSPECIFIED"}
            /\ store[i].kubeconfig \in Kubeconfig
    /\ pc \in {"idle", "template", "versions", "create", "existing", "get", "secret"}
    /\ pc \in {"versions", "create", "existing"} => key \in UNION NodeSets
    /\ pc \in {"create", "existing"} => version \in Range(catalog)
    /\ request \in [op : {"none", "create", "get", "delete"}, id : ClusterId,
                    spec : CreateSpec \cup {None}]
    /\ saw \subseteq {"there", "taken", "made", "absent", "inactive", "active", "data"}

\* REQ-CREATE-040/100, DD-100: 201 is answered only if this request has made
\* the cluster or one with its id was there during the request. 409 is answered
\* only after the look at the existing cluster, and only if the id or the name
\* was taken and the id was absent at some moment: a retry for a cluster that
\* stays where it is never gets it. 404 is only what OSAC answered to the version
\* catalog or to the creation itself: neither a missing template nor a cluster
\* that vanished shows as 404. And by any refusal (4xx) this request has left
\* nothing behind in OSAC.
CreateAnswersAreTrue ==
    request.op = "create" =>
        /\ answer.status = 201 => saw \cap {"made", "there"} # {}
        /\ answer.status = 409 =>
            /\ answer.after = "existing"
            /\ saw \cap {"there", "taken"} # {}
            /\ "absent" \in saw
        /\ answer.status = 404 => answer.after \in {"versions", "create"}
        /\ answer.status \in {400, 401, 403, 404, 409} => "made" \notin saw

\* What REQ-CREATE-040 and section 4.6 of the M3 specification say of Create's
\* AlreadyExists: it is never surfaced to the caller as an error, never as 409.
\* The code passes it on when the Get that follows finds no cluster with the id:
\* when the name is taken, and when the cluster is deleted in between.
ConflictNeverSurfaces == request.op = "create" => answer.status # 409

\* REQ-GET-020/030: 404 is answered only if the cluster was missing, whatever
\* happened to its secret between the two calls; a kubeconfig only if the
\* cluster was ACTIVE and the secret had data; an empty one only if the
\* cluster was not ACTIVE.
GetAnswersAreTrue ==
    request.op = "get" =>
        /\ answer.status = 404 => "absent" \in saw
        /\ answer.kubeconfig = "data" => {"active", "data"} \subseteq saw
        /\ answer.kubeconfig = "empty" => "inactive" \in saw
        /\ answer.status = 200 => answer.kubeconfig # "omitted"

\* The candidates that resolveVersion may choose from, and the best of them.
Candidates(minor) == {v \in Range(catalog) : Eligible(v, minor)}
IsNewest(v, minor) ==
    /\ v \in Candidates(minor)
    /\ \A w \in Candidates(minor) :
        w.patch < v.patch \/ (w.patch = v.patch /\ w.name >= v.name)

\* REQ-CREATE-020/025/030/080: what is sent to OSAC has the newest version of
\* the catalog that was listed, exactly as many nodes as were asked for, and
\* labels by which the listing and the owner find it, whatever labels the
\* caller chose.
CreatedAsRequested ==
    pc = "create" =>
        /\ IsNewest(Object.version, request.spec.version)
        /\ \A k \in DOMAIN Object.nodeSets : Object.nodeSets[k] = request.spec.count
        /\ Object.labels["managed-by"] = "dcm"
        /\ Object.labels["instance-id"] = request.id

\* What a caller has who follows the page tokens for MaxClusters requests: all
\* the items, and the last token. A first request has no token: its offset is 0.
Collected(size, most) ==
    LET walk[n \in 0 .. MaxClusters] ==
            IF n = 0 THEN [items |-> <<>>, token |-> encodePageToken(0)]
            ELSE LET sofar == walk[n - 1] IN
                 IF sofar.token = None THEN sofar
                 ELSE LET page == List(store, size, decodePageToken(sofar.token), most)
                      IN [items |-> sofar.items \o page.items, token |-> page.token]
    IN walk[MaxClusters]

Own == InOrder({i \in ClusterId : store[i] # None /\ store[i].ours})

\* REQ-LIST-010/020/040: whatever the page size asked for and however few items
\* OSAC puts on a page, none included, following the tokens ends, after as many
\* requests as there are clusters at the latest, and what it yields are the first
\* clusters this provider made and that still exist, each once and no other; all
\* of them if no page is empty.
ListingIsComplete ==
    \A size \in PageSizes, most \in OsacPages :
        NormalizeMaxPageSize(size) # None =>
            LET got == Collected(size, most) IN
            /\ got.token = None
            /\ \E n \in 0 .. Len(Own) : got.items = SubSeq(Own, 1, n)
            /\ (\A offset \in DOMAIN most : most[offset] > 0) => got.items = Own

=============================================================================
