------------------------------ MODULE VMService ------------------------------
(***************************************************************************)
(* internal/vm and its HTTP handlers: create, with the default network     *)
(* behind it, run by any number of concurrent clients against the subnets, *)
(* virtual networks and compute instances that OSAC holds, while VMs are   *)
(* deleted.                                                                *)
(*                                                                         *)
(* The service keeps no state: everything between two RPCs of a request is *)
(* a local variable, and every RPC is one step.  OSAC may refuse a call    *)
(* with any code, and a call whose answer is lost may have taken effect.   *)
(* Delete is a single RPC and so a single step; Get changes nothing.  Only *)
(* networks with the labels of the default network are modelled; nobody    *)
(* deletes them.                                                           *)
(***************************************************************************)
EXTENDS VMTranslate, FiniteSets

CONSTANTS Client,     \* the requests that may run at the same time
          VmId,       \* ids of VMs
          VmSpec,     \* [complete, disks]: what a create may ask for
          MaxNets,    \* bound: how many networks (and subnets) OSAC makes
          PollRounds, \* networkPollTimeout / networkPollInterval
          RpcCode,    \* the codes of failed calls, a cancelled ctx included
          LostCode,   \* those of a call that may have taken effect: its answer
                      \* was lost or OSAC broke down, it did not refuse
          None        \* no object

ASSUME VMAssumption ==
    /\ MaxNets \in Nat \ {0}
    /\ PollRounds \in Nat
    /\ IsFiniteSet(Client)
    /\ \A spec \in VmSpec : spec.complete \in BOOLEAN /\ spec.disks \in Seq(Disk)
    /\ LostCode \subseteq RpcCode
    /\ \A code \in LostCode : Classify(code) \in {500, 502}

NetId == 1..MaxNets

VARIABLES
    vnet,    \* OSAC's virtual networks: "none", "pending" or "ready"
    subnet,  \* OSAC's default subnets: None, or network, state and creator
    vms,     \* OSAC's compute instances: None, or disks, subnet and origin
    pc,      \* per request: "idle", or the RPC that comes next
    id,      \* per request: the VM's id
    obj,     \* per request: spec and disks of the object to create, or None
    net,     \* per request: vnetID
    sub,     \* per request: subnetID
    own,     \* per request: whether it provisioned the subnet itself
    left,    \* per request: polls left before the deadline, 0 if not polling
    answer,  \* per client: the status of its last HTTP answer, or NoAnswer
    lived,   \* history: clients whose VM existed some time during the request
    asked    \* history: what ComputeInstances/Create came to for the request

osacVars == <<vnet, subnet, vms>>
locals == <<id, obj, net, sub, own, left>>
vars == <<vnet, subnet, vms, pc, id, obj, net, sub, own, left, answer, lived,
          asked>>

SubnetRec == [vnet : NetId, ready : BOOLEAN, by : Client]
Sizes == [boot : Int, additional : Seq(Int)]
Object == [spec : VmSpec, disks : Sizes]
VmRec == [obj : Object, subnet : NetId, own : BOOLEAN]

ASSUME NoneAssumption ==
    None \notin SubnetRec /\ None \notin VmRec /\ None \notin Object

Creating == {"list", "createVNet", "pollVNet", "createSubnet", "pollSubnet",
             "createVM", "getExisting"}
NoAnswer == 0
Status == {201, 400, 401, 403, 404, 409, 500, 502}

TypeOK ==
    /\ vnet \in [NetId -> {"none", "pending", "ready"}]
    /\ subnet \in [NetId -> SubnetRec \cup {None}]
    /\ vms \in [VmId -> VmRec \cup {None}]
    /\ pc \in [Client -> Creating \cup {"idle"}]
    /\ id \in [Client -> VmId]
    /\ obj \in [Client -> Object \cup {None}]
    /\ net \in [Client -> NetId]
    /\ sub \in [Client -> NetId]
    /\ own \in [Client -> BOOLEAN]
    /\ left \in [Client -> 0..PollRounds]
    /\ answer \in [Client -> Status \cup {NoAnswer}]
    /\ lived \subseteq Client
    /\ asked \in [Client -> {"no", "exists", "made"}]

Init ==
    /\ vnet = [n \in NetId |-> "none"]
    /\ subnet = [n \in NetId |-> None]
    /\ vms = [i \in VmId |-> None]
    /\ pc = [c \in Client |-> "idle"]
    /\ id \in [Client -> VmId]
    /\ obj = [c \in Client |-> None]
    /\ net = [c \in Client |-> 1]
    /\ sub = [c \in Client |-> 1]
    /\ own = [c \in Client |-> FALSE]
    /\ left = [c \in Client |-> 0]
    /\ answer = [c \in Client |-> NoAnswer]
    /\ lived = {}
    /\ asked = [c \in Client |-> "no"]

-----------------------------------------------------------------------------
(* Helpers.                                                                *)

\* The ids OSAC has not given out yet, in the order it gives them out.
IsNext(n, free) == n \in free /\ \A m \in free : n <= m
FreeVNet == {n \in NetId : vnet[n] = "none"}
FreeSubnet == {n \in NetId : subnet[n] = None}

\* The handler returns; its local variables are gone.
Respond(c, status) ==
    /\ pc' = [pc EXCEPT ![c] = "idle"]
    /\ answer' = [answer EXCEPT ![c] = status]
    /\ obj' = [obj EXCEPT ![c] = None]
    /\ net' = [net EXCEPT ![c] = 1]
    /\ sub' = [sub EXCEPT ![c] = 1]
    /\ own' = [own EXCEPT ![c] = FALSE]
    /\ left' = [left EXCEPT ![c] = 0]
    /\ UNCHANGED id

Goto(c, p) == pc' = [pc EXCEPT ![c] = p] /\ UNCHANGED answer

\* The answer to a call that took effect is lost: its error is the request's.
RespondLost(c) == \E code \in LostCode : Respond(c, Classify(code))

-----------------------------------------------------------------------------
(* Create: validation, translation, the default network, the VM.           *)

\* The request is well formed and its disks translate.
BeginCreate(c, i, spec) ==
    /\ pc[c] = "idle"
    /\ spec.complete
    /\ \E d \in splitDisks(spec.disks) :
        obj' = [obj EXCEPT ![c] = [spec |-> spec, disks |-> d]]
    /\ pc' = [pc EXCEPT ![c] = "list"]
    /\ id' = [id EXCEPT ![c] = i]
    /\ answer' = [answer EXCEPT ![c] = NoAnswer]
    /\ lived' = IF vms[i] # None THEN lived \cup {c} ELSE lived \ {c}
    /\ asked' = [asked EXCEPT ![c] = "no"]
    /\ UNCHANGED <<osacVars, net, sub, own, left>>

\* 400 without any call to OSAC.
RejectCreate(c, spec) ==
    /\ pc[c] = "idle"
    /\ ~spec.complete \/ splitDisks(spec.disks) = {}
    /\ answer' = [answer EXCEPT ![c] = Classify("InvalidArgument")]
    /\ asked' = [asked EXCEPT ![c] = "no"]
    /\ UNCHANGED <<osacVars, pc, locals, lived>>

\* Subnets/List finds default subnets, in whatever state: the first is used.
UseListed(c, n) ==
    /\ pc[c] = "list"
    /\ subnet[n] # None
    /\ sub' = [sub EXCEPT ![c] = n]
    /\ Goto(c, "createVM")
    /\ UNCHANGED <<osacVars, id, obj, net, own, left, lived, asked>>

\* Mutation: only a subnet that is READY counts as the default one.
NoneReadyListed(c) ==
    /\ pc[c] = "list"
    /\ \A n \in NetId : subnet[n] # None => ~subnet[n].ready
    /\ Goto(c, "createVNet")
    /\ UNCHANGED <<osacVars, locals, lived, asked>>

NoneListed(c) ==
    /\ pc[c] = "list"
    /\ \A n \in NetId : subnet[n] = None
    /\ Goto(c, "createVNet")
    /\ UNCHANGED <<osacVars, locals, lived, asked>>

CreateVNet(c, n) ==
    /\ pc[c] = "createVNet"
    /\ IsNext(n, FreeVNet)
    /\ vnet' = [vnet EXCEPT ![n] = "pending"]
    /\ \/ /\ net' = [net EXCEPT ![c] = n]
          /\ left' = [left EXCEPT ![c] = PollRounds]
          /\ Goto(c, "pollVNet")
          /\ UNCHANGED <<id, obj, sub, own>>
       \/ RespondLost(c)
    /\ UNCHANGED <<subnet, vms, lived, asked>>

CreateSubnet(c, n) ==
    /\ pc[c] = "createSubnet"
    /\ IsNext(n, FreeSubnet)
    /\ subnet' = [subnet EXCEPT ![n] = [vnet |-> net[c], ready |-> FALSE, by |-> c]]
    /\ \/ /\ sub' = [sub EXCEPT ![c] = n]
          /\ net' = [net EXCEPT ![c] = 1]   \* dead from here on
          /\ left' = [left EXCEPT ![c] = PollRounds]
          /\ Goto(c, "pollSubnet")
          /\ UNCHANGED <<id, obj, own>>
       \/ RespondLost(c)
    /\ UNCHANGED <<vnet, vms, lived, asked>>

\* Mutation: the deadline is set inside the loop, before each poll.
DeadlineMoves(c) ==
    /\ left' = [left EXCEPT ![c] = IF @ > 0 THEN @ - 1 ELSE PollRounds]
    /\ UNCHANGED <<pc, id, obj, net, sub, own, answer>>

\* Mutation: one more sleep after the deadline.
PollPastDeadline(c) ==
    \/ /\ left[c] >= 0
       /\ left' = [left EXCEPT ![c] = @ - 1]
       /\ UNCHANGED <<pc, id, obj, net, sub, own, answer>>
    \/ /\ left[c] < 0
       /\ Respond(c, Classify("DeadlineExceeded"))

\* pollUntilReady: not ready; sleep an interval, or give up at the deadline.
PollAgain(c) ==
    \/ /\ left[c] > 0
       /\ left' = [left EXCEPT ![c] = @ - 1]
       /\ UNCHANGED <<pc, id, obj, net, sub, own, answer>>
    \/ /\ left[c] = 0
       /\ Respond(c, Classify("DeadlineExceeded"))

\* Mutation: the subnet is created at once, both are polled afterwards.
PollVNetLater(c) ==
    /\ pc[c] = "pollVNet"
    /\ Goto(c, "createSubnet")
    /\ UNCHANGED <<osacVars, locals, lived, asked>>

PollVNet(c) ==
    /\ pc[c] = "pollVNet"
    /\ \/ /\ vnet[net[c]] = "ready"
          /\ left' = [left EXCEPT ![c] = 0]
          /\ Goto(c, "createSubnet")
          /\ UNCHANGED <<id, obj, net, sub, own>>
       \/ /\ vnet[net[c]] # "ready"
          /\ PollAgain(c)
    /\ UNCHANGED <<osacVars, lived, asked>>

PollSubnet(c) ==
    /\ pc[c] = "pollSubnet"
    /\ \/ /\ subnet[sub[c]].ready
          /\ own' = [own EXCEPT ![c] = TRUE]
          /\ left' = [left EXCEPT ![c] = 0]
          /\ Goto(c, "createVM")
          /\ UNCHANGED <<id, obj, net, sub>>
       \/ /\ ~subnet[sub[c]].ready
          /\ PollAgain(c)
    /\ UNCHANGED <<osacVars, lived, asked>>

\* Mutation: a lost answer leads to a Get, as AlreadyExists does.
GetAfterLostAnswer(c) ==
    /\ pc[c] = "createVM"
    /\ vms[id[c]] = None
    /\ vms' = [vms EXCEPT ![id[c]] =
                  [obj |-> obj[c], subnet |-> sub[c], own |-> own[c]]]
    /\ lived' = lived \cup {d \in Client : pc[d] # "idle" /\ id[d] = id[c]}
    /\ asked' = [asked EXCEPT ![c] = "made"]
    /\ \/ Respond(c, 201)
       \/ Goto(c, "getExisting") /\ UNCHANGED locals
    /\ UNCHANGED <<vnet, subnet>>

\* ComputeInstances/Create makes the VM, whether or not the answer arrives.
CreateVM(c) ==
    /\ pc[c] = "createVM"
    /\ vms[id[c]] = None
    /\ vms' = [vms EXCEPT ![id[c]] =
                  [obj |-> obj[c], subnet |-> sub[c], own |-> own[c]]]
    /\ lived' = lived \cup {d \in Client : pc[d] # "idle" /\ id[d] = id[c]}
    /\ asked' = [asked EXCEPT ![c] = "made"]
    /\ Respond(c, 201) \/ RespondLost(c)
    /\ UNCHANGED <<vnet, subnet>>

\* AlreadyExists, for the id or for a name that another VM has: ask for what
\* exists under the id, which is all that is needed from here on.
VMExists(c) ==
    /\ pc[c] = "createVM"
    /\ asked' = [asked EXCEPT ![c] = "exists"]
    /\ sub' = [sub EXCEPT ![c] = 1]
    /\ own' = [own EXCEPT ![c] = FALSE]
    /\ obj' = [obj EXCEPT ![c] = None]
    /\ Goto(c, "getExisting")
    /\ UNCHANGED <<osacVars, id, net, left, lived>>

\* The answer for an existing VM is its state; gone by now, or never there
\* because only the name was taken, it is a 404.
GetExisting(c) ==
    /\ pc[c] = "getExisting"
    /\ Respond(c, IF vms[id[c]] # None THEN 201 ELSE Classify("NotFound"))
    /\ UNCHANGED <<osacVars, lived, asked>>

\* Any call of a create fails without effect, and its code is passed on:
\* AlreadyExists too, which a Create gives for the fixed name of the default
\* virtual network or subnet (only that of the VM is handled, see VMExists).
CallFails(c) ==
    /\ pc[c] # "idle"
    /\ \E code \in RpcCode :
        /\ code = "AlreadyExists" => pc[c] \in {"createVNet", "createSubnet"}
        /\ Respond(c, Classify(code))
    /\ UNCHANGED <<osacVars, lived, asked>>

-----------------------------------------------------------------------------
(* Delete; NotFound counts as success, and is the step that changes nothing. *)

Delete(i) ==
    /\ vms' = [vms EXCEPT ![i] = None]
    /\ UNCHANGED <<vnet, subnet, pc, locals, answer, lived, asked>>

-----------------------------------------------------------------------------
(* OSAC provisions networks in the background, if it ever does.            *)

VNetReady(n) ==
    /\ vnet[n] = "pending"
    /\ vnet' = [vnet EXCEPT ![n] = "ready"]
    /\ UNCHANGED <<subnet, vms, pc, locals, answer, lived, asked>>

SubnetReady(n) ==
    /\ subnet[n] # None
    /\ ~subnet[n].ready
    /\ subnet' = [subnet EXCEPT ![n].ready = TRUE]
    /\ UNCHANGED <<vnet, vms, pc, locals, answer, lived, asked>>

-----------------------------------------------------------------------------

Begin(c) == \E spec \in VmSpec :
    RejectCreate(c, spec) \/ \E i \in VmId : BeginCreate(c, i, spec)

Proceed(c) ==
    \/ \E n \in NetId : UseListed(c, n) \/ CreateVNet(c, n) \/ CreateSubnet(c, n)
    \/ NoneListed(c) \/ PollVNet(c) \/ PollSubnet(c)
    \/ CreateVM(c) \/ VMExists(c) \/ GetExisting(c) \/ CallFails(c)

Next ==
    \/ \E c \in Client : Begin(c) \/ Proceed(c)
    \/ \E i \in VmId : Delete(i)
    \/ \E n \in NetId : VNetReady(n) \/ SubnetReady(n)

Spec == Init /\ [][Next]_vars

\* Every call ends: the server gives each request a deadline.
FairSpec == Spec /\ \A c \in Client : WF_vars(Proceed(c))

-----------------------------------------------------------------------------
(* Properties.                                                             *)

\* However many creates are sent, retried, timed out or lost, OSAC never has
\* more default subnets than requests that ran at the same time: the price
\* of List-then-create without a lock is one subnet per racing request, and
\* a subnet that is not ready yet already stops the provisioning.
SubnetsBoundedByConcurrency ==
    Cardinality({n \in NetId : subnet[n] # None}) <= Cardinality(Client)

\* Every VM is attached to an existing default subnet whose virtual network
\* was seen READY; if its own create provisioned the subnet, that is READY
\* as well (REQ-VMNET-040).  A create that found the subnet in the list may
\* attach to it while it is still pending: pollUntilReady guards only what
\* the request itself created.
AttachedNetworkIsReady ==
    \A i \in VmId : vms[i] # None =>
        LET s == subnet[vms[i].subnet] IN
        /\ s # None
        /\ vnet[s.vnet] = "ready"
        /\ vms[i].own => s.ready

\* What the client of a create is told is so, whatever deletes and other
\* creates of the same VM ran meanwhile: 201 means that the VM was there at
\* some moment of the request; a refusal (4xx) that this request made no VM,
\* not even one that is deleted by now; and 409 is never about the VM
\* (REQ-VMCREATE-070), only about the default network, whose AlreadyExists
\* the code does not handle.
AnswersAreTrue ==
    \A c \in Client :
        /\ answer[c] = 201 => c \in lived
        /\ answer[c] \in {400, 401, 403, 404, 409} => asked[c] # "made"
        /\ answer[c] = 409 => asked[c] # "exists"

\* A capacity in quarters of a MB, and whether a size in GiB is the smallest
\* that covers it.
Exact(cap) == cap.q * (CASE cap.unit = "MB" -> 1
                         [] cap.unit = "GB" -> 1024
                         [] cap.unit = "TB" -> 1024 * 1024)
Covers(size, cap) ==
    Exact(cap) <= MaxInt32 * 4096 =>
        (size - 1) * 4096 < Exact(cap) /\ Exact(cap) <= size * 4096
\* Whether the disks of an object are a translation of its spec's.
Translated(o) ==
    LET disks == o.spec.disks
        got == o.disks
    IN  \E b \in 1..Len(disks) :
            /\ disks[b].name = "boot"
            /\ Covers(got.boot, disks[b].cap)
            /\ Len(got.additional) = Len(disks) - 1
            /\ \A j \in 1..Len(got.additional) :
                Covers(got.additional[j], disks[IF j < b THEN j ELSE j + 1].cap)

\* A VM's disks are the requested ones: each the smallest whole number of
\* GiB that covers the capacity, the boot disk taken out, the others in
\* their order.  Capacities beyond int32 are left out: for those the
\* conversion gives whatever the machine gives.
DisksAsRequested == \A i \in VmId : vms[i] # None => Translated(vms[i].obj)

\* Every request is answered, though a network may stay pending for ever:
\* pollUntilReady gives up at its deadline.
RequestsEnd == \A c \in Client : pc[c] # "idle" ~> pc[c] = "idle"
=============================================================================
