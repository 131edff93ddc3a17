--------------------------- MODULE VMServiceProofs ---------------------------
(***************************************************************************)
(* For any number of clients, VMs, networks and polls: the VM service is   *)
(* type correct, racing creates leave at most one default subnet each,     *)
(* every VM is attached to a provisioned network and has the disks it was  *)
(* asked for, and the answers are true.  None of the last four is          *)
(* inductive: IInv adds what a create knows at the point it has reached.   *)
(***************************************************************************)
EXTENDS VMService, FiniteSetTheorems, SequenceTheorems, TLAPS

Listed == {n \in NetId : subnet[n] # None}

\* Subnets are created by different clients, and a client that is about to
\* create one has created none: it found the list empty.
OneSubnetPerClient ==
    /\ \A m, n \in Listed : subnet[m].by = subnet[n].by => m = n
    /\ \A c \in Client : pc[c] \in {"createVNet", "pollVNet", "createSubnet"} =>
           \A n \in Listed : subnet[n].by # c

\* What the network resources are at each point of a create.
NetworkProgress ==
    /\ \A n \in Listed : vnet[subnet[n].vnet] = "ready"
    /\ \A c \in Client :
        /\ pc[c] = "createSubnet" => vnet[net[c]] = "ready"
        /\ pc[c] \in {"pollSubnet", "createVM"} => sub[c] \in Listed
        /\ own[c] => pc[c] = "createVM" /\ subnet[sub[c]].ready

\* What a create knows of its VM: the object to send, whether it exists, and
\* that a request still under way has made none.
RequestProgress ==
    \A c \in Client :
        /\ pc[c] \in Creating \ {"getExisting"} => obj[c] # None /\ asked[c] = "no"
        /\ pc[c] # "idle" /\ vms[id[c]] # None => c \in lived
        /\ pc[c] = "getExisting" => asked[c] = "exists"
        /\ pc[c] # "idle" => answer[c] = NoAnswer

\* What a create is about to send has the disks it was asked for.
ObjectsTranslated == \A c \in Client : obj[c] # None => Translated(obj[c])

IInv ==
    /\ TypeOK
    /\ OneSubnetPerClient
    /\ NetworkProgress
    /\ RequestProgress
    /\ AttachedNetworkIsReady
    /\ AnswersAreTrue
    /\ ObjectsTranslated
    /\ DisksAsRequested

-----------------------------------------------------------------------------

\* A capacity becomes int32 values only.
LEMMA CapacityType ==
    ASSUME NEW cap \in [q : Int, unit : Unit]
    PROVE  ParseDiskCapacityGiB(cap) \subseteq Int
<1>1. cap.q \in Int /\ MaxInt32 \in Int
  BY MaxInt32Assumption
<1>2. ASSUME NEW n \in Int
      PROVE  ToInt32(n) \subseteq Int
  BY <1>1 DEF ToInt32
<1>3. CeilDiv(cap.q, 4) \in Int /\ CeilDiv(cap.q, 4096) \in Int /\ cap.q * 256 \in Int
  BY <1>1 DEF CeilDiv
<1>4. cap.unit \in {"MB", "GB", "TB", "other"}
  BY DEF Unit
<1>5. QED
  BY <1>2, <1>3, <1>4 DEF ParseDiskCapacityGiB

\* The translation of disks yields sizes, always of their type.
LEMMA SplitType ==
    ASSUME NEW disks \in Seq(Disk),
           NEW d \in splitDisks(disks)
    PROVE  d \in Sizes
<1>1. PICK b \in BootPositions(disks), f \in ParsedSizes(disks) : d = BootFrom(f, b)
  BY DEF splitDisks
<1>2. \A i \in 1..Len(disks) : ParseDiskCapacityGiB(disks[i].cap) \subseteq Int
  <2> TAKE i \in 1..Len(disks)
  <2>1. disks[i] \in Disk
    OBVIOUS
  <2>2. disks[i].cap \in [q : Int, unit : Unit]
    BY <2>1 DEF Disk
  <2>3. QED
    BY <2>2, CapacityType
<1>3. f \in [1..Len(disks) -> Int]
  BY <1>2 DEF ParsedSizes
<1>4. f \in Seq(Int) /\ Len(f) = Len(disks) /\ b \in 1..Len(disks)
  BY <1>3 DEF BootPositions
<1>5. f[b] \in Int
  BY <1>3, <1>4
<1>6. SubSeq(f, 1, b - 1) \in Seq(Int) /\ SubSeq(f, b + 1, Len(f)) \in Seq(Int)
  BY <1>4
<1>7. SubSeq(f, 1, b - 1) \o SubSeq(f, b + 1, Len(f)) \in Seq(Int)
  BY <1>6
<1>8. QED
  BY <1>1, <1>5, <1>7 DEF Sizes, BootFrom

\* A capacity within int32 becomes the smallest number of GiB that covers it.
LEMMA CapacityCovered ==
    ASSUME NEW cap \in [q : Int, unit : Unit], NEW size \in ParseDiskCapacityGiB(cap)
    PROVE  Covers(size, cap)
<1> SUFFICES ASSUME Exact(cap) <= MaxInt32 * 4096
             PROVE  (size - 1) * 4096 < Exact(cap) /\ Exact(cap) <= size * 4096
  BY DEF Covers
<1>1. cap.q \in Int /\ MaxInt32 \in Int /\ cap.q > 0 /\ cap.unit \in {"MB", "GB", "TB"}
  BY MaxInt32Assumption DEF ParseDiskCapacityGiB, Unit
<1>2. PICK q \in Int : q = cap.q
  BY <1>1
<1>3. ASSUME NEW n \in Int, n <= MaxInt32, size \in ToInt32(n)
      PROVE  size = n
  BY <1>1, <1>3 DEF ToInt32
<1>4. CASE cap.unit = "MB"
  <2>1. Exact(cap) = q /\ size \in ToInt32(CeilDiv(q, 4096))
    BY <1>1, <1>2, <1>4 DEF Exact, ParseDiskCapacityGiB
  <2>2. PICK n \in Int : n = CeilDiv(q, 4096)
    BY DEF CeilDiv
  <2>3. (n - 1) * 4096 < q /\ q <= n * 4096
    BY <2>2 DEF CeilDiv
  <2>4. n <= MaxInt32
    BY <1>1, <2>1, <2>3
  <2>5. QED
    BY <1>3, <2>1, <2>2, <2>3, <2>4
<1>5. CASE cap.unit = "GB"
  <2>1. Exact(cap) = q * 1024 /\ size \in ToInt32(CeilDiv(q, 4))
    BY <1>1, <1>2, <1>5 DEF Exact, ParseDiskCapacityGiB
  <2>2. PICK n \in Int : n = CeilDiv(q, 4)
    BY DEF CeilDiv
  <2>3. (n - 1) * 4 < q /\ q <= n * 4
    BY <2>2 DEF CeilDiv
  <2>4. n <= MaxInt32
    BY <1>1, <2>1, <2>3
  <2>5. QED
    BY <1>3, <2>1, <2>2, <2>3, <2>4
<1>6. CASE cap.unit = "TB"
  <2>1. Exact(cap) = q * 1048576 /\ size \in ToInt32(q * 256)
    BY <1>1, <1>2, <1>6 DEF Exact, ParseDiskCapacityGiB
  <2>2. q * 256 <= MaxInt32
    BY <1>1, <2>1
  <2>3. size = q * 256
    BY <1>3, <2>1, <2>2
  <2>4. QED
    BY <2>1, <2>3
<1>7. QED
  BY <1>1, <1>4, <1>5, <1>6

\* splitDisks takes one boot disk out and keeps the others in their order.
LEMMA SplitTranslates ==
    ASSUME NEW spec \in VmSpec, NEW d \in splitDisks(spec.disks)
    PROVE  Translated([spec |-> spec, disks |-> d])
<1> DEFINE disks == spec.disks
<1>0. disks \in Seq(Disk)
  BY VMAssumption
<1> HIDE DEF disks
<1>1. PICK b \in BootPositions(disks), f \in ParsedSizes(disks) : d = BootFrom(f, b)
  BY DEF splitDisks, disks
<1>2. b \in 1..Len(disks) /\ disks[b].name = "boot"
  BY DEF BootPositions
<1>3. \A i \in 1..Len(disks) : disks[i].cap \in [q : Int, unit : Unit]
  <2> TAKE i \in 1..Len(disks)
  <2>1. disks[i] \in Disk
    BY <1>0
  <2>2. QED
    BY <2>1 DEF Disk
<1>4. \A i \in 1..Len(disks) :
        f[i] \in ParseDiskCapacityGiB(disks[i].cap) /\ f[i] \in Int
  BY <1>3, CapacityType DEF ParsedSizes
<1>5. f \in Seq(Int) /\ Len(f) = Len(disks) /\ Len(disks) \in Nat
  <2>1. f \in [1..Len(disks) -> Int] /\ Len(disks) \in Nat
    BY <1>0, <1>4 DEF ParsedSizes
  <2>2. QED
    BY <2>1
<1>6. \A i \in 1..Len(disks) : Covers(f[i], disks[i].cap)
  BY <1>3, <1>4, CapacityCovered
<1>7. PICK before : before = SubSeq(f, 1, b - 1)
  OBVIOUS
<1>8. PICK after : after = SubSeq(f, b + 1, Len(f))
  OBVIOUS
<1>9. /\ before \in Seq(Int) /\ Len(before) = b - 1
      /\ \A j \in 1..b - 1 : before[j] = f[j]
  BY <1>2, <1>5, <1>7
<1>10. /\ after \in Seq(Int) /\ Len(after) = Len(disks) - b
       /\ \A j \in 1..Len(disks) - b : after[j] = f[b + j]
  BY <1>2, <1>5, <1>8
<1>11. d.boot = f[b] /\ d.additional = before \o after
  BY <1>1, <1>7, <1>8 DEF BootFrom
<1>12. Len(d.additional) = Len(disks) - 1
  BY <1>2, <1>5, <1>9, <1>10, <1>11
<1>13. ASSUME NEW j \in 1..Len(disks) - 1
       PROVE  /\ d.additional[j] = f[IF j < b THEN j ELSE j + 1]
              /\ (IF j < b THEN j ELSE j + 1) \in 1..Len(disks)
  <2>0. (before \o after)[j] = IF j <= Len(before) THEN before[j]
                                                  ELSE after[j - Len(before)]
    <3>1. j \in 1..Len(before) + Len(after)
      BY <1>2, <1>5, <1>9, <1>10
    <3>2. QED
      BY <1>9, <1>10, <3>1, ConcatProperties
  <2>1. CASE j < b
    <3>1. j \in 1..b - 1 /\ j <= Len(before) /\ j \in 1..Len(disks)
      BY <1>2, <1>5, <1>9, <2>1
    <3>2. QED
      BY <1>9, <1>11, <2>0, <2>1, <3>1
  <2>2. CASE ~(j < b)
    <3>1. /\ j \in b..Len(disks) - 1 /\ j - (b - 1) \in 1..Len(disks) - b
          /\ b + (j - (b - 1)) = j + 1
      BY <1>2, <1>5, <2>2
    <3>2. d.additional[j] = after[j - (b - 1)]
      BY <1>2, <1>5, <1>9, <1>11, <2>0, <3>1
    <3>3. QED
      BY <1>2, <1>5, <1>10, <2>2, <3>1, <3>2
  <2>3. QED
    BY <2>1, <2>2
<1>14. QED
  BY <1>2, <1>6, <1>11, <1>12, <1>13 DEF Translated, disks

\* What BeginCreate keeps to send is an object.
LEMMA ObjectType ==
    ASSUME NEW spec \in VmSpec, NEW d \in splitDisks(spec.disks)
    PROVE  [spec |-> spec, disks |-> d] \in Object
<1>1. spec.disks \in Seq(Disk)
  BY VMAssumption
<1>2. d \in Sizes
  BY <1>1, SplitType
<1>3. QED
  BY <1>2 DEF Object

\* No error is classified as a success, only AlreadyExists as a conflict, and
\* a lost answer as no refusal.
LEMMA ErrorStatus ==
    ASSUME NEW code
    PROVE  /\ Classify(code) \in Status \ {201}
           /\ Classify(code) = 409 => code = "AlreadyExists"
           /\ code \in LostCode => Classify(code) \in {500, 502}
<1>1. /\ Classify(code) \in Status \ {201}
      /\ Classify(code) = 409 => code = "AlreadyExists"
  BY DEF Classify, Status
<1>2. QED
  BY <1>1, VMAssumption

LEMMA FixedStatus ==
    /\ Classify("InvalidArgument") = 400
    /\ Classify("NotFound") = 404
    /\ Classify("DeadlineExceeded") = 502
BY DEF Classify

-----------------------------------------------------------------------------

\* No request has begun and OSAC is empty.
LEMMA IInvInit == Init => IInv
<1> SUFFICES ASSUME Init
             PROVE  IInv
  OBVIOUS
<1>0. 1 \in NetId /\ 0 \in 0..PollRounds
  BY VMAssumption DEF NetId
<1>1. TypeOK
  BY <1>0 DEF Init, TypeOK, Creating
<1>2. Listed = {}
  BY DEF Init, Listed
<1>3. OneSubnetPerClient
  BY <1>2 DEF Init, OneSubnetPerClient
<1>4. NetworkProgress
  BY <1>2 DEF Init, NetworkProgress
<1>5. RequestProgress
  BY DEF Init, RequestProgress, Creating
<1>6. AttachedNetworkIsReady
  BY DEF Init, AttachedNetworkIsReady
<1>7. AnswersAreTrue
  BY DEF Init, AnswersAreTrue, NoAnswer
<1>8. ObjectsTranslated /\ DisksAsRequested
  BY DEF Init, ObjectsTranslated, DisksAsRequested
<1>9. QED
  BY <1>1, <1>3, <1>4, <1>5, <1>6, <1>7, <1>8 DEF IInv

\* What returning from the handler leaves well typed.
LEMMA RespondType ==
    ASSUME TypeOK, NEW c \in Client, NEW status \in Status, Respond(c, status)
    PROVE  /\ pc' \in [Client -> Creating \cup {"idle"}]
           /\ id' \in [Client -> VmId]
           /\ obj' \in [Client -> Object \cup {None}]
           /\ net' \in [Client -> NetId]
           /\ sub' \in [Client -> NetId]
           /\ own' \in [Client -> BOOLEAN]
           /\ left' \in [Client -> 0..PollRounds]
           /\ answer' \in [Client -> Status \cup {NoAnswer}]
<1>1. 1 \in NetId /\ 0 \in 0..PollRounds
  BY VMAssumption DEF NetId
<1>2. QED
  BY <1>1 DEF TypeOK, Respond

\* What a request says whose call took effect without its knowing.
LEMMA RespondLostType ==
    ASSUME TypeOK, NEW c \in Client, RespondLost(c)
    PROVE  \E status \in {500, 502} \cap Status : Respond(c, status)
  BY ErrorStatus DEF RespondLost

\* What a request says whose call was refused or failed without effect.
LEMMA CallFailsType ==
    ASSUME TypeOK, NEW c \in Client, CallFails(c)
    PROVE  \E status \in Status \ {201} :
                /\ Respond(c, status)
                /\ status = 409 => pc[c] \in {"createVNet", "createSubnet"}
  BY ErrorStatus DEF CallFails

\* Every step keeps the types.
LEMMA TypeStep ==
    ASSUME IInv, [Next]_vars
    PROVE  TypeOK'
<1> USE DEF IInv
<1>0. /\ 1 \in NetId /\ 0 \in 0..PollRounds /\ PollRounds \in 0..PollRounds
      /\ {201, 400, 404, 502} \subseteq Status
      /\ \A p \in {"list", "createVNet", "pollVNet", "createSubnet", "pollSubnet",
                   "createVM", "getExisting"} : p \in Creating
  BY VMAssumption DEF NetId, Status, Creating
<1>1. ASSUME NEW c \in Client, NEW i \in VmId, NEW spec \in VmSpec, BeginCreate(c, i, spec)
      PROVE  TypeOK'
  <2>1. \A d \in splitDisks(spec.disks) : [spec |-> spec, disks |-> d] \in Object
    BY ObjectType
  <2>2. obj' \in [Client -> Object \cup {None}]
    BY <1>1, <2>1 DEF BeginCreate, TypeOK
  <2>3. QED
    BY <1>0, <1>1, <2>2 DEF BeginCreate, TypeOK, osacVars
<1>2. ASSUME NEW c \in Client, NEW spec \in VmSpec, RejectCreate(c, spec)
      PROVE  TypeOK'
  BY <1>0, <1>2, FixedStatus DEF RejectCreate, TypeOK, osacVars, locals
<1>3. ASSUME NEW c \in Client, NEW n \in NetId, UseListed(c, n)
      PROVE  TypeOK'
  BY <1>0, <1>3 DEF UseListed, Goto, TypeOK, osacVars
<1>4. ASSUME NEW c \in Client, NoneListed(c)
      PROVE  TypeOK'
  BY <1>0, <1>4 DEF NoneListed, Goto, TypeOK, osacVars, locals
<1>5. ASSUME NEW c \in Client, NEW n \in NetId, CreateVNet(c, n)
      PROVE  TypeOK'
  <2>1. vnet' \in [NetId -> {"none", "pending", "ready"}] /\ UNCHANGED <<subnet, vms, lived, asked>>
    BY <1>5 DEF CreateVNet, TypeOK
  <2>2. CASE RespondLost(c)
    BY <2>1, <2>2, RespondLostType, RespondType DEF TypeOK
  <2>3. CASE ~RespondLost(c)
    BY <1>0, <1>5, <2>1, <2>3 DEF CreateVNet, Goto, TypeOK
  <2>4. QED
    BY <2>2, <2>3
<1>6. ASSUME NEW c \in Client, NEW n \in NetId, CreateSubnet(c, n)
      PROVE  TypeOK'
  <2>0. [vnet |-> net[c], ready |-> FALSE, by |-> c] \in SubnetRec
    BY DEF TypeOK, SubnetRec
  <2>1. subnet' \in [NetId -> SubnetRec \cup {None}] /\ UNCHANGED <<vnet, vms, lived, asked>>
    BY <1>6, <2>0 DEF CreateSubnet, TypeOK
  <2>2. CASE RespondLost(c)
    BY <2>1, <2>2, RespondLostType, RespondType DEF TypeOK
  <2>3. CASE ~RespondLost(c)
    BY <1>0, <1>6, <2>1, <2>3 DEF CreateSubnet, Goto, TypeOK
  <2>4. QED
    BY <2>2, <2>3
<1>7. ASSUME NEW c \in Client, PollVNet(c) \/ PollSubnet(c)
      PROVE  TypeOK'
  <2>1. UNCHANGED <<vnet, subnet, vms, lived, asked>>
    BY <1>7 DEF PollVNet, PollSubnet, osacVars
  <2>2. CASE PollAgain(c) /\ left[c] = 0
    <3>1. Respond(c, 502)
      BY <2>2, FixedStatus DEF PollAgain
    <3>2. QED
      BY <1>0, <2>1, <3>1, RespondType DEF TypeOK
  <2>3. CASE PollAgain(c) /\ left[c] # 0
    <3>1. left[c] \in 0..PollRounds /\ PollRounds \in Nat
      BY VMAssumption DEF TypeOK
    <3>2. left[c] - 1 \in 0..PollRounds
      BY <2>3, <3>1
    <3>3. QED
      BY <2>1, <2>3, <3>2 DEF PollAgain, TypeOK
  <2>4. CASE ~PollAgain(c)
    <3>1. CASE PollVNet(c)
      BY <1>0, <2>1, <2>4, <3>1 DEF PollVNet, Goto, TypeOK
    <3>2. CASE PollSubnet(c)
      <4>1. /\ own' = [own EXCEPT ![c] = TRUE] /\ left' = [left EXCEPT ![c] = 0]
            /\ pc' = [pc EXCEPT ![c] = "createVM"] /\ UNCHANGED <<id, obj, net, sub, answer>>
        BY <2>4, <3>2, Zenon DEF PollSubnet, Goto
      <4>2. QED
        BY <1>0, <2>1, <4>1 DEF TypeOK
    <3>3. QED
      BY <1>7, <3>1, <3>2
  <2>5. QED
    BY <2>2, <2>3, <2>4
<1>8. ASSUME NEW c \in Client, CreateVM(c)
      PROVE  TypeOK'
  <2>1. obj[c] \in Object
    BY <1>8 DEF CreateVM, RequestProgress, TypeOK, Creating
  <2>2. [obj |-> obj[c], subnet |-> sub[c], own |-> own[c]] \in VmRec
    BY <2>1 DEF TypeOK, VmRec
  <2>3. /\ vms' \in [VmId -> VmRec \cup {None}] /\ lived' \subseteq Client
        /\ asked' \in [Client -> {"no", "exists", "made"}]
    BY <1>8, <2>2 DEF CreateVM, TypeOK
  <2>4. \E status \in Status : Respond(c, status)
    BY <1>0, <1>8, RespondLostType DEF CreateVM
  <2>5. QED
    BY <1>8, <2>3, <2>4, RespondType DEF CreateVM, TypeOK
<1>9. ASSUME NEW c \in Client, VMExists(c)
      PROVE  TypeOK'
  BY <1>0, <1>9 DEF VMExists, Goto, TypeOK, osacVars
<1>10. ASSUME NEW c \in Client, GetExisting(c)
      PROVE  TypeOK'
  <2>1. \E status \in Status : Respond(c, status)
    BY <1>0, <1>10, FixedStatus DEF GetExisting
  <2>2. QED
    BY <1>10, <2>1, RespondType DEF GetExisting, TypeOK, osacVars
<1>11. ASSUME NEW c \in Client, CallFails(c)
      PROVE  TypeOK'
  <2>1. \E status \in Status : Respond(c, status)
    BY <1>11, CallFailsType
  <2>2. QED
    BY <1>11, <2>1, RespondType DEF CallFails, TypeOK, osacVars
<1>12. ASSUME NEW i \in VmId, Delete(i)
      PROVE  TypeOK'
  BY <1>12 DEF Delete, TypeOK, locals
<1>13. ASSUME NEW n \in NetId, VNetReady(n)
      PROVE  TypeOK'
  BY <1>13 DEF VNetReady, TypeOK, locals
<1>14. ASSUME NEW n \in NetId, SubnetReady(n)
      PROVE  TypeOK'
  <2>1. subnet[n] \in SubnetRec
    BY <1>14 DEF SubnetReady, TypeOK
  <2>2. [subnet[n] EXCEPT !.ready = TRUE] \in SubnetRec
    BY <2>1 DEF SubnetRec
  <2>3. QED
    BY <1>14, <2>2 DEF SubnetReady, TypeOK, locals
<1>15. CASE UNCHANGED vars
  BY <1>15 DEF vars, TypeOK
<1>16. QED
  BY <1>1, <1>2, <1>3, <1>4, <1>5, <1>6, <1>7, <1>8, <1>9, <1>10, <1>11, <1>12,
     <1>13, <1>14, <1>15 DEF Next, Begin, Proceed

-----------------------------------------------------------------------------

\* A request that returns: what the other parts of the invariant see of it.
LEMMA RespondEffect ==
    ASSUME TypeOK, NEW c \in Client, NEW status, Respond(c, status)
    PROVE  /\ pc'[c] = "idle" /\ ~own'[c] /\ answer'[c] = status
           /\ \A d \in Client \ {c} : /\ pc'[d] = pc[d] /\ own'[d] = own[d]
                                      /\ net'[d] = net[d] /\ sub'[d] = sub[d]
                                      /\ obj'[d] = obj[d] /\ answer'[d] = answer[d]
           /\ id' = id
  BY DEF TypeOK, Respond

\* A step of client c other than CreateSubnet leaves the subnets alone, and
\* begins to provision only if there is none.
LEMMA OneSubnetStep ==
    ASSUME IInv, [Next]_vars
    PROVE  OneSubnetPerClient'
<1> USE DEF IInv
<1>1. ASSUME NEW c \in Client, NEW n \in NetId, CreateSubnet(c, n)
      PROVE  OneSubnetPerClient'
  <2>1. subnet[n] = None /\ \A m \in Listed : subnet[m].by # c
    BY <1>1 DEF CreateSubnet, IsNext, FreeSubnet, OneSubnetPerClient
  <2>2. subnet'[n].by = c /\ \A m \in NetId \ {n} : subnet'[m] = subnet[m]
    BY <1>1 DEF CreateSubnet, TypeOK
  <2>3. Listed' \subseteq Listed \cup {n}
    BY <2>2 DEF Listed
  <2>4. \A k \in Listed', m \in Listed' : subnet'[k].by = subnet'[m].by => k = m
    BY <2>1, <2>2, <2>3 DEF OneSubnetPerClient, Listed
  <2>5. pc'[c] \in {"idle", "pollSubnet"} /\ \A d \in Client \ {c} : pc'[d] = pc[d]
    <3>1. CASE RespondLost(c)
      BY <3>1, RespondLostType, RespondEffect
    <3>2. CASE ~RespondLost(c)
      BY <1>1, <3>2 DEF CreateSubnet, Goto, TypeOK
    <3>3. QED
      BY <3>1, <3>2
  <2>6. QED
    BY <2>2, <2>3, <2>4, <2>5 DEF OneSubnetPerClient, Listed
<1>2. ASSUME NEW n \in NetId, SubnetReady(n)
      PROVE  OneSubnetPerClient'
  <2>1. subnet[n] \in SubnetRec
    BY <1>2 DEF SubnetReady, TypeOK
  <2>2. subnet'[n].by = subnet[n].by /\ \A m \in NetId \ {n} : subnet'[m] = subnet[m]
    BY <1>2, <2>1 DEF SubnetReady, TypeOK, SubnetRec
  <2>3. Listed' = Listed
    <3>1. subnet'[n] \in SubnetRec
      BY <1>2, <2>1 DEF SubnetReady, TypeOK, SubnetRec
    <3>2. subnet[n] # None /\ subnet'[n] # None
      BY <1>2, <3>1, NoneAssumption DEF SubnetReady
    <3>3. QED
      BY <2>2, <3>2 DEF Listed
  <2>4. pc' = pc
    BY <1>2 DEF SubnetReady
  <2>5. QED
    BY <2>2, <2>3, <2>4 DEF OneSubnetPerClient, Listed
<1>3. ASSUME UNCHANGED subnet,
             NEW c \in Client, \A d \in Client \ {c} : pc'[d] = pc[d],
             \/ pc'[c] \notin {"createVNet", "pollVNet", "createSubnet"}
             \/ pc[c] \in {"createVNet", "pollVNet", "createSubnet"}
             \/ Listed = {}
      PROVE  OneSubnetPerClient'
  BY <1>3 DEF OneSubnetPerClient, Listed
<1>4. ASSUME NEW c \in Client, NEW i \in VmId, NEW spec \in VmSpec, BeginCreate(c, i, spec)
      PROVE  OneSubnetPerClient'
  BY <1>3, <1>4 DEF BeginCreate, TypeOK, osacVars
<1>5. ASSUME NEW c \in Client, NEW n \in NetId, UseListed(c, n)
      PROVE  OneSubnetPerClient'
  BY <1>3, <1>5 DEF UseListed, Goto, TypeOK, osacVars
<1>6. ASSUME NEW c \in Client, NoneListed(c)
      PROVE  OneSubnetPerClient'
  <2>1. Listed = {}
    BY <1>6 DEF NoneListed, Listed
  <2>2. QED
    BY <1>3, <1>6, <2>1 DEF NoneListed, Goto, TypeOK, osacVars
<1>7. ASSUME NEW c \in Client, NEW n \in NetId, CreateVNet(c, n)
      PROVE  OneSubnetPerClient'
  BY <1>3, <1>7, RespondLostType, RespondEffect DEF CreateVNet, Goto, TypeOK
<1>8. ASSUME NEW c \in Client, PollVNet(c) \/ PollSubnet(c)
      PROVE  OneSubnetPerClient'
  <2>1. UNCHANGED subnet
    BY <1>8 DEF PollVNet, PollSubnet, osacVars
  <2>2. CASE PollAgain(c)
    BY <1>3, <2>1, <2>2, RespondEffect DEF PollAgain
  <2>3. CASE ~PollAgain(c)
    BY <1>3, <1>8, <2>1, <2>3 DEF PollVNet, PollSubnet, Goto, TypeOK
  <2>4. QED
    BY <2>2, <2>3
<1>9. ASSUME NEW c \in Client, CreateVM(c) \/ GetExisting(c) \/ CallFails(c)
      PROVE  OneSubnetPerClient'
  <2>1. UNCHANGED subnet /\ \E status : Respond(c, status)
    BY <1>9 DEF CreateVM, GetExisting, CallFails, RespondLost, osacVars
  <2>2. QED
    BY <1>3, <2>1, RespondEffect
<1>10. ASSUME NEW c \in Client, VMExists(c)
      PROVE  OneSubnetPerClient'
  BY <1>3, <1>10 DEF VMExists, Goto, TypeOK, osacVars
<1>11. CASE UNCHANGED <<pc, subnet>>
  BY <1>11 DEF OneSubnetPerClient, Listed
<1>12. QED
  BY <1>1, <1>2, <1>4, <1>5, <1>6, <1>7, <1>8, <1>9, <1>10, <1>11
     DEF Next, Begin, Proceed, vars, RejectCreate, Delete, VNetReady, osacVars

-----------------------------------------------------------------------------

\* Networks and subnets appear and become ready, and never go back.
LEMMA NetworksOnlyGrow ==
    ASSUME IInv, [Next]_vars
    PROVE  /\ \A k \in NetId : vnet[k] = "ready" => vnet'[k] = "ready"
           /\ \A n \in Listed : /\ n \in Listed'
                                /\ subnet'[n].vnet = subnet[n].vnet
                                /\ subnet[n].ready => subnet'[n].ready
<1> USE DEF IInv
<1>1. ASSUME NEW c \in Client, NEW n \in NetId, CreateVNet(c, n)
      PROVE  UNCHANGED subnet /\ \A k \in NetId : vnet[k] = "ready" => vnet'[k] = "ready"
  BY <1>1 DEF CreateVNet, IsNext, FreeVNet, TypeOK
<1>2. ASSUME NEW c \in Client, NEW n \in NetId, CreateSubnet(c, n)
      PROVE  UNCHANGED vnet /\ \A k \in Listed : k \in Listed' /\ subnet'[k] = subnet[k]
  BY <1>2 DEF CreateSubnet, IsNext, FreeSubnet, TypeOK, Listed
<1>3. ASSUME NEW n \in NetId, VNetReady(n)
      PROVE  UNCHANGED subnet /\ \A k \in NetId : vnet[k] = "ready" => vnet'[k] = "ready"
  BY <1>3 DEF VNetReady, TypeOK
<1>4. ASSUME NEW n \in NetId, SubnetReady(n)
      PROVE  /\ UNCHANGED vnet
             /\ \A k \in Listed : /\ k \in Listed' /\ subnet'[k].vnet = subnet[k].vnet
                                  /\ subnet[k].ready => subnet'[k].ready
  <2>1. subnet[n] \in SubnetRec
    BY <1>4 DEF SubnetReady, TypeOK
  <2>2. /\ subnet'[n] \in SubnetRec
        /\ subnet'[n].vnet = subnet[n].vnet /\ subnet'[n].ready = TRUE
        /\ \A k \in NetId \ {n} : subnet'[k] = subnet[k]
    BY <1>4, <2>1 DEF SubnetReady, TypeOK, SubnetRec
  <2>3. UNCHANGED vnet
    BY <1>4 DEF SubnetReady
  <2>4. \A k \in Listed : k \in Listed'
    BY <2>2, NoneAssumption DEF Listed
  <2>5. \A k \in Listed : subnet'[k].vnet = subnet[k].vnet
    BY <2>2 DEF Listed
  <2>6. \A k \in Listed : subnet[k].ready => subnet'[k].ready
    BY <2>2 DEF Listed
  <2>7. QED
    BY <2>3, <2>4, <2>5, <2>6
<1>5. CASE UNCHANGED <<vnet, subnet>>
  BY <1>5 DEF Listed
<1>6. CASE UNCHANGED subnet /\ \A k \in NetId : vnet[k] = "ready" => vnet'[k] = "ready"
  BY <1>6 DEF Listed
<1>7. CASE \/ \E c \in Client, n \in NetId : CreateVNet(c, n) \/ CreateSubnet(c, n)
           \/ \E n \in NetId : VNetReady(n) \/ SubnetReady(n)
  BY <1>1, <1>2, <1>3, <1>4, <1>6, <1>7
<1>8. QED
  BY <1>5, <1>7 DEF Next, Begin, Proceed, vars, osacVars, BeginCreate, RejectCreate,
     UseListed, NoneListed, PollVNet, PollSubnet, CreateVM, VMExists, GetExisting,
     CallFails, Delete

\* What a create knows of its networks stays so while others proceed.
LEMMA NetworkStep ==
    ASSUME IInv, [Next]_vars
    PROVE  NetworkProgress'
<1> USE DEF IInv
<1>1. \A n \in Listed' : vnet'[subnet'[n].vnet] = "ready"
  <2>1. \A n \in Listed : vnet'[subnet'[n].vnet] = "ready"
    BY NetworksOnlyGrow DEF NetworkProgress, TypeOK, SubnetRec, Listed
  <2>2. ASSUME NEW c \in Client, NEW n \in NetId, CreateSubnet(c, n)
        PROVE  \A k \in Listed' \ Listed : vnet'[subnet'[k].vnet] = "ready"
    BY <2>2 DEF CreateSubnet, NetworkProgress, TypeOK, Listed
  <2>3. CASE Listed' = Listed
    BY <2>1, <2>3
  <2>4. ASSUME NEW n \in NetId, SubnetReady(n)
        PROVE  Listed' = Listed
    <3>1. n \in Listed /\ \A k \in NetId \ {n} : subnet'[k] = subnet[k]
      BY <2>4 DEF SubnetReady, Listed, TypeOK
    <3>2. Listed' \subseteq Listed
      BY <3>1 DEF Listed
    <3>3. QED
      BY <3>2, NetworksOnlyGrow
  <2>5. CASE UNCHANGED subnet
    BY <2>3, <2>5 DEF Listed
  <2>6. QED
    BY <2>1, <2>2, <2>3, <2>4, <2>5 DEF Next, Begin, Proceed, vars, osacVars, BeginCreate,
       RejectCreate, UseListed, NoneListed, PollVNet, PollSubnet, CreateVNet, CreateVM,
       VMExists, GetExisting, CallFails, Delete, VNetReady
<1>2. ASSUME NEW c \in Client,
             \A d \in Client \ {c} : /\ pc'[d] = pc[d] /\ own'[d] = own[d]
                                     /\ net'[d] = net[d] /\ sub'[d] = sub[d],
             pc'[c] = "createSubnet" => vnet[net'[c]] = "ready" /\ net'[c] \in NetId,
             pc'[c] \in {"pollSubnet", "createVM"} => sub'[c] \in Listed',
             own'[c] => pc'[c] = "createVM" /\ sub'[c] \in Listed /\ subnet[sub'[c]].ready
      PROVE  NetworkProgress'
  <2>1. ASSUME NEW d \in Client
        PROVE  /\ pc'[d] = "createSubnet" => vnet'[net'[d]] = "ready"
               /\ pc'[d] \in {"pollSubnet", "createVM"} => sub'[d] \in Listed'
               /\ own'[d] => pc'[d] = "createVM" /\ subnet'[sub'[d]].ready
    <3>1. CASE d = c
      BY <1>2, <3>1, NetworksOnlyGrow
    <3>2. CASE d # c
      <4>1. net[d] \in NetId
        BY DEF TypeOK
      <4>2. own[d] => pc[d] = "createVM" /\ sub[d] \in Listed /\ subnet[sub[d]].ready
        BY DEF NetworkProgress
      <4>3. QED
        BY <1>2, <3>2, <4>1, <4>2, NetworksOnlyGrow DEF NetworkProgress
    <3>3. QED
      BY <3>1, <3>2
  <2>2. QED
    BY <1>1, <2>1 DEF NetworkProgress
<1>3. ASSUME NEW c \in Client, NEW i \in VmId, NEW spec \in VmSpec, BeginCreate(c, i, spec)
      PROVE  NetworkProgress'
  <2>1. ~own[c]
    BY <1>3 DEF BeginCreate, NetworkProgress
  <2>2. QED
    BY <1>2, <1>3, <2>1 DEF BeginCreate, TypeOK, osacVars
<1>4. ASSUME NEW c \in Client, NEW n \in NetId, UseListed(c, n)
      PROVE  NetworkProgress'
  <2>1. ~own[c]
    BY <1>4 DEF UseListed, NetworkProgress
  <2>2. QED
    BY <1>2, <1>4, <2>1 DEF UseListed, Goto, TypeOK, osacVars, Listed
<1>5. ASSUME NEW c \in Client, NoneListed(c)
      PROVE  NetworkProgress'
  <2>1. ~own[c]
    BY <1>5 DEF NoneListed, NetworkProgress
  <2>2. QED
    BY <1>2, <1>5, <2>1 DEF NoneListed, Goto, TypeOK, osacVars, locals
<1>6. ASSUME NEW c \in Client, NEW status, Respond(c, status)
      PROVE  NetworkProgress'
  BY <1>2, <1>6, RespondEffect
<1>7. ASSUME NEW c \in Client, NEW n \in NetId, CreateVNet(c, n)
      PROVE  NetworkProgress'
  <2>1. ~own[c]
    BY <1>7 DEF CreateVNet, NetworkProgress
  <2>2. CASE RespondLost(c)
    BY <1>6, <2>2 DEF RespondLost
  <2>3. CASE ~RespondLost(c)
    BY <1>2, <1>7, <2>1, <2>3 DEF CreateVNet, Goto, TypeOK
  <2>4. QED
    BY <2>2, <2>3
<1>8. ASSUME NEW c \in Client, NEW n \in NetId, CreateSubnet(c, n)
      PROVE  NetworkProgress'
  <2>1. ~own[c]
    BY <1>8 DEF CreateSubnet, NetworkProgress
  <2>2. n \in Listed'
    <3>1. subnet'[n] = [vnet |-> net[c], ready |-> FALSE, by |-> c]
      BY <1>8 DEF CreateSubnet, TypeOK
    <3>2. subnet'[n] \in SubnetRec
      BY <3>1 DEF SubnetRec, TypeOK
    <3>3. QED
      BY <3>2, NoneAssumption DEF Listed
  <2>3. CASE RespondLost(c)
    BY <1>6, <2>3 DEF RespondLost
  <2>4. CASE ~RespondLost(c)
    BY <1>2, <1>8, <2>1, <2>2, <2>4 DEF CreateSubnet, Goto, TypeOK
  <2>5. QED
    BY <2>3, <2>4
<1>9. ASSUME NEW c \in Client, PollVNet(c)
      PROVE  NetworkProgress'
  <2>1. ~own[c] /\ net[c] \in NetId
    BY <1>9 DEF PollVNet, NetworkProgress, TypeOK
  <2>2. CASE PollAgain(c) /\ left[c] = 0
    BY <1>6, <2>2 DEF PollAgain
  <2>3. CASE PollAgain(c) /\ left[c] # 0
    BY <1>2, <1>9, <2>1, <2>3 DEF PollVNet, PollAgain
  <2>4. CASE ~PollAgain(c)
    BY <1>2, <1>9, <2>1, <2>4 DEF PollVNet, Goto, TypeOK
  <2>5. QED
    BY <2>2, <2>3, <2>4
<1>10. ASSUME NEW c \in Client, PollSubnet(c)
      PROVE  NetworkProgress'
  <2>1. ~own[c] /\ sub[c] \in Listed /\ sub[c] \in Listed'
    BY <1>10, NetworksOnlyGrow DEF PollSubnet, NetworkProgress
  <2>2. CASE PollAgain(c) /\ left[c] = 0
    BY <1>6, <2>2 DEF PollAgain
  <2>3. CASE PollAgain(c) /\ left[c] # 0
    BY <1>2, <1>10, <2>1, <2>3 DEF PollSubnet, PollAgain
  <2>4. CASE ~PollAgain(c)
    <3>1. /\ own' = [own EXCEPT ![c] = TRUE] /\ subnet[sub[c]].ready
          /\ pc' = [pc EXCEPT ![c] = "createVM"] /\ UNCHANGED <<net, sub>>
      BY <1>10, <2>4, Zenon DEF PollSubnet, Goto
    <3>2. QED
      BY <1>2, <2>1, <3>1 DEF TypeOK
  <2>5. QED
    BY <2>2, <2>3, <2>4
<1>11. ASSUME NEW c \in Client, CreateVM(c) \/ GetExisting(c) \/ CallFails(c)
      PROVE  NetworkProgress'
  <2>1. \E status : Respond(c, status)
    BY <1>11 DEF CreateVM, GetExisting, CallFails, RespondLost
  <2>2. QED
    BY <1>6, <2>1
<1>12. ASSUME NEW c \in Client, VMExists(c)
      PROVE  NetworkProgress'
  <2>1. ~own'[c] /\ \A d \in Client \ {c} : own'[d] = own[d]
    BY <1>12 DEF VMExists, TypeOK
  <2>2. QED
    BY <1>2, <1>12, <2>1 DEF VMExists, Goto, TypeOK, osacVars
<1>13. CASE UNCHANGED <<pc, own, net, sub>>
  <2>1. ASSUME NEW d \in Client
        PROVE  /\ pc'[d] = "createSubnet" => vnet'[net'[d]] = "ready"
               /\ pc'[d] \in {"pollSubnet", "createVM"} => sub'[d] \in Listed'
               /\ own'[d] => pc'[d] = "createVM" /\ subnet'[sub'[d]].ready
    <3>1. net[d] \in NetId
      BY DEF TypeOK
    <3>2. own[d] => pc[d] = "createVM" /\ sub[d] \in Listed /\ subnet[sub[d]].ready
      BY DEF NetworkProgress
    <3>3. QED
      BY <1>13, <3>1, <3>2, NetworksOnlyGrow DEF NetworkProgress
  <2>2. QED
    BY <1>1, <2>1 DEF NetworkProgress
<1>14. QED
  BY <1>3, <1>4, <1>5, <1>7, <1>8, <1>9, <1>10, <1>11, <1>12, <1>13
     DEF Next, Begin, Proceed, vars, RejectCreate, Delete, VNetReady, SubnetReady, locals

\* A VM is created with the subnet its request has resolved; what it is
\* attached to never goes back.
LEMMA AttachedStep ==
    ASSUME IInv, [Next]_vars
    PROVE  AttachedNetworkIsReady'
<1> USE DEF IInv
<1>1. ASSUME NEW i \in VmId, vms[i] # None, vms'[i] = vms[i]
      PROVE  /\ vms'[i].subnet \in Listed'
             /\ vnet'[subnet'[vms'[i].subnet].vnet] = "ready"
             /\ vms'[i].own => subnet'[vms'[i].subnet].ready
  <2>1. vms[i] \in VmRec /\ vms[i].subnet \in NetId
    BY <1>1 DEF TypeOK, VmRec
  <2>2. /\ vms[i].subnet \in Listed
        /\ vnet[subnet[vms[i].subnet].vnet] = "ready"
        /\ vms[i].own => subnet[vms[i].subnet].ready
    BY <1>1, <2>1 DEF AttachedNetworkIsReady, Listed
  <2>3. subnet[vms[i].subnet].vnet \in NetId
    BY <2>2 DEF Listed, TypeOK, SubnetRec
  <2>4. QED
    BY <1>1, <2>2, <2>3, NetworksOnlyGrow
<1>2. ASSUME \A i \in VmId : vms'[i] = vms[i] \/ vms'[i] = None
      PROVE  AttachedNetworkIsReady'
  BY <1>1, <1>2 DEF AttachedNetworkIsReady, Listed
<1>3. ASSUME NEW c \in Client, CreateVM(c)
      PROVE  AttachedNetworkIsReady'
  <2>1. /\ vms'[id[c]] = [obj |-> obj[c], subnet |-> sub[c], own |-> own[c]]
        /\ \A i \in VmId \ {id[c]} : vms'[i] = vms[i]
        /\ UNCHANGED <<vnet, subnet>>
    BY <1>3 DEF CreateVM, TypeOK
  <2>2. sub[c] \in Listed /\ vnet[subnet[sub[c]].vnet] = "ready"
    BY <1>3 DEF CreateVM, NetworkProgress
  <2>3. own[c] => subnet[sub[c]].ready
    BY DEF NetworkProgress
  <2>4. QED
    BY <1>1, <2>1, <2>2, <2>3 DEF AttachedNetworkIsReady, Listed
<1>4. ASSUME NEW i \in VmId, Delete(i)
      PROVE  AttachedNetworkIsReady'
  BY <1>2, <1>4 DEF Delete, TypeOK
<1>5. CASE UNCHANGED vms
  BY <1>2, <1>5
<1>6. QED
  BY <1>3, <1>4, <1>5 DEF Next, Begin, Proceed, vars, osacVars, BeginCreate, RejectCreate,
     UseListed, NoneListed, CreateVNet, CreateSubnet, PollVNet, PollSubnet, VMExists,
     GetExisting, CallFails, VNetReady, SubnetReady

-----------------------------------------------------------------------------

\* What a create knows of its VM, and what it says when it returns.
LEMMA RequestStep ==
    ASSUME IInv, [Next]_vars
    PROVE  RequestProgress' /\ AnswersAreTrue'
<1> USE DEF IInv
<1>1. ASSUME NEW c \in Client, UNCHANGED <<vms, lived, id>>,
             \A d \in Client \ {c} : /\ pc'[d] = pc[d] /\ obj'[d] = obj[d]
                                     /\ answer'[d] = answer[d] /\ asked'[d] = asked[d],
             pc[c] # "idle",
             pc'[c] \in Creating \ {"getExisting"} => obj'[c] # None /\ asked'[c] = "no",
             pc'[c] = "getExisting" => asked'[c] = "exists",
             pc'[c] # "idle" => answer'[c] = answer[c],
             pc'[c] = "idle" => /\ answer'[c] = 201 => c \in lived
                                /\ asked'[c] # "made"
                                /\ answer'[c] = 409 => asked'[c] # "exists"
      PROVE  RequestProgress' /\ AnswersAreTrue'
  BY <1>1 DEF RequestProgress, AnswersAreTrue, NoAnswer
<1>2. ASSUME NEW c \in Client, NEW i \in VmId, NEW spec \in VmSpec, BeginCreate(c, i, spec)
      PROVE  RequestProgress' /\ AnswersAreTrue'
  <2>1. /\ pc'[c] = "list" /\ id'[c] = i /\ answer'[c] = NoAnswer
        /\ vms' = vms /\ (vms[i] # None => c \in lived') /\ asked'[c] = "no"
        /\ \A d \in Client \ {c} : /\ pc'[d] = pc[d] /\ obj'[d] = obj[d] /\ id'[d] = id[d]
                                   /\ answer'[d] = answer[d] /\ (d \in lived' <=> d \in lived)
                                   /\ asked'[d] = asked[d]
    BY <1>2 DEF BeginCreate, TypeOK, osacVars
  <2>2. obj'[c] # None
    <3>1. \E d \in splitDisks(spec.disks) : obj'[c] = [spec |-> spec, disks |-> d]
      BY <1>2 DEF BeginCreate, TypeOK
    <3>2. QED
      BY <3>1, ObjectType, NoneAssumption
  <2>3. QED
    BY <2>1, <2>2 DEF RequestProgress, AnswersAreTrue, NoAnswer
<1>3. ASSUME NEW c \in Client, NEW spec \in VmSpec, RejectCreate(c, spec)
      PROVE  RequestProgress' /\ AnswersAreTrue'
  <2>1. /\ UNCHANGED <<vms, lived, id, pc, obj>> /\ answer'[c] = 400 /\ pc[c] = "idle"
        /\ asked'[c] = "no"
        /\ \A d \in Client \ {c} : answer'[d] = answer[d] /\ asked'[d] = asked[d]
    BY <1>3, FixedStatus DEF RejectCreate, osacVars, locals, TypeOK
  <2>2. QED
    BY <2>1 DEF RequestProgress, AnswersAreTrue, Creating
<1>4. ASSUME NEW c \in Client, RespondLost(c), UNCHANGED <<vms, lived, asked>>,
             pc[c] \in Creating
      PROVE  RequestProgress' /\ AnswersAreTrue'
  <2>1. PICK status \in {500, 502} : Respond(c, status)
    BY <1>4, RespondLostType
  <2>2. "idle" \notin Creating /\ asked[c] # "made"
    BY <1>4 DEF Creating, RequestProgress
  <2>3. QED
    BY <1>1, <1>4, <2>1, <2>2, RespondEffect
<1>5. ASSUME NEW c \in Client, NEW p \in Creating \ {"getExisting"}, Goto(c, p),
             UNCHANGED <<vms, lived, id, asked>>,
             pc[c] \in Creating \ {"getExisting"}, UNCHANGED obj
      PROVE  RequestProgress' /\ AnswersAreTrue'
  <2>1. /\ pc[c] # "idle" /\ p # "idle" /\ pc'[c] = p
        /\ obj[c] # None /\ asked[c] = "no"
        /\ answer' = answer /\ \A d \in Client \ {c} : pc'[d] = pc[d]
    BY <1>5 DEF Goto, TypeOK, Creating, RequestProgress
  <2>2. QED
    BY <1>1, <1>5, <2>1
<1>6. ASSUME NEW c \in Client, NEW n \in NetId, UseListed(c, n)
      PROVE  RequestProgress' /\ AnswersAreTrue'
  <2>1. "createVM" \in Creating \ {"getExisting"} /\ pc[c] \in Creating \ {"getExisting"}
    BY <1>6 DEF UseListed, Creating
  <2>2. QED
    BY <1>5, <1>6, <2>1 DEF UseListed, osacVars, RequestProgress
<1>7. ASSUME NEW c \in Client, NoneListed(c)
      PROVE  RequestProgress' /\ AnswersAreTrue'
  <2>1. "createVNet" \in Creating \ {"getExisting"} /\ pc[c] \in Creating \ {"getExisting"}
    BY <1>7 DEF NoneListed, Creating
  <2>2. QED
    BY <1>5, <1>7, <2>1 DEF NoneListed, osacVars, locals, RequestProgress
<1>8. ASSUME NEW c \in Client, NEW n \in NetId, CreateVNet(c, n)
      PROVE  RequestProgress' /\ AnswersAreTrue'
  <2>1. "pollVNet" \in Creating \ {"getExisting"} /\ pc[c] \in Creating \ {"getExisting"}
    BY <1>8 DEF CreateVNet, Creating
  <2>2. QED
    BY <1>4, <1>5, <1>8, <2>1 DEF CreateVNet, RequestProgress
<1>9. ASSUME NEW c \in Client, NEW n \in NetId, CreateSubnet(c, n)
      PROVE  RequestProgress' /\ AnswersAreTrue'
  <2>1. "pollSubnet" \in Creating \ {"getExisting"} /\ pc[c] \in Creating \ {"getExisting"}
    BY <1>9 DEF CreateSubnet, Creating
  <2>2. QED
    BY <1>4, <1>5, <1>9, <2>1 DEF CreateSubnet, RequestProgress
<1>10. ASSUME NEW c \in Client, PollVNet(c) \/ PollSubnet(c)
      PROVE  RequestProgress' /\ AnswersAreTrue'
  <2>1. /\ {"createSubnet", "createVM"} \subseteq Creating \ {"getExisting"}
        /\ pc[c] \in Creating \ {"getExisting"} /\ pc[c] # "idle"
        /\ asked[c] = "no" /\ UNCHANGED <<vms, lived, asked>>
    BY <1>10 DEF PollVNet, PollSubnet, Creating, osacVars, RequestProgress
  <2>2. CASE PollAgain(c) /\ left[c] = 0
    <3>1. Respond(c, 502) /\ "idle" \notin Creating
      BY <2>2, FixedStatus DEF PollAgain, Creating
    <3>2. QED
      BY <1>1, <2>1, <3>1, RespondEffect
  <2>3. CASE PollAgain(c) /\ left[c] # 0
    BY <2>1, <2>3 DEF PollAgain, RequestProgress, AnswersAreTrue
  <2>4. CASE ~PollAgain(c)
    <3>1. \E p \in {"createSubnet", "createVM"} : Goto(c, p)
      BY <1>10, <2>4 DEF PollVNet, PollSubnet
    <3>2. UNCHANGED <<id, obj>>
      BY <1>10, <2>4 DEF PollVNet, PollSubnet
    <3>3. QED
      BY <1>5, <2>1, <3>1, <3>2 DEF RequestProgress
  <2>5. QED
    BY <2>2, <2>3, <2>4
<1>11. ASSUME NEW c \in Client, CreateVM(c)
      PROVE  RequestProgress' /\ AnswersAreTrue'
  <2>1. \E status \in {201, 500, 502} : Respond(c, status)
    BY <1>11, RespondLostType DEF CreateVM
  <2>2. PICK status \in {201, 500, 502} : Respond(c, status)
    BY <2>1
  <2>3. /\ pc'[c] = "idle" /\ answer'[c] = status /\ id' = id
        /\ \A d \in Client \ {c} : /\ pc'[d] = pc[d] /\ obj'[d] = obj[d]
                                   /\ answer'[d] = answer[d] /\ asked'[d] = asked[d]
    BY <1>11, <2>2, RespondEffect DEF CreateVM, TypeOK
  <2>4. /\ \A i \in VmId \ {id[c]} : vms'[i] = vms[i]
        /\ lived \subseteq lived' /\ c \in lived'
        /\ \A d \in Client : pc[d] # "idle" /\ id[d] = id[c] => d \in lived'
    BY <1>11 DEF CreateVM, TypeOK
  <2>5. lived' \subseteq lived \cup {d \in Client : pc[d] # "idle"}
    BY <1>11 DEF CreateVM
  <2>6. RequestProgress'
    BY <2>3, <2>4 DEF RequestProgress, TypeOK, Creating
  <2>7. AnswersAreTrue'
    BY <2>3, <2>4 DEF AnswersAreTrue
  <2>8. QED
    BY <2>6, <2>7
<1>12. ASSUME NEW c \in Client, VMExists(c)
      PROVE  RequestProgress' /\ AnswersAreTrue'
  <2>1. /\ pc[c] # "idle" /\ pc'[c] = "getExisting" /\ asked'[c] = "exists"
        /\ answer' = answer /\ UNCHANGED <<vms, lived, id>>
        /\ \A d \in Client \ {c} : /\ pc'[d] = pc[d] /\ obj'[d] = obj[d]
                                   /\ asked'[d] = asked[d]
    BY <1>12 DEF VMExists, Goto, osacVars, TypeOK
  <2>2. QED
    BY <1>1, <2>1
<1>13. ASSUME NEW c \in Client, GetExisting(c)
      PROVE  RequestProgress' /\ AnswersAreTrue'
  <2>1. /\ asked[c] = "exists" /\ pc[c] # "idle" /\ "idle" \notin Creating
        /\ UNCHANGED <<vms, lived, asked>>
    BY <1>13 DEF GetExisting, RequestProgress, osacVars, Creating
  <2>2. (Respond(c, 201) /\ c \in lived) \/ Respond(c, 404)
    BY <1>13, <2>1, FixedStatus DEF GetExisting, RequestProgress
  <2>3. QED
    BY <1>1, <2>1, <2>2, RespondEffect
<1>14. ASSUME NEW c \in Client, CallFails(c)
      PROVE  RequestProgress' /\ AnswersAreTrue'
  <2>1. PICK status \in Status \ {201} :
            /\ Respond(c, status)
            /\ status = 409 => pc[c] \in {"createVNet", "createSubnet"}
    BY <1>14, CallFailsType
  <2>2. /\ pc[c] # "idle" /\ "idle" \notin Creating /\ UNCHANGED <<vms, lived, asked>>
        /\ asked[c] # "made"
        /\ pc[c] \in {"createVNet", "createSubnet"} => asked[c] = "no"
    BY <1>14 DEF CallFails, osacVars, Creating, RequestProgress, TypeOK
  <2>3. QED
    BY <1>1, <2>1, <2>2, RespondEffect
<1>15. ASSUME NEW i \in VmId, Delete(i)
      PROVE  RequestProgress' /\ AnswersAreTrue'
  <2>1. \A k \in VmId : vms'[k] = vms[k] \/ vms'[k] = None
    BY <1>15 DEF Delete, TypeOK
  <2>2. QED
    BY <1>15, <2>1 DEF Delete, locals, RequestProgress, AnswersAreTrue, TypeOK
<1>16. CASE UNCHANGED <<vms, pc, id, obj, answer, lived, asked>>
  BY <1>16 DEF RequestProgress, AnswersAreTrue
<1>17. QED
  BY <1>2, <1>3, <1>6, <1>7, <1>8, <1>9, <1>10, <1>11, <1>12, <1>13, <1>14, <1>15, <1>16
     DEF Next, Begin, Proceed, vars, VNetReady, SubnetReady, locals

\* An object is translated when its request begins and sent as it is.
LEMMA DisksStep ==
    ASSUME IInv, [Next]_vars
    PROVE  ObjectsTranslated' /\ DisksAsRequested'
<1> USE DEF IInv
<1>1. ASSUME NEW c \in Client, NEW i \in VmId, NEW spec \in VmSpec, BeginCreate(c, i, spec)
      PROVE  ObjectsTranslated' /\ DisksAsRequested'
  <2>1. PICK d \in splitDisks(spec.disks) :
            obj' = [obj EXCEPT ![c] = [spec |-> spec, disks |-> d]]
    BY <1>1 DEF BeginCreate
  <2>2. Translated(obj'[c]) /\ \A e \in Client \ {c} : obj'[e] = obj[e]
    BY <2>1, SplitTranslates DEF TypeOK
  <2>3. vms' = vms
    BY <1>1 DEF BeginCreate, osacVars
  <2>4. QED
    BY <2>2, <2>3 DEF ObjectsTranslated, DisksAsRequested
<1>2. ASSUME NEW c \in Client, CreateVM(c)
      PROVE  ObjectsTranslated' /\ DisksAsRequested'
  <2>1. obj[c] # None
    BY <1>2 DEF CreateVM, RequestProgress, Creating
  <2>2. Translated(obj[c])
    BY <2>1 DEF ObjectsTranslated
  <2>3. /\ vms'[id[c]].obj = obj[c]
        /\ \A i \in VmId \ {id[c]} : vms'[i] = vms[i]
    BY <1>2 DEF CreateVM, TypeOK
  <2>4. \A d \in Client : obj'[d] \in {obj[d], None}
    BY <1>2 DEF CreateVM, RespondLost, Respond, TypeOK
  <2>5. QED
    BY <2>2, <2>3, <2>4 DEF ObjectsTranslated, DisksAsRequested
<1>3. ASSUME \A d \in Client : obj'[d] \in {obj[d], None},
             \A i \in VmId : vms'[i] \in {vms[i], None}
      PROVE  ObjectsTranslated' /\ DisksAsRequested'
  BY <1>3 DEF ObjectsTranslated, DisksAsRequested
<1>4. ASSUME NEW c \in Client,
             \/ PollVNet(c) \/ PollSubnet(c) \/ VMExists(c) \/ GetExisting(c) \/ CallFails(c)
             \/ \E n \in NetId : CreateVNet(c, n) \/ CreateSubnet(c, n)
      PROVE  ObjectsTranslated' /\ DisksAsRequested'
  <2>1. vms' = vms
    BY <1>4 DEF PollVNet, PollSubnet, VMExists, GetExisting, CallFails, CreateVNet,
       CreateSubnet, osacVars
  <2>2. obj' = obj \/ obj' = [obj EXCEPT ![c] = None]
    BY <1>4 DEF PollVNet, PollSubnet, PollAgain, VMExists, GetExisting, CallFails,
       CreateVNet, CreateSubnet, RespondLost, Respond
  <2>3. QED
    BY <1>3, <2>1, <2>2 DEF TypeOK
<1>5. ASSUME NEW i \in VmId, Delete(i)
      PROVE  ObjectsTranslated' /\ DisksAsRequested'
  BY <1>3, <1>5 DEF Delete, locals, TypeOK
<1>6. CASE UNCHANGED <<obj, vms>>
  BY <1>3, <1>6
<1>7. QED
  BY <1>1, <1>2, <1>4, <1>5, <1>6 DEF Next, Begin, Proceed, vars, osacVars, locals,
     RejectCreate, UseListed, NoneListed, VNetReady, SubnetReady

-----------------------------------------------------------------------------

LEMMA IInvAlways == Spec => []IInv
<1>1. Init => IInv
  BY IInvInit
<1>2. IInv /\ [Next]_vars => IInv'
  BY TypeStep, OneSubnetStep, NetworkStep, RequestStep, AttachedStep, DisksStep DEF IInv
<1>3. QED
  BY <1>1, <1>2, PTL DEF Spec

\* Different subnets have different creators, so the function from a subnet
\* to the client that created it is an injection into the clients.
LEMMA InjectionBounds ==
    ASSUME TypeOK, OneSubnetPerClient
    PROVE  SubnetsBoundedByConcurrency
<1> DEFINE creator == [n \in Listed |-> subnet[n].by]
<1>1. \A n \in Listed : subnet[n].by \in Client
  BY DEF Listed, TypeOK, SubnetRec
<1>2. creator \in Injection(Listed, Client)
  <2>1. creator \in [Listed -> Client]
    BY <1>1
  <2>2. \A m, n \in Listed : creator[m] = creator[n] => m = n
    BY DEF OneSubnetPerClient
  <2>3. QED
    BY <2>1, <2>2 DEF Injection, IsInjective
<1>3. Cardinality(Listed) <= Cardinality(Client)
  BY <1>2, VMAssumption, FS_Injection
<1>4. QED
  BY <1>3 DEF SubnetsBoundedByConcurrency, Listed

\* Type correctness of the VM service.
THEOREM TypeCorrect == Spec => []TypeOK
<1>1. IInv => TypeOK
  BY DEF IInv
<1>2. QED
  BY <1>1, IInvAlways, PTL

\* resolveDefaultSubnet without a lock: at most one default subnet for each
\* of the clients that may race, however often they call and fail.
THEOREM SubnetsAreBounded == Spec => []SubnetsBoundedByConcurrency
<1>1. IInv => SubnetsBoundedByConcurrency
  BY InjectionBounds DEF IInv
<1>2. QED
  BY <1>1, IInvAlways, PTL

\* pollUntilReady before Subnets/Create and before ComputeInstances/Create:
\* no VM hangs on a network that was never ready.
THEOREM AttachmentsAreReady == Spec => []AttachedNetworkIsReady
<1>1. IInv => AttachedNetworkIsReady
  BY DEF IInv
<1>2. QED
  BY <1>1, IInvAlways, PTL

\* Whatever codes OSAC fails calls with and whatever creates and deletes race:
\* the create handler's 201 is true, a refusal never hides a VM that the
\* request made, and AlreadyExists of the VM never surfaces as 409.
THEOREM CreateTellsTheTruth == Spec => []AnswersAreTrue
<1>1. IInv => AnswersAreTrue
  BY DEF IInv
<1>2. QED
  BY <1>1, IInvAlways, PTL

\* ParseDiskCapacityGiB and splitDisks: whatever else runs, a VM in OSAC has the
\* disks its create asked for, each rounded up to the smallest size that holds it.
THEOREM DisksAreRight == Spec => []DisksAsRequested
<1>1. IInv => DisksAsRequested
  BY DEF IInv
<1>2. QED
  BY <1>1, IInvAlways, PTL
=============================================================================
