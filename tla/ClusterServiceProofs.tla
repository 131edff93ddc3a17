------------------------- MODULE ClusterServiceProofs -------------------------
(***************************************************************************)
(* For any number of clusters and names, any catalog and any interference  *)
(* of OSAC and its other clients between two RPCs: what create and get     *)
(* answer was true at some moment of the request, what create sends is     *)
(* what was asked for, and what list collects is complete.  The answers    *)
(* are not inductive: AnswerInv adds that, while a request runs,           *)
(* everything that is true now has been seen, and what each RPC of it      *)
(* rests on.  DataInv, on top of it, says what a create has resolved and   *)
(* that the labels of a cluster in OSAC tell whose it is.  The loops of    *)
(* resolveVersion and of the listing are handled by induction.             *)
(***************************************************************************)
EXTENDS ClusterService, RecursionProofs, SequenceTheorems

Creating == {"template", "versions", "create", "existing"}
Getting == {"get", "secret"}

\* While a request runs it has seen what is true now, and has no answer yet.
Running ==
    pc # "idle" =>
        /\ Facts(store, request) \subseteq saw
        /\ answer = NoAnswer
        /\ request.id \in ClusterId

\* What the request knows at its next RPC.
Stage ==
    /\ pc \in {"idle"} \cup Creating \cup Getting
    /\ pc \in Creating => request.op = "create" /\ "made" \notin saw
    /\ pc \in Getting => request.op = "get"
    /\ pc = "existing" => saw \cap {"there", "taken"} # {}
    /\ pc = "secret" => "active" \in saw

\* OSAC's store is a function, and answers have their fields.
Shapes ==
    /\ store = [i \in ClusterId |-> store[i]]
    /\ answer = Answer(answer.status, answer.kubeconfig, answer.after)

AnswerInv ==
    /\ Running
    /\ Stage
    /\ Shapes
    /\ CreateAnswersAreTrue
    /\ GetAnswersAreTrue

-----------------------------------------------------------------------------

\* The statuses that say that a request was refused.
Refused == {400, 401, 403, 404, 409}

\* A code that is passed on is no success, 409 or 404 only for the codes that
\* say so, and no refusal if the call may have taken effect.
LEMMA FailedCalls ==
    ASSUME NEW code \in RpcCode
    PROVE  /\ classifyError(code) \notin {0, 200, 201}
           /\ classifyError(code) = 409 => code = "AlreadyExists"
           /\ classifyError(code) = 404 => code = "NotFound"
           /\ code \in LostCode => classifyError(code) \notin Refused
  BY ClusterAssumption DEF classifyError, Refused

\* The codes the service makes up itself.
LEMMA OwnCodes ==
    /\ classifyError("InvalidArgument") = 400
    /\ classifyError("NotFound") = 404
    /\ classifyError("AlreadyExists") = 409
    /\ classifyError("Internal") = 500
  BY DEF classifyError

\* The invariant holds before the first request.
LEMMA AnswerInit == Init => AnswerInv
<1> SUFFICES ASSUME Init
             PROVE  AnswerInv
  OBVIOUS
<1>1. Running /\ Stage
  BY DEF Init, Running, Stage, Creating, Getting
<1>2. Shapes
  BY DEF Init, Shapes, NoAnswer, Answer
<1>3. CreateAnswersAreTrue /\ GetAnswersAreTrue
  BY DEF Init, CreateAnswersAreTrue, GetAnswersAreTrue, NoRequest
<1>4. QED
  BY <1>1, <1>2, <1>3 DEF AnswerInv

\* A response ends the request; the answer must be true of what was seen.
LEMMA RespondStep ==
    ASSUME AnswerInv, NEW status, NEW kubeconfig, Respond(status, kubeconfig),
           store' = [i \in ClusterId |-> store'[i]],
           request.op = "create" =>
               /\ status = 201 => saw' \cap {"made", "there"} # {}
               /\ status = 409 => /\ pc = "existing"
                                  /\ saw' \cap {"there", "taken"} # {}
                                  /\ "absent" \in saw'
               /\ status = 404 => pc \in {"versions", "create"}
               /\ status \in Refused => "made" \notin saw',
           request.op = "get" =>
               /\ status = 404 => "absent" \in saw'
               /\ kubeconfig = "data" => {"active", "data"} \subseteq saw'
               /\ kubeconfig = "empty" => "inactive" \in saw'
               /\ status = 200 => kubeconfig # "omitted"
    PROVE  AnswerInv'
<1>1. /\ pc' = "idle"
      /\ request' = request
      /\ answer' = [status |-> status, kubeconfig |-> kubeconfig, after |-> pc]
  BY DEF Respond, Answer
<1>2. Running' /\ Stage'
  BY <1>1 DEF Running, Stage, Creating, Getting
<1>3. Shapes'
  BY <1>1 DEF Shapes, Answer
<1>4. CreateAnswersAreTrue'
  BY <1>1 DEF CreateAnswersAreTrue, Refused
<1>5. GetAnswersAreTrue'
  BY <1>1 DEF GetAnswersAreTrue
<1>6. QED
  BY <1>2, <1>3, <1>4, <1>5 DEF AnswerInv

\* A failed call ends the request: its code is passed on. Only a call that tells
\* nothing of its effect may have had one.
LEMMA FailStep ==
    ASSUME AnswerInv, NEW code \in RpcCode, Fail(code),
           store' = [i \in ClusterId |-> store'[i]],
           pc # "idle", code # "AlreadyExists",
           code = "NotFound" => pc \in {"versions", "create"},
           request.op = "create" => "made" \notin saw' \/ code \in LostCode
    PROVE  AnswerInv'
<1>1. PICK status : status = classifyError(code)
  OBVIOUS
<1>2. /\ status \notin {0, 200, 201, 409}
      /\ status = 404 => pc \in {"versions", "create"}
      /\ code \in LostCode => status \notin Refused
  BY <1>1, FailedCalls
<1>3. request.op = "get" => pc \notin {"versions", "create"}
  BY DEF AnswerInv, Stage, Creating
<1>4. Respond(status, "omitted")
  BY <1>1 DEF Fail
<1>5. QED
  BY <1>2, <1>3, <1>4, RespondStep

\* A step to the next RPC of the same request, which changes nothing in OSAC.
LEMMA NextCall ==
    ASSUME AnswerInv, pc # "idle", UNCHANGED <<store, request, answer, saw>>,
           \/ pc = "template" /\ pc' = "versions"
           \/ pc = "versions" /\ pc' = "create"
           \/ pc = "create" /\ pc' = "existing" /\ saw \cap {"there", "taken"} # {}
           \/ pc = "get" /\ pc' = "secret" /\ "active" \in saw
    PROVE  AnswerInv'
<1>1. Running'
  BY DEF AnswerInv, Running
<1>2. Stage'
  BY DEF AnswerInv, Stage, Creating, Getting
<1>3. Shapes'
  BY DEF AnswerInv, Shapes
<1>4. CreateAnswersAreTrue' /\ GetAnswersAreTrue'
  BY DEF AnswerInv, CreateAnswersAreTrue, GetAnswersAreTrue
<1>5. QED
  BY <1>1, <1>2, <1>3, <1>4 DEF AnswerInv

\* A change from outside keeps what was seen and adds what is true now.
LEMMA ChangesStep ==
    ASSUME AnswerInv, NEW st, st = [i \in ClusterId |-> st[i]], Changes(st)
    PROVE  AnswerInv'
<1>1. /\ store' = st /\ pc' = pc /\ request' = request /\ answer' = answer
      /\ saw \subseteq saw'
      /\ pc = "idle" => saw' = saw
      /\ pc # "idle" => saw' = saw \cup Facts(st, request)
  BY DEF Changes
<1>2. "made" \notin Facts(st, request)
  BY DEF Facts
<1>3. Running'
  BY <1>1 DEF AnswerInv, Running
<1>4. Stage'
  BY <1>1, <1>2 DEF AnswerInv, Stage, Creating, Getting
<1>5. Shapes'
  BY <1>1 DEF AnswerInv, Shapes
<1>6. CreateAnswersAreTrue' /\ GetAnswersAreTrue'
  <2>1. CASE pc = "idle"
    BY <1>1, <2>1 DEF AnswerInv, CreateAnswersAreTrue, GetAnswersAreTrue
  <2>2. CASE pc # "idle"
    BY <1>1, <2>2 DEF AnswerInv, Running, NoAnswer, Answer, CreateAnswersAreTrue,
       GetAnswersAreTrue
  <2>3. QED
    BY <2>1, <2>2
<1>7. QED
  BY <1>3, <1>4, <1>5, <1>6 DEF AnswerInv

\* A new request has seen what is true now, and nothing it made.
LEMMA BeginStep ==
    ASSUME AnswerInv, NEW i \in ClusterId, NEW spec, NEW op, NEW first,
           Begin(op, i, spec, first),
           \/ op = "create" /\ first = "template"
           \/ op = "get" /\ first = "get"
    PROVE  AnswerInv'
<1>1. /\ pc' = first
      /\ request' = [op |-> op, id |-> i, spec |-> spec]
      /\ answer' = NoAnswer
      /\ saw' = Facts(store, request')
      /\ store' = store
  BY DEF Begin
<1>2. "made" \notin saw'
  BY <1>1 DEF Facts
<1>3. Running'
  BY <1>1 DEF Running
<1>4. Stage'
  BY <1>1, <1>2 DEF Stage, Creating, Getting
<1>5. Shapes'
  BY <1>1 DEF AnswerInv, Shapes, NoAnswer, Answer
<1>6. CreateAnswersAreTrue' /\ GetAnswersAreTrue'
  BY <1>1 DEF NoAnswer, Answer, CreateAnswersAreTrue, GetAnswersAreTrue
<1>7. QED
  BY <1>3, <1>4, <1>5, <1>6 DEF AnswerInv

\* The create request, RPC by RPC.
LEMMA CreateStep ==
    ASSUME AnswerInv,
           \/ GetTemplate \/ ListVersions \/ CreateCluster
           \/ AlreadyExists \/ CreateFails \/ GetExisting
    PROVE  AnswerInv'
<1> USE OwnCodes
<1>s. store = [i \in ClusterId |-> store[i]]
  BY DEF AnswerInv, Shapes
<1>c. Created = [i \in ClusterId |-> Created[i]]
  BY <1>s DEF Created
<1>1. CASE GetTemplate
  <2>0. /\ pc = "template" /\ request.op = "create" /\ "made" \notin saw
        /\ store' = store /\ saw' = saw
    BY <1>1 DEF GetTemplate, AnswerInv, Stage, Creating
  <2>1. CASE Fail("InvalidArgument")
    BY <2>0, <2>1, <1>s, RespondStep DEF Fail
  <2>2. CASE pc' = "versions" /\ UNCHANGED <<request, answer>>
    BY <2>0, <2>2, NextCall
  <2>3. QED
    BY <1>1, <2>1, <2>2 DEF GetTemplate
<1>2. CASE ListVersions
  <2>0. /\ pc = "versions" /\ request.op = "create" /\ "made" \notin saw
        /\ store' = store /\ saw' = saw
    BY <1>2 DEF ListVersions, AnswerInv, Stage, Creating
  <2>1. CASE Fail("InvalidArgument")
    BY <2>0, <2>1, <1>s, RespondStep DEF Fail
  <2>2. CASE pc' = "create" /\ UNCHANGED <<request, answer>>
    BY <2>0, <2>2, NextCall
  <2>3. QED
    BY <1>2, <2>1, <2>2 DEF ListVersions
<1>3. CASE CreateCluster
  <2>1. /\ request.op = "create" /\ "made" \in saw' /\ store' = Created
        /\ Respond(201, "omitted")
    BY <1>3 DEF CreateCluster, AnswerInv, Stage, Creating
  <2>2. QED
    BY <2>1, <1>c, RespondStep DEF Refused
<1>4. CASE AlreadyExists
  <2>1. /\ pc = "create" /\ pc' = "existing" /\ ~Free
        /\ UNCHANGED <<store, request, answer, saw>>
    BY <1>4 DEF AlreadyExists
  <2>2. request.op = "create" /\ Facts(store, request) \subseteq saw
    BY <2>1 DEF AnswerInv, Running, Stage, Creating
  <2>3. saw \cap {"there", "taken"} # {}
    BY <2>1, <2>2 DEF Facts, Free
  <2>4. QED
    BY <2>1, <2>3, NextCall
<1>5. CASE CreateFails
  <2>0. pc = "create" /\ "made" \notin saw
    BY <1>5 DEF CreateFails, AnswerInv, Stage, Creating
  <2>1. ASSUME NEW code \in RpcCode \ {"AlreadyExists"}, Fail(code), UNCHANGED <<store, saw>>
        PROVE  AnswerInv'
    BY <2>0, <2>1, <1>s, FailStep
  <2>2. ASSUME NEW code \in LostCode, Fail(code), store' = Created
        PROVE  AnswerInv'
    <3>1. code \in RpcCode /\ code # "AlreadyExists"
      BY ClusterAssumption, OwnCodes
    <3>2. QED
      BY <2>0, <2>2, <3>1, <1>c, FailStep
  <2>3. QED
    BY <1>5, <2>1, <2>2 DEF CreateFails
<1>6. CASE GetExisting
  <2>1. /\ pc = "existing" /\ request.op = "create" /\ "made" \notin saw
        /\ saw \cap {"there", "taken"} # {}
        /\ Facts(store, request) \subseteq saw
        /\ store' = store /\ saw' = saw
    BY <1>6 DEF GetExisting, AnswerInv, Running, Stage, Creating
  <2>2. CASE store[request.id] # None /\ Respond(201, "omitted")
    <3>1. "there" \in saw
      BY <2>1, <2>2 DEF Facts
    <3>2. QED
      BY <2>1, <2>2, <3>1, <1>s, RespondStep
  <2>3. CASE Fail("AlreadyExists")
    <3>1. CASE store[request.id] # None
      BY <1>6, <2>2, <3>1 DEF GetExisting
    <3>2. CASE store[request.id] = None
      <4>1. "absent" \in saw
        BY <2>1, <3>2 DEF Facts
      <4>2. QED
        BY <2>1, <2>3, <4>1, <1>s, RespondStep DEF Fail
    <3>3. QED
      BY <3>1, <3>2
  <2>4. QED
    BY <1>6, <2>2, <2>3 DEF GetExisting
<1>7. QED
  BY <1>1, <1>2, <1>3, <1>4, <1>5, <1>6

\* The get request: what the first RPC read may be stale at the second, but
\* both were true when they were read.
LEMMA GetStep == AnswerInv /\ (GetCluster \/ GetSecret) => AnswerInv'
<1> SUFFICES ASSUME AnswerInv, GetCluster \/ GetSecret
             PROVE  AnswerInv'
  OBVIOUS
<1> USE OwnCodes
<1>p. pc \in Getting /\ store' = store /\ saw' = saw
  BY DEF GetCluster, GetSecret, Getting
<1>0. /\ request.op = "get" /\ Facts(store, request) \subseteq saw
      /\ store' = store /\ saw' = saw
      /\ store' = [i \in ClusterId |-> store'[i]]
  <2>1. request.op = "get" /\ Facts(store, request) \subseteq saw
    BY <1>p DEF AnswerInv, Running, Stage, Getting
  <2>2. store' = [i \in ClusterId |-> store'[i]]
    BY <1>p DEF AnswerInv, Shapes
  <2>3. QED
    BY <1>p, <2>1, <2>2
<1>1. CASE GetCluster
  <2> DEFINE c == store[request.id]
  <2>1. CASE c = None /\ Fail("NotFound")
    <3>1. "absent" \in saw
      BY <1>0, <2>1 DEF Facts
    <3>2. QED
      BY <1>0, <2>1, <3>1, RespondStep DEF Fail
  <2>2. CASE c # None /\ ~Active(c) /\ Respond(200, "empty")
    <3>1. "inactive" \in saw
      BY <1>0, <2>2 DEF Facts
    <3>2. QED
      BY <1>0, <2>2, <3>1, RespondStep
  <2>3. CASE Fail("Internal")
    BY <1>0, <2>3, RespondStep DEF Fail
  <2>4. CASE c # None /\ Active(c) /\ pc' = "secret" /\ UNCHANGED <<request, answer>>
    <3>1. "active" \in saw
      BY <1>0, <2>4 DEF Facts
    <3>2. QED
      BY <1>0, <1>1, <2>4, <3>1, NextCall DEF GetCluster
  <2>5. QED
    BY <1>1, <2>1, <2>2, <2>3, <2>4 DEF GetCluster
<1>2. CASE GetSecret
  <2>1. CASE Secret = "data" /\ Respond(200, "data")
    <3>1. "active" \in saw
      BY <1>2 DEF GetSecret, AnswerInv, Stage
    <3>2. "data" \in saw
      BY <1>0, <2>1 DEF Facts, Secret
    <3>3. QED
      BY <1>0, <2>1, <3>1, <3>2, RespondStep
  <2>2. CASE Fail("Internal")
    BY <1>0, <2>2, RespondStep DEF Fail
  <2>3. QED
    BY <1>2, <2>1, <2>2 DEF GetSecret
<1>3. QED
  BY <1>1, <1>2

\* Requests that are over in one step.
LEMMA OneStepRequests ==
    ASSUME AnswerInv, NEW i \in ClusterId,
           (\E spec \in CreateSpec : RejectCreate(i, spec)) \/ DeleteCluster(i)
    PROVE  AnswerInv'
<1>s. store = [k \in ClusterId |-> store[k]]
  BY DEF AnswerInv, Shapes
<1>1. ASSUME NEW spec \in CreateSpec, RejectCreate(i, spec)
      PROVE  AnswerInv'
  <2>1. /\ pc' = "idle" /\ store' = store
        /\ request' = [op |-> "create", id |-> i, spec |-> spec]
        /\ answer' = [status |-> 400, kubeconfig |-> "omitted", after |-> "none"]
        /\ saw' = Facts(store, request')
    BY <1>1 DEF RejectCreate, Answer
  <2>2. "made" \notin saw'
    BY <2>1 DEF Facts
  <2>3. Running' /\ Stage'
    BY <2>1 DEF Running, Stage, Creating, Getting
  <2>4. Shapes'
    BY <2>1, <1>s DEF Shapes, Answer
  <2>5. CreateAnswersAreTrue' /\ GetAnswersAreTrue'
    BY <2>1, <2>2 DEF CreateAnswersAreTrue, GetAnswersAreTrue
  <2>6. QED
    BY <2>3, <2>4, <2>5 DEF AnswerInv
<1>2. CASE DeleteCluster(i)
  <2>1. pc' = "idle" /\ request' = [op |-> "delete", id |-> i, spec |-> None]
    BY <1>2 DEF DeleteCluster
  <2>2. store' = [k \in ClusterId |-> store'[k]]
    BY <1>2, <1>s DEF DeleteCluster
  <2>3. answer' = Answer(answer'.status, answer'.kubeconfig, answer'.after)
    BY <1>2 DEF DeleteCluster, Answer
  <2>4. Running' /\ Stage'
    BY <2>1 DEF Running, Stage, Creating, Getting
  <2>5. Shapes'
    BY <2>2, <2>3 DEF Shapes
  <2>6. CreateAnswersAreTrue' /\ GetAnswersAreTrue'
    BY <2>1 DEF CreateAnswersAreTrue, GetAnswersAreTrue
  <2>7. QED
    BY <2>4, <2>5, <2>6 DEF AnswerInv
<1>3. QED
  BY <1>1, <1>2

\* OSAC and its other clients, between any two RPCs.
LEMMA OsacStep ==
    ASSUME AnswerInv, NEW i \in ClusterId,
           \/ OthersDelete(i)
           \/ \E n \in Name : OthersCreate(i, n)
           \/ \E s \in OsacState, k \in Kubeconfig : OsacReports(i, s, k)
    PROVE  AnswerInv'
<1>s. store = [k \in ClusterId |-> store[k]]
  BY DEF AnswerInv, Shapes
<1>1. CASE OthersDelete(i)
  BY <1>1, <1>s, ChangesStep DEF OthersDelete
<1>2. ASSUME NEW n \in Name, OthersCreate(i, n)
      PROVE  AnswerInv'
  BY <1>2, <1>s, ChangesStep DEF OthersCreate
<1>3. ASSUME NEW t \in OsacState, NEW k \in Kubeconfig, OsacReports(i, t, k)
      PROVE  AnswerInv'
  BY <1>3, <1>s, ChangesStep DEF OsacReports
<1>4. QED
  BY <1>1, <1>2, <1>3

\* Every step keeps the invariant.
LEMMA AnswerStep == AnswerInv /\ [Next]_vars => AnswerInv'
<1> SUFFICES ASSUME AnswerInv, [Next]_vars
             PROVE  AnswerInv'
  OBVIOUS
<1>1. ASSUME NEW i \in ClusterId, NEW spec \in CreateSpec, BeginCreate(i, spec)
      PROVE  AnswerInv'
  BY <1>1, BeginStep DEF BeginCreate
<1>2. ASSUME NEW i \in ClusterId, BeginGet(i)
      PROVE  AnswerInv'
  BY <1>2, BeginStep DEF BeginGet
<1>3. CASE CallFails
  <2>1. PICK code \in ReadError(pc) : Fail(code)
    BY <1>3 DEF CallFails
  <2>2. store' = [i \in ClusterId |-> store'[i]] /\ saw' = saw /\ pc # "idle"
    BY <1>3 DEF CallFails, AnswerInv, Shapes
  <2>3. /\ code \in RpcCode /\ code # "AlreadyExists"
        /\ code = "NotFound" => pc \in {"versions", "create"}
    BY DEF ReadError
  <2>4. request.op = "create" => "made" \notin saw'
    BY <2>2 DEF AnswerInv, Stage, Creating, Getting
  <2>5. QED
    BY <2>1, <2>2, <2>3, <2>4, FailStep
<1>4. CASE UNCHANGED vars
  <2>1. Running' /\ Stage' /\ Shapes'
    BY <1>4 DEF vars, AnswerInv, Running, Stage, Shapes
  <2>2. CreateAnswersAreTrue' /\ GetAnswersAreTrue'
    BY <1>4 DEF vars, AnswerInv, CreateAnswersAreTrue, GetAnswersAreTrue
  <2>3. QED
    BY <2>1, <2>2 DEF AnswerInv
<1>5. QED
  BY <1>1, <1>2, <1>3, <1>4, CreateStep, GetStep, OneStepRequests, OsacStep
     DEF Next

-----------------------------------------------------------------------------

\* The inductive invariant holds in every reachable state.
THEOREM AnswersInductive == Spec => []AnswerInv
  BY AnswerInit, AnswerStep, PTL DEF Spec

\* REQ-CREATE-040/100, DD-100: whatever codes OSAC answers with, and whatever
\* happens to the cluster or its name between the create, its conflict and the
\* get that answers for it, the status of a create is true.
THEOREM CreateTellsTheTruth == Spec => []CreateAnswersAreTrue
<1>1. AnswerInv => CreateAnswersAreTrue
  BY DEF AnswerInv
<1>2. QED
  BY <1>1, AnswersInductive, PTL

\* REQ-GET-020/030: whatever happens to the cluster or its secret between the
\* two reads, the answer of a get is true.
THEOREM GetTellsTheTruth == Spec => []GetAnswersAreTrue
<1>1. AnswerInv => GetAnswersAreTrue
  BY DEF AnswerInv
<1>2. QED
  BY <1>1, AnswersInductive, PTL

-----------------------------------------------------------------------------
(* resolveVersion: what the loop over the catalog selects.                 *)

\* A run of the loop.
IsSelection(f, cat, minor) ==
    f = [n \in 0 .. Len(cat) |->
            IF n = 0 THEN None
            ELSE IF Eligible(cat[n], minor) /\ Better(cat[n], f[n - 1])
                 THEN cat[n] ELSE f[n - 1]]

\* The loop has a run, so what it returns is the last value of one.
LEMMA SelectionDefined ==
    ASSUME NEW cat \in Seq(Version), NEW minor
    PROVE  \E f : IsSelection(f, cat, minor) /\ resolveVersion(cat, minor) = f[Len(cat)]
<1>0. Len(cat) \in Nat /\ \A n \in 1 .. Len(cat) : cat[n] \in Version
  OBVIOUS
<1>1. PICK V : V = Version \cup {None}
  OBVIOUS
<1>2. PICK F : F = [n \in 1 .. Len(cat) |-> [v \in V |->
                      IF Eligible(cat[n], minor) /\ Better(cat[n], v) THEN cat[n] ELSE v]]
  OBVIOUS
<1>3. F \in [1 .. Len(cat) -> [V -> V]]
  BY <1>0, <1>1, <1>2
<1>4. None \in V
  BY <1>1
<1>5. PICK g : g \in LoopRuns(Len(cat), V, None, F)
  BY <1>0, <1>3, <1>4, RunExists
<1>6. /\ g \in [0 .. Len(cat) -> V] /\ g[0] = None
      /\ \A n \in 1 .. Len(cat) : g[n] = F[n][g[n - 1]]
  BY <1>5 DEF LoopRuns
<1>7. ASSUME NEW n \in 1 .. Len(cat)
      PROVE  g[n] = IF Eligible(cat[n], minor) /\ Better(cat[n], g[n - 1])
                    THEN cat[n] ELSE g[n - 1]
  <2>1. n - 1 \in 0 .. Len(cat)
    BY <1>0
  <2>2. g[n - 1] \in V
    BY <1>6, <2>1
  <2>3. QED
    BY <1>2, <1>6, <2>2
<1>8. IsSelection(g, cat, minor)
  BY <1>0, <1>6, <1>7 DEF IsSelection
<1>9. PICK h : h = CHOOSE f : IsSelection(f, cat, minor)
  OBVIOUS
<1>10. IsSelection(h, cat, minor)
  BY <1>8, <1>9
<1>11. resolveVersion(cat, minor) = h[Len(cat)]
  BY <1>9 DEF resolveVersion, IsSelection
<1>12. QED
  BY <1>10, <1>11

\* v is the newest of the versions in S, under the smallest of its names.
NewestOf(v, S) ==
    /\ v \in S
    /\ \A w \in S : w.patch < v.patch \/ (w.patch = v.patch /\ w.name >= v.name)

\* v is the right choice from S: its newest, or None if there is nothing.
IsChoice(v, S) == IF S = {} THEN v = None ELSE NewestOf(v, S)

\* What can serve the minor version among the first n of the catalog.
Serving(cat, minor, n) == {v \in {cat[m] : m \in 1 .. n} : Eligible(v, minor)}

\* One round: the selection stays the newest of what was looked at.
LEMMA SelectionRound ==
    ASSUME NEW S, S \subseteq Version, NEW v \in Version, NEW T,
           NEW selected, NEW next,
           IsChoice(selected, S),
           NEW e \in BOOLEAN,
           T = IF e THEN S \cup {v} ELSE S,
           next = IF e /\ Better(v, selected) THEN v ELSE selected
    PROVE  IsChoice(next, T)
<1> USE DEF IsChoice
<1>n. None \notin Version
  BY ClusterAssumption
<1>t. \A w \in Version : w.patch \in Int /\ w.name \in Int
  BY DEF Version
<1>1. CASE ~e
  BY <1>1
<1>2. CASE e /\ S = {}
  <2>1. next = v /\ T = {v}
    BY <1>2 DEF Better
  <2>2. QED
    BY <2>1, <1>t DEF NewestOf
<1>3. CASE e /\ S # {}
  <2>1. selected \in S /\ selected # None /\ T = S \cup {v}
    BY <1>3, <1>n DEF NewestOf
  <2>2. \A w \in S : \/ w.patch < selected.patch
                     \/ w.patch = selected.patch /\ w.name >= selected.name
    BY <1>3 DEF NewestOf
  <2>3. CASE Better(v, selected)
    <3>1. \/ v.patch > selected.patch
          \/ v.patch = selected.patch /\ v.name < selected.name
      BY <2>1, <2>3 DEF Better
    <3>2. \A w \in T : w.patch < v.patch \/ (w.patch = v.patch /\ w.name >= v.name)
      BY <1>t, <2>1, <2>2, <3>1
    <3>3. QED
      BY <1>3, <2>1, <2>3, <3>2 DEF NewestOf
  <2>4. CASE ~Better(v, selected)
    <3>1. \/ v.patch < selected.patch
          \/ v.patch = selected.patch /\ v.name >= selected.name
      BY <1>t, <2>1, <2>4 DEF Better
    <3>2. QED
      BY <1>3, <2>1, <2>2, <2>4, <3>1 DEF NewestOf
  <2>5. QED
    BY <2>3, <2>4
<1>4. QED
  BY <1>1, <1>2, <1>3

\* resolveVersion returns the newest version that can serve the minor version,
\* and None only if there is none, for every catalog.
LEMMA SelectsNewest ==
    ASSUME NEW cat \in Seq(Version), NEW minor
    PROVE  IsChoice(resolveVersion(cat, minor), Serving(cat, minor, Len(cat)))
<1>0. Len(cat) \in Nat /\ \A n \in 1 .. Len(cat) : cat[n] \in Version
  OBVIOUS
<1>1. PICK f : IsSelection(f, cat, minor) /\ resolveVersion(cat, minor) = f[Len(cat)]
  BY SelectionDefined
<1>2. f[0] = None
  BY <1>0, <1>1 DEF IsSelection
<1>3. \A n \in 1 .. Len(cat) : f[n] = IF Eligible(cat[n], minor) /\ Better(cat[n], f[n - 1])
                                       THEN cat[n] ELSE f[n - 1]
  BY <1>0, <1>1 DEF IsSelection
<1> DEFINE Ns == {n \in Nat : n =< Len(cat) => IsChoice(f[n], Serving(cat, minor, n))}
<1>4. 0 \in Ns
  <2>1. Serving(cat, minor, 0) = {}
    BY DEF Serving
  <2>2. QED
    BY <1>2, <2>1 DEF IsChoice
<1>5. ASSUME NEW n \in Nat, n \in Ns
      PROVE  n + 1 \in Ns
  <2> SUFFICES ASSUME n + 1 =< Len(cat)
               PROVE  IsChoice(f[n + 1], Serving(cat, minor, n + 1))
    OBVIOUS
  <2>1. n + 1 \in 1 .. Len(cat) /\ (n + 1) - 1 = n /\ IsChoice(f[n], Serving(cat, minor, n))
    BY <1>0, <1>5
  <2>2. PICK e \in BOOLEAN : e = Eligible(cat[n + 1], minor)
    BY DEF Eligible
  <2>3. Serving(cat, minor, n) \subseteq Version
    BY <1>0, <2>1 DEF Serving
  <2>4. Serving(cat, minor, n + 1) =
            IF e THEN Serving(cat, minor, n) \cup {cat[n + 1]} ELSE Serving(cat, minor, n)
    <3>1. 1 .. n + 1 = (1 .. n) \cup {n + 1}
      OBVIOUS
    <3>2. QED
      BY <2>2, <3>1 DEF Serving
  <2>5. f[n + 1] = IF e /\ Better(cat[n + 1], f[n]) THEN cat[n + 1] ELSE f[n]
    BY <1>3, <2>1, <2>2
  <2>6. cat[n + 1] \in Version
    BY <1>0, <2>1
  <2>7. QED
    BY <2>1, <2>3, <2>4, <2>5, <2>6, SelectionRound
<1> HIDE DEF Ns
<1>6. \A n \in Nat : n \in Ns
  BY <1>4, <1>5, InductionOnSet
<1>7. IsChoice(f[Len(cat)], Serving(cat, minor, Len(cat)))
  BY <1>0, <1>6 DEF Ns
<1>8. QED
  BY <1>1, <1>7

-----------------------------------------------------------------------------
(* toOSACCluster: labels and node counts.                                  *)

\* A count that the handler accepts survives the conversion to int32.
LEMMA CountFits ==
    ASSUME NEW n \in Int, n > 0, n =< MaxInt32
    PROVE  int32(n) = n
<1>1. MaxInt32 \in Nat
  BY ClusterTranslateAssumption
<1>2. PICK m \in Nat : m = n + MaxInt32 + 1
  BY <1>1
<1>3. PICK d \in Nat : d = 2 * (MaxInt32 + 1)
  BY <1>1
<1>4. m < d /\ d > 0
  BY <1>1, <1>2, <1>3
<1>5. m % d = m
  BY <1>4
<1>6. QED
  BY <1>1, <1>2, <1>3, <1>5 DEF int32

\* Whatever labels the caller chose, the ownership labels are there.
LEMMA LabelsWin ==
    ASSUME NEW caller, NEW id
    PROVE  /\ mergeLabels(caller, id)["managed-by"] = "dcm"
           /\ mergeLabels(caller, id)["instance-id"] = id
           /\ ownershipFilter(mergeLabels(caller, id))
<1>1. /\ DOMAIN ownershipLabels(id) = {"managed-by", "instance-id", "service-type"}
      /\ ownershipLabels(id)["managed-by"] = "dcm"
      /\ ownershipLabels(id)["instance-id"] = id
  BY DEF ownershipLabels
<1>2. PICK D : D = (DOMAIN caller) \cup (DOMAIN ownershipLabels(id))
  OBVIOUS
<1>3. mergeLabels(caller, id) = [k \in D |->
        IF k \in DOMAIN ownershipLabels(id) THEN ownershipLabels(id)[k] ELSE caller[k]]
  BY <1>2 DEF mergeLabels
<1>4. QED
  BY <1>1, <1>2, <1>3 DEF ownershipFilter

-----------------------------------------------------------------------------
(* List: what InOrder lists, and what following the tokens collects.       *)

\* A run of the enumeration, and a round of it.
WithId(s, ids, n) == IF n \in ids THEN Append(s, n) ELSE s
IsListing(f, ids) ==
    f = [n \in 0 .. MaxClusters |-> IF n = 0 THEN <<>> ELSE WithId(f[n - 1], ids, n)]

\* InOrder is the end of such a run.
LEMMA ListingDefined ==
    ASSUME NEW ids
    PROVE  \E f : IsListing(f, ids) /\ InOrder(ids) = f[MaxClusters]
<1>0. MaxClusters \in Nat
  BY ClusterAssumption
<1>1. PICK V : V = Seq(Nat)
  OBVIOUS
<1>2. PICK F : F = [n \in 1 .. MaxClusters |-> [v \in V |-> WithId(v, ids, n)]]
  OBVIOUS
<1>3. F \in [1 .. MaxClusters -> [V -> V]]
  <2>1. \A n \in Nat, v \in V : WithId(v, ids, n) \in V
    BY <1>1 DEF WithId
  <2>2. QED
    BY <1>0, <1>2, <2>1
<1>4. <<>> \in V
  BY <1>1
<1>5. PICK g : g \in LoopRuns(MaxClusters, V, <<>>, F)
  BY <1>0, <1>3, <1>4, RunExists
<1>6. /\ g \in [0 .. MaxClusters -> V] /\ g[0] = <<>>
      /\ \A n \in 1 .. MaxClusters : g[n] = F[n][g[n - 1]]
  BY <1>5 DEF LoopRuns
<1>7. ASSUME NEW n \in 1 .. MaxClusters
      PROVE  g[n] = WithId(g[n - 1], ids, n)
  <2>1. n - 1 \in 0 .. MaxClusters
    BY <1>0
  <2>2. g[n - 1] \in V
    BY <1>6, <2>1
  <2>3. QED
    BY <1>2, <1>6, <2>2
<1>8. IsListing(g, ids)
  BY <1>0, <1>6, <1>7 DEF IsListing
<1>9. PICK h : h = CHOOSE f : IsListing(f, ids)
  OBVIOUS
<1>10. IsListing(h, ids)
  BY <1>8, <1>9
<1>11. InOrder(ids) = h[MaxClusters]
  BY <1>9 DEF InOrder, IsListing, WithId
<1>12. QED
  BY <1>10, <1>11

\* s lists the members of ids up to n, each once and in increasing order.
Lists(s, ids, n) ==
    /\ s \in Seq(Nat) /\ Len(s) =< n
    /\ {s[k] : k \in 1 .. Len(s)} = ids \cap (1 .. n)
    /\ \A j, k \in 1 .. Len(s) : j < k => s[j] < s[k]

LEMMA ListsRound ==
    ASSUME NEW n \in Nat, NEW ids, NEW s, Lists(s, ids, n)
    PROVE  Lists(WithId(s, ids, n + 1), ids, n + 1)
<1>0. 1 .. n + 1 = (1 .. n) \cup {n + 1}
  OBVIOUS
<1>1. /\ s \in Seq(Nat) /\ Len(s) =< n /\ Len(s) \in Nat
      /\ {s[k] : k \in 1 .. Len(s)} = ids \cap (1 .. n)
      /\ \A j, k \in 1 .. Len(s) : j < k => s[j] < s[k]
  BY DEF Lists
<1>2. CASE n + 1 \notin ids
  BY <1>0, <1>1, <1>2 DEF Lists, WithId
<1>3. CASE n + 1 \in ids
  <2>1. PICK t : t = Append(s, n + 1)
    OBVIOUS
  <2>2. /\ t \in Seq(Nat) /\ Len(t) = Len(s) + 1 /\ t[Len(s) + 1] = n + 1
        /\ \A k \in 1 .. Len(s) : t[k] = s[k]
    BY <1>1, <2>1
  <2>3. 1 .. Len(t) = (1 .. Len(s)) \cup {Len(s) + 1}
    BY <1>1, <2>2
  <2>4. {t[k] : k \in 1 .. Len(t)} = ids \cap (1 .. n + 1)
    <3>1. {t[k] : k \in 1 .. Len(t)} = {s[k] : k \in 1 .. Len(s)} \cup {n + 1}
      BY <2>2, <2>3
    <3>2. QED
      BY <1>0, <1>1, <1>3, <3>1
  <2>5. ASSUME NEW j \in 1 .. Len(t), NEW k \in 1 .. Len(t), j < k
        PROVE  t[j] < t[k]
    <3>1. j \in 1 .. Len(s) /\ t[j] = s[j]
      BY <1>1, <2>2, <2>5
    <3>2. CASE k \in 1 .. Len(s)
      BY <1>1, <2>2, <2>5, <3>1, <3>2
    <3>3. CASE k = Len(s) + 1
      <4>1. s[j] \in 1 .. n
        BY <1>1, <3>1
      <4>2. QED
        BY <2>2, <3>1, <3>3, <4>1
    <3>4. QED
      BY <2>3, <3>2, <3>3
  <2>6. Lists(t, ids, n + 1)
    BY <1>1, <2>2, <2>4, <2>5 DEF Lists
  <2>7. QED
    BY <1>3, <2>1, <2>6 DEF WithId
<1>4. QED
  BY <1>2, <1>3

\* InOrder lists every id of the set once, in increasing order, and nothing else.
LEMMA InOrderLists ==
    ASSUME NEW ids
    PROVE  Lists(InOrder(ids), ids, MaxClusters)
<1>0. MaxClusters \in Nat
  BY ClusterAssumption
<1>1. PICK f : IsListing(f, ids) /\ InOrder(ids) = f[MaxClusters]
  BY ListingDefined
<1>2. f[0] = <<>>
  BY <1>0, <1>1 DEF IsListing
<1>3. \A n \in 1 .. MaxClusters : f[n] = WithId(f[n - 1], ids, n)
  BY <1>0, <1>1 DEF IsListing
<1> DEFINE Ns == {n \in Nat : n =< MaxClusters => Lists(f[n], ids, n)}
<1>4. 0 \in Ns
  <2>1. <<>> \in Seq(Nat) /\ Len(<<>>) = 0 /\ 1 .. 0 = {}
    OBVIOUS
  <2>2. Lists(<<>>, ids, 0)
    BY <2>1 DEF Lists
  <2>3. QED
    BY <1>2, <2>2
<1>5. ASSUME NEW n \in Nat, n \in Ns
      PROVE  n + 1 \in Ns
  <2> SUFFICES ASSUME n + 1 =< MaxClusters
               PROVE  Lists(f[n + 1], ids, n + 1)
    OBVIOUS
  <2>1. n + 1 \in 1 .. MaxClusters /\ (n + 1) - 1 = n /\ Lists(f[n], ids, n)
    BY <1>0, <1>5
  <2>2. f[n + 1] = WithId(f[n], ids, n + 1)
    BY <1>3, <2>1
  <2>3. QED
    BY <2>1, <2>2, ListsRound
<1> HIDE DEF Ns
<1>6. \A n \in Nat : n \in Ns
  BY <1>4, <1>5, InductionOnSet
<1>7. QED
  BY <1>0, <1>1, <1>6 DEF Ns

\* A limit that is not an error is positive.
LEMMA LimitPositive ==
    ASSUME NEW size \in PageSizes, NormalizeMaxPageSize(size) # None
    PROVE  NormalizeMaxPageSize(size) \in Nat \ {0}
<1>1. /\ defaultPageSize \in Nat \ {0} /\ maxPageSize \in Nat \ {0}
      /\ size \in Int \/ size = None
  BY ClusterAssumption, ClusterTranslateAssumption
<1>2. CASE size = None
  BY <1>1, <1>2 DEF NormalizeMaxPageSize
<1>3. CASE size # None
  BY <1>1, <1>3 DEF NormalizeMaxPageSize
<1>4. QED
  BY <1>2, <1>3

\* A page from the offset to e: without a token at the end, or if OSAC puts
\* nothing on that page, and otherwise with the one that leads to e.
IsPage(page, all, offset, e, most) ==
    /\ page.items = SubSeq(all, offset + 1, e)
    /\ \/ page.token = None /\ (e = Len(all) \/ most[offset] = 0)
       \/ offset < e /\ e < Len(all) /\ page.token = encodePageToken(e)

\* What OSAC has of this provider is a sequence no longer than offsets go.
LEMMA MatchingType ==
    ASSUME NEW st, NEW all, all = Matching(st)
    PROVE  /\ all \in Seq(Nat) /\ Len(all) \in Nat /\ MaxClusters \in Nat \ {0}
           /\ Len(all) =< MaxClusters /\ MaxClusters =< MaxInt32 /\ MaxInt32 \in Nat
<1>1. all \in Seq(Nat) /\ Len(all) =< MaxClusters
  BY InOrderLists DEF Matching, Lists
<1>2. QED
  BY <1>1, ClusterAssumption, ClusterTranslateAssumption

\* A token is no nil, and is read as the offset it was made from.
LEMMA TokensDecode ==
    ASSUME NEW o \in Nat, o =< MaxInt32
    PROVE  encodePageToken(o) # None /\ decodePageToken(encodePageToken(o)) = o
<1>1. encodePageToken(o) # None
  BY ClusterAssumption DEF encodePageToken
<1>2. MaxInt32 \in Nat
  BY ClusterTranslateAssumption
<1>3. QED
  BY <1>1, <1>2 DEF encodePageToken, decodePageToken

\* Every page is such a page, though OSAC may put less on it than was asked for.
LEMMA PageShape ==
    ASSUME NEW size \in PageSizes, NormalizeMaxPageSize(size) # None, NEW st,
           NEW most \in OsacPages, NEW all, all = Matching(st), NEW offset \in 0 .. Len(all)
    PROVE  \E e \in offset .. Len(all) : IsPage(List(st, size, offset, most), all, offset, e, most)
<1>1. /\ all \in Seq(Nat) /\ Len(all) \in Nat /\ MaxClusters \in Nat /\ Len(all) =< MaxClusters
      /\ offset \in Nat /\ offset =< Len(all)
  BY MatchingType
<1>2. PICK limit \in Nat \ {0} : limit = NormalizeMaxPageSize(size)
  BY LimitPositive
<1>m. most[offset] \in Nat
  <2>1. most \in [0 .. MaxClusters -> Nat] /\ offset \in 0 .. MaxClusters
    BY <1>1, ClusterAssumption
  <2>2. QED
    BY <2>1
<1>3. PICK k \in Nat : k = Smaller(limit, most[offset])
  BY <1>2, <1>m DEF Smaller
<1>4. k = 0 => most[offset] = 0
  BY <1>2, <1>3, <1>m DEF Smaller
<1>5. PICK e \in offset .. Len(all) : e = Smaller(offset + k, Len(all))
  BY <1>1, <1>3 DEF Smaller
<1>6. e = Len(all) \/ e = offset + k
  BY <1>5 DEF Smaller
<1>7. PICK items : items = SubSeq(all, offset + 1, e)
  OBVIOUS
<1>8. Len(items) = e - offset /\ items \in Seq(Nat)
  BY <1>1, <1>5, <1>7
<1>9. items = <<>> <=> e = offset
  BY <1>1, <1>5, <1>8
<1>10. offset + Len(items) = e
  BY <1>1, <1>5, <1>8
<1>11. PICK page : page = List(st, size, offset, most)
  OBVIOUS
<1>12. /\ page.items = items
       /\ page.token = IF items # <<>> /\ e < Len(all) THEN encodePageToken(e) ELSE None
  BY <1>2, <1>3, <1>5, <1>7, <1>10, <1>11 DEF List, OsacPage, nextOffset
<1>13. CASE items # <<>> /\ e < Len(all)
  <2>1. offset < e
    BY <1>1, <1>5, <1>9, <1>13
  <2>2. page.token = encodePageToken(e)
    BY <1>12, <1>13
  <2>3. QED
    BY <1>5, <1>7, <1>11, <1>12, <1>13, <2>1, <2>2 DEF IsPage
<1>14. CASE ~(items # <<>> /\ e < Len(all))
  <2>1. page.token = None
    BY <1>12, <1>14
  <2>2. e = Len(all) \/ most[offset] = 0
    <3>1. CASE e = Len(all)
      BY <3>1
    <3>2. CASE e # Len(all)
      <4>1. e = offset
        BY <1>1, <1>5, <1>9, <1>14, <3>2
      <4>2. k = 0
        BY <1>1, <1>3, <1>6, <3>2, <4>1
      <4>3. QED
        BY <1>4, <4>2
    <3>3. QED
      BY <3>1, <3>2
  <2>3. QED
    BY <1>5, <1>7, <1>11, <1>12, <2>1, <2>2 DEF IsPage
<1>15. QED
  BY <1>13, <1>14

\* A slice from the beginning and the slice that follows it make one slice.
LEMMA SlicesJoin ==
    ASSUME NEW s \in Seq(Nat), NEW o \in 0 .. Len(s), NEW e \in o .. Len(s)
    PROVE  SubSeq(s, 1, o) \o SubSeq(s, o + 1, e) = SubSeq(s, 1, e)
<1>0. Len(s) \in Nat /\ o \in Nat /\ e \in Nat /\ o =< e /\ e =< Len(s)
  OBVIOUS
<1>1. PICK a : a = SubSeq(s, 1, o)
  OBVIOUS
<1>2. PICK b : b = SubSeq(s, o + 1, e)
  OBVIOUS
<1>3. PICK c : c = SubSeq(s, 1, e)
  OBVIOUS
<1>4. a \in Seq(Nat) /\ Len(a) = o /\ \A i \in 1 .. o : a[i] = s[i]
  BY <1>0, <1>1
<1>5. b \in Seq(Nat) /\ Len(b) = e - o /\ \A i \in 1 .. e - o : b[i] = s[o + i]
  BY <1>0, <1>2
<1>6. c \in Seq(Nat) /\ Len(c) = e /\ \A i \in 1 .. e : c[i] = s[i]
  BY <1>0, <1>3
<1>7. /\ a \o b \in Seq(Nat) /\ Len(a \o b) = Len(a) + Len(b)
      /\ \A i \in 1 .. Len(a) + Len(b) :
            (a \o b)[i] = IF i <= Len(a) THEN a[i] ELSE b[i - Len(a)]
  BY <1>4, <1>5, ConcatProperties
<1>8. Len(a \o b) = Len(c)
  BY <1>0, <1>4, <1>5, <1>6, <1>7
<1>9. ASSUME NEW i \in 1 .. Len(a \o b)
      PROVE  (a \o b)[i] = c[i]
  <2>0. i \in 1 .. e /\ i \in 1 .. Len(a) + Len(b)
    BY <1>0, <1>6, <1>7, <1>8
  <2>1. CASE i =< o
    <3>1. i \in 1 .. o
      BY <1>0, <2>0, <2>1
    <3>2. (a \o b)[i] = a[i]
      BY <1>4, <1>7, <2>0, <2>1
    <3>3. QED
      BY <1>4, <1>6, <2>0, <3>1, <3>2
  <2>2. CASE ~(i =< o)
    <3>1. i - o \in 1 .. e - o /\ o + (i - o) = i
      BY <1>0, <2>0, <2>2
    <3>2. (a \o b)[i] = b[i - o]
      BY <1>0, <1>4, <1>7, <2>0, <2>2
    <3>3. QED
      BY <1>5, <1>6, <2>0, <3>1, <3>2
  <2>3. QED
    BY <2>1, <2>2
<1>10. a \o b = c
  BY <1>6, <1>7, <1>8, <1>9, SeqEqual
<1>11. QED
  BY <1>1, <1>2, <1>3, <1>10

\* What a caller has before the first request, what it has after one more, and a
\* run of requests.
Nothing == [items |-> <<>>, token |-> encodePageToken(0)]
Follow(v, size, most) ==
    IF v.token = None THEN v
    ELSE LET page == List(store, size, decodePageToken(v.token), most)
         IN [items |-> v.items \o page.items, token |-> page.token]
IsWalk(f, size, most) ==
    f = [n \in 0 .. MaxClusters |-> IF n = 0 THEN Nothing ELSE Follow(f[n - 1], size, most)]

\* There is such a run, so what is collected is the end of one.
LEMMA WalkDefined ==
    ASSUME NEW size \in PageSizes, NormalizeMaxPageSize(size) # None, NEW most \in OsacPages
    PROVE  \E f : IsWalk(f, size, most) /\ Collected(size, most) = f[MaxClusters]
<1>0. PICK all : all = Matching(store)
  OBVIOUS
<1>1. /\ all \in Seq(Nat) /\ Len(all) \in Nat /\ MaxClusters \in Nat
      /\ Len(all) =< MaxInt32 /\ MaxInt32 \in Nat
  BY <1>0, MatchingType
<1>2. PICK T : T = {None} \cup {encodePageToken(o) : o \in 0 .. Len(all)}
  OBVIOUS
<1>3. PICK V : V = [items : Seq(Nat), token : T]
  OBVIOUS
<1>4. PICK F : F = [n \in 1 .. MaxClusters |-> [v \in V |-> Follow(v, size, most)]]
  OBVIOUS
<1>5. ASSUME NEW v \in V
      PROVE  Follow(v, size, most) \in V
  <2>1. v.items \in Seq(Nat) /\ v.token \in T
    BY <1>3
  <2>2. CASE v.token = None
    BY <2>2 DEF Follow
  <2>3. CASE v.token # None
    <3>1. PICK o \in 0 .. Len(all) : v.token = encodePageToken(o)
      BY <1>2, <2>1, <2>3
    <3>2. decodePageToken(v.token) = o
      BY <1>1, <3>1, TokensDecode
    <3>3. PICK page : page = List(store, size, o, most)
      OBVIOUS
    <3>4. PICK e \in o .. Len(all) : IsPage(page, all, o, e, most)
      BY <1>0, <3>3, PageShape
    <3>5. page.items \in Seq(Nat)
      BY <1>1, <3>4 DEF IsPage
    <3>6. page.token \in T
      BY <1>1, <1>2, <3>4 DEF IsPage
    <3>7. Follow(v, size, most) = [items |-> v.items \o page.items, token |-> page.token]
      BY <2>3, <3>2, <3>3 DEF Follow
    <3>8. v.items \o page.items \in Seq(Nat)
      BY <2>1, <3>5, ConcatProperties
    <3>9. QED
      BY <1>3, <3>6, <3>7, <3>8
  <2>4. QED
    BY <2>2, <2>3
<1>6. F \in [1 .. MaxClusters -> [V -> V]]
  BY <1>4, <1>5
<1>7. Nothing \in V
  <2>1. encodePageToken(0) \in T
    BY <1>1, <1>2
  <2>2. QED
    BY <1>3, <2>1 DEF Nothing
<1>8. PICK g : g \in LoopRuns(MaxClusters, V, Nothing, F)
  BY <1>1, <1>6, <1>7, RunExists
<1>9. /\ g \in [0 .. MaxClusters -> V] /\ g[0] = Nothing
      /\ \A n \in 1 .. MaxClusters : g[n] = F[n][g[n - 1]]
  BY <1>8 DEF LoopRuns
<1>10. ASSUME NEW n \in 1 .. MaxClusters
       PROVE  g[n] = Follow(g[n - 1], size, most)
  <2>1. n - 1 \in 0 .. MaxClusters
    BY <1>1
  <2>2. g[n - 1] \in V
    BY <1>9, <2>1
  <2>3. QED
    BY <1>4, <1>9, <2>2
<1>11. IsWalk(g, size, most)
  BY <1>1, <1>9, <1>10 DEF IsWalk
<1>12. PICK h : h = CHOOSE f : IsWalk(f, size, most)
  OBVIOUS
<1>13. IsWalk(h, size, most)
  BY <1>11, <1>12
<1>14. Collected(size, most) = h[MaxClusters]
  BY <1>12 DEF Collected, IsWalk, Follow, Nothing
<1>15. QED
  BY <1>13, <1>14

\* What a caller has after n requests: the items before some offset, and with a
\* token the one that leads there, which is no less than n; without one it has
\* everything, or OSAC has left a page empty.
Ahead(v, all, n, most) ==
    \E o \in 0 .. Len(all) :
        /\ v.items = SubSeq(all, 1, o)
        /\ \/ v.token = None /\ (o = Len(all) \/ \E x \in DOMAIN most : most[x] = 0)
           \/ n =< o /\ (o = 0 \/ o < Len(all)) /\ v.token = encodePageToken(o)

\* One more request keeps it.
LEMMA AheadStep ==
    ASSUME NEW size \in PageSizes, NormalizeMaxPageSize(size) # None, NEW most \in OsacPages,
           NEW all, all = Matching(store), NEW n \in Nat, NEW v, Ahead(v, all, n, most)
    PROVE  Ahead(Follow(v, size, most), all, n + 1, most)
<1>1. /\ all \in Seq(Nat) /\ Len(all) \in Nat /\ MaxClusters \in Nat
      /\ Len(all) =< MaxClusters /\ MaxClusters =< MaxInt32 /\ MaxInt32 \in Nat
  BY MatchingType
<1>2. PICK o \in 0 .. Len(all) :
        /\ v.items = SubSeq(all, 1, o)
        /\ \/ v.token = None /\ (o = Len(all) \/ \E x \in DOMAIN most : most[x] = 0)
           \/ n =< o /\ (o = 0 \/ o < Len(all)) /\ v.token = encodePageToken(o)
  BY DEF Ahead
<1>3. encodePageToken(o) # None /\ decodePageToken(encodePageToken(o)) = o
  BY <1>1, TokensDecode
<1>4. CASE v.token = None
  <2>1. Follow(v, size, most) = v
    BY <1>4 DEF Follow
  <2>2. QED
    BY <1>2, <1>3, <1>4, <2>1 DEF Ahead
<1>5. CASE v.token = encodePageToken(o) /\ n =< o
  <2>1. PICK page : page = List(store, size, o, most)
    OBVIOUS
  <2>2. PICK w : w = [items |-> v.items \o page.items, token |-> page.token]
    OBVIOUS
  <2>3. Follow(v, size, most) = w
    BY <1>3, <1>5, <2>1, <2>2 DEF Follow
  <2>4. PICK e \in o .. Len(all) : IsPage(page, all, o, e, most)
    BY <2>1, PageShape
  <2>5. w.items = SubSeq(all, 1, e)
    <3>1. page.items = SubSeq(all, o + 1, e)
      BY <2>4 DEF IsPage
    <3>2. QED
      BY <1>1, <1>2, <2>2, <2>4, <3>1, SlicesJoin
  <2>6. e \in 0 .. Len(all)
    BY <1>1, <2>4
  <2>7. CASE w.token = None /\ (e = Len(all) \/ most[o] = 0)
    <3>1. o \in DOMAIN most
      BY <1>1, ClusterAssumption
    <3>2. QED
      BY <2>3, <2>5, <2>6, <2>7, <3>1 DEF Ahead
  <2>8. CASE o < e /\ e < Len(all) /\ w.token = encodePageToken(e)
    <3>1. n + 1 =< e
      BY <1>1, <1>5, <2>6, <2>8
    <3>2. QED
      BY <2>3, <2>5, <2>6, <2>8, <3>1 DEF Ahead
  <2>9. QED
    BY <2>2, <2>4, <2>7, <2>8 DEF IsPage
<1>6. QED
  BY <1>2, <1>4, <1>5

\* Following the tokens from the first page ends, and collects what OSAC has that
\* matches the filter, in its order and up to the first empty page.
LEMMA WalkIsComplete ==
    ASSUME NEW size \in PageSizes, NormalizeMaxPageSize(size) # None, NEW most \in OsacPages,
           NEW all, all = Matching(store)
    PROVE  /\ Collected(size, most).token = None
           /\ \E n \in 0 .. Len(all) : Collected(size, most).items = SubSeq(all, 1, n)
           /\ (\A offset \in DOMAIN most : most[offset] > 0) =>
                Collected(size, most).items = all
<1>1. /\ all \in Seq(Nat) /\ Len(all) \in Nat /\ MaxClusters \in Nat \ {0}
      /\ Len(all) =< MaxClusters
  BY MatchingType
<1>2. PICK f : IsWalk(f, size, most) /\ Collected(size, most) = f[MaxClusters]
  BY WalkDefined
<1>3. f[0] = Nothing
  BY <1>1, <1>2 DEF IsWalk
<1>4. \A n \in 1 .. MaxClusters : f[n] = Follow(f[n - 1], size, most)
  BY <1>1, <1>2 DEF IsWalk
<1> DEFINE Ns == {n \in Nat : n =< MaxClusters => Ahead(f[n], all, n, most)}
<1>5. 0 \in Ns
  <2>1. 0 \in 0 .. Len(all) /\ SubSeq(all, 1, 0) = <<>>
    BY <1>1
  <2>2. Ahead(Nothing, all, 0, most)
    BY <2>1 DEF Ahead, Nothing
  <2>3. QED
    BY <1>3, <2>2
<1>6. ASSUME NEW n \in Nat, n \in Ns
      PROVE  n + 1 \in Ns
  <2> SUFFICES ASSUME n + 1 =< MaxClusters
               PROVE  Ahead(f[n + 1], all, n + 1, most)
    OBVIOUS
  <2>1. n + 1 \in 1 .. MaxClusters /\ (n + 1) - 1 = n /\ Ahead(f[n], all, n, most)
    BY <1>1, <1>6
  <2>2. f[n + 1] = Follow(f[n], size, most)
    BY <1>4, <2>1
  <2>3. QED
    BY <2>1, <2>2, AheadStep
<1> HIDE DEF Ns
<1>7. \A n \in Nat : n \in Ns
  BY <1>5, <1>6, InductionOnSet
<1>8. Ahead(Collected(size, most), all, MaxClusters, most)
  BY <1>1, <1>2, <1>7 DEF Ns
<1>9. PICK got : got = Collected(size, most)
  OBVIOUS
<1>10. PICK o \in 0 .. Len(all) :
        /\ got.items = SubSeq(all, 1, o)
        /\ \/ got.token = None /\ (o = Len(all) \/ \E x \in DOMAIN most : most[x] = 0)
           \/ MaxClusters =< o /\ (o = 0 \/ o < Len(all)) /\ got.token = encodePageToken(o)
  BY <1>8, <1>9 DEF Ahead
<1>11. got.token = None /\ (o = Len(all) \/ \E x \in DOMAIN most : most[x] = 0)
  BY <1>1, <1>10
<1>12. SubSeq(all, 1, Len(all)) = all
  BY <1>1
<1>13. (\A offset \in DOMAIN most : most[offset] > 0) => o = Len(all)
  BY <1>11
<1>14. QED
  BY <1>9, <1>10, <1>11, <1>12, <1>13

-----------------------------------------------------------------------------
(* The second invariant: what OSAC holds, and what a create has resolved.  *)

\* A cluster in OSAC has its fields, and its labels say whose it is.
Entry(c) ==
    /\ c = [name |-> c.name, labels |-> c.labels, ours |-> c.ours,
            state |-> c.state, kubeconfig |-> c.kubeconfig]
    /\ c.name \in Name
    /\ c.ours \in BOOLEAN
    /\ c.state \in OsacState \cup {"UNSPECIFIED"}
    /\ c.kubeconfig \in Kubeconfig
    /\ c.ours <=> ownershipFilter(c.labels)

Entries == \A i \in ClusterId : store[i] # None => Entry(store[i])

\* A create runs only if it is valid, and has at each RPC what the earlier
\* ones answered.
Resolved ==
    /\ pc \in Creating => request.spec \in CreateSpec /\ validateCreateRequest(request.spec)
    /\ pc \in {"versions", "create", "existing"} => key \in UNION NodeSets
    /\ pc \in {"create", "existing"} =>
        /\ catalog \in Catalogs
        /\ version = resolveVersion(catalog, request.spec.version)
        /\ version # None

Requests == [op : {"none", "create", "get", "delete"}, id : ClusterId,
             spec : CreateSpec \cup {None}]
Sights == {"there", "taken", "made", "absent", "inactive", "active", "data"}

DataInv ==
    /\ Entries
    /\ Resolved
    /\ request \in Requests
    /\ saw \subseteq Sights

LEMMA DataInit == Init => DataInv
<1> SUFFICES ASSUME Init
             PROVE  DataInv
  OBVIOUS
<1>1. Entries
  BY DEF Init, Entries
<1>2. Resolved
  BY DEF Init, Resolved, Creating
<1>3. 1 \in ClusterId
  BY ClusterAssumption, ClusterTranslateAssumption DEF ClusterId
<1>4. request \in Requests
  BY <1>3 DEF Init, NoRequest, Requests
<1>5. QED
  BY <1>1, <1>2, <1>4 DEF Init, DataInv

\* Facts are sights.
LEMMA FactsType == ASSUME NEW st, NEW r PROVE Facts(st, r) \subseteq Sights
  BY DEF Facts, Sights

\* One cluster of OSAC is replaced or removed.
LEMMA EntryStep ==
    ASSUME Entries, Shapes, NEW i \in ClusterId, NEW c, c = None \/ Entry(c),
           store' = [store EXCEPT ![i] = c]
    PROVE  Entries'
<1>1. \A k \in ClusterId : store'[k] = IF k = i THEN c ELSE store[k]
  BY DEF Shapes
<1>2. ASSUME NEW k \in ClusterId, store'[k] # None
      PROVE  Entry(store'[k])
  <2>1. CASE k = i
    BY <1>1, <1>2, <2>1
  <2>2. CASE k # i
    BY <1>1, <1>2, <2>2 DEF Entries
  <2>3. QED
    BY <2>1, <2>2
<1>3. QED
  BY <1>2 DEF Entries, Entry

\* What a create makes is labelled as this provider's.
LEMMA CreatedEntry ==
    ASSUME AnswerInv, DataInv, pc = "create", store' = Created
    PROVE  Entries'
<1>1. request.spec \in CreateSpec /\ request.id \in ClusterId
  BY DEF DataInv, Resolved, Creating, AnswerInv, Running
<1>2. request.spec.name \in Name
  BY <1>1, ClusterAssumption
<1>3. PICK c : c = [name |-> Object.name, labels |-> Object.labels, ours |-> TRUE,
                    state |-> "UNSPECIFIED", kubeconfig |-> "no reference"]
  OBVIOUS
<1>4. Object.name = request.spec.name /\ ownershipFilter(Object.labels)
  BY LabelsWin DEF Object, toOSACCluster
<1>5. Entry(c)
  BY <1>2, <1>3, <1>4 DEF Entry, Kubeconfig
<1>6. QED
  BY <1>1, <1>3, <1>5, EntryStep DEF Created, AnswerInv, DataInv

\* Every step keeps the entries.
LEMMA EntriesStep ==
    ASSUME AnswerInv, DataInv, [Next]_vars
    PROVE  Entries'
<1> USE DEF AnswerInv, DataInv
<1>1. ASSUME NEW i \in ClusterId, DeleteCluster(i)
      PROVE  Entries'
  <2>1. store' = store \/ store' = [store EXCEPT ![i] = None]
    BY <1>1 DEF DeleteCluster
  <2>2. CASE store' = store
    BY <2>2 DEF Entries
  <2>3. QED
    BY <2>1, <2>2, EntryStep
<1>2. ASSUME NEW i \in ClusterId, OthersDelete(i)
      PROVE  Entries'
  BY <1>2, EntryStep DEF OthersDelete, Changes
<1>3. ASSUME NEW i \in ClusterId, NEW n \in Name, OthersCreate(i, n)
      PROVE  Entries'
  <2>1. PICK c : c = [name |-> n, labels |-> <<>>, ours |-> FALSE,
                      state |-> "UNSPECIFIED", kubeconfig |-> "no reference"]
    OBVIOUS
  <2>2. ~ownershipFilter(<<>>)
    BY DEF ownershipFilter
  <2>3. Entry(c)
    BY <2>1, <2>2 DEF Entry, Kubeconfig
  <2>4. QED
    BY <1>3, <2>1, <2>3, EntryStep DEF OthersCreate, Changes
<1>4. ASSUME NEW i \in ClusterId, NEW t \in OsacState, NEW k \in Kubeconfig, OsacReports(i, t, k)
      PROVE  Entries'
  <2>1. Entry(store[i])
    BY <1>4 DEF OsacReports, Entries
  <2>2. PICK c : c = [name |-> store[i].name, labels |-> store[i].labels,
                      ours |-> store[i].ours, state |-> t, kubeconfig |-> k]
    OBVIOUS
  <2>3. Entry(c)
    BY <2>1, <2>2 DEF Entry
  <2>4. store' = [store EXCEPT ![i] = c]
    <3>1. PICK r, n, l, o, t0, k0 :
              r = store[i] /\ r = [name |-> n, labels |-> l, ours |-> o,
                                   state |-> t0, kubeconfig |-> k0]
      BY <2>1 DEF Entry
    <3>2. c = [name |-> n, labels |-> l, ours |-> o, state |-> t, kubeconfig |-> k]
      BY <2>2, <3>1
    <3>3. PICK q : q = [r EXCEPT !.state = t]
      OBVIOUS
    <3>4. q = [name |-> n, labels |-> l, ours |-> o, state |-> t, kubeconfig |-> k0]
      BY <3>1, <3>3
    <3>5. [q EXCEPT !.kubeconfig = k] = c
      BY <3>2, <3>4
    <3>6. store' = [store EXCEPT ![i].state = t, ![i].kubeconfig = k]
      BY <1>4 DEF OsacReports, Changes
    <3>7. store = [j \in ClusterId |-> store[j]]
      BY DEF Shapes
    <3>8. \A j \in ClusterId : store'[j] = IF j = i THEN c ELSE store[j]
      BY <3>1, <3>3, <3>5, <3>6, <3>7
    <3>9. store' = [j \in ClusterId |-> store'[j]]
      BY <3>6, <3>7
    <3>10. QED
      BY <3>7, <3>8, <3>9
  <2>5. QED
    BY <2>3, <2>4, EntryStep
<1>5. CASE CreateCluster \/ CreateFails
  <2>1. pc = "create" /\ (store' = store \/ store' = Created)
    BY <1>5 DEF CreateCluster, CreateFails
  <2>2. CASE store' = store
    BY <2>2 DEF Entries
  <2>3. QED
    BY <2>1, <2>2, CreatedEntry
<1>6. CASE store' = store
  BY <1>6 DEF Entries
<1>7. QED
  BY <1>1, <1>2, <1>3, <1>4, <1>5, <1>6 DEF Next, vars, BeginCreate, BeginGet, Begin,
     RejectCreate, GetTemplate, ListVersions, AlreadyExists, GetExisting, GetCluster,
     GetSecret, CallFails

\* Every step keeps what the create has resolved.
LEMMA ResolvedStep ==
    ASSUME AnswerInv, DataInv, [Next]_vars
    PROVE  Resolved'
<1> USE DEF DataInv
<1>1. CASE pc' = "idle" \/ pc' \in Getting
  BY <1>1 DEF Resolved, Creating, Getting
<1>2. ASSUME NEW i \in ClusterId, NEW spec \in CreateSpec, BeginCreate(i, spec)
      PROVE  Resolved'
  <2>1. /\ pc' = "template" /\ request'.spec = spec
        /\ validateCreateRequest(spec)
    BY <1>2 DEF BeginCreate, Begin
  <2>2. QED
    BY <2>1 DEF Resolved, Creating
<1>3. CASE GetTemplate /\ pc' # "idle"
  <2>1. PICK nodeSets \in NodeSets :
            /\ resolveNodeSetKey(nodeSets) # None
            /\ key' = resolveNodeSetKey(nodeSets)
            /\ pc' = "versions" /\ request' = request
    BY <1>3 DEF GetTemplate, Fail, Respond
  <2>2. key' \in nodeSets
    BY <2>1 DEF resolveNodeSetKey
  <2>3. request.spec \in CreateSpec /\ validateCreateRequest(request.spec)
    BY <1>3 DEF GetTemplate, Resolved, Creating
  <2>4. QED
    BY <2>1, <2>2, <2>3 DEF Resolved, Creating
<1>4. CASE ListVersions /\ pc' # "idle"
  <2>1. PICK cat \in Catalogs :
            /\ resolveVersion(cat, request.spec.version) # None
            /\ catalog' = cat /\ version' = resolveVersion(cat, request.spec.version)
            /\ pc' = "create" /\ UNCHANGED <<request, key>>
    BY <1>4 DEF ListVersions, Fail, Respond
  <2>2. /\ request.spec \in CreateSpec /\ validateCreateRequest(request.spec)
        /\ key \in UNION NodeSets
    BY <1>4 DEF ListVersions, Resolved, Creating
  <2>3. QED
    BY <2>1, <2>2 DEF Resolved, Creating
<1>5. CASE AlreadyExists
  <2>1. pc = "create" /\ pc' = "existing" /\ UNCHANGED <<request, key, catalog, version>>
    BY <1>5 DEF AlreadyExists, locals
  <2>2. QED
    BY <2>1 DEF Resolved, Creating
<1>6. CASE UNCHANGED <<pc, request, key, catalog, version>>
  BY <1>6 DEF Resolved
<1>7. ASSUME NEW i \in ClusterId,
             BeginGet(i) \/ DeleteCluster(i) \/ \E spec \in CreateSpec : RejectCreate(i, spec)
      PROVE  pc' = "idle" \/ pc' \in Getting
  BY <1>7 DEF BeginGet, Begin, DeleteCluster, RejectCreate, Getting
<1>8. CASE CreateCluster \/ CreateFails \/ GetExisting \/ GetSecret \/ CallFails
  <2>1. pc' = "idle"
    BY <1>8 DEF CreateCluster, CreateFails, GetExisting, GetSecret, CallFails, Fail, Respond
  <2>2. QED
    BY <1>1, <2>1
<1>9. CASE GetCluster
  <2>1. pc' = "idle" \/ pc' = "secret"
    BY <1>9 DEF GetCluster, Fail, Respond
  <2>2. QED
    BY <1>1, <2>1 DEF Getting
<1>10. ASSUME NEW i \in ClusterId,
              \/ OthersDelete(i)
              \/ \E n \in Name : OthersCreate(i, n)
              \/ \E t \in OsacState, k \in Kubeconfig : OsacReports(i, t, k)
       PROVE  UNCHANGED <<pc, request, key, catalog, version>>
  BY <1>10 DEF OthersDelete, OthersCreate, OsacReports, Changes, locals
<1>11. CASE UNCHANGED vars
  BY <1>6, <1>11 DEF vars
<1>12. CASE Next
  BY <1>1, <1>2, <1>3, <1>4, <1>5, <1>6, <1>7, <1>8, <1>9, <1>10, <1>12 DEF Next
<1>13. QED
  BY <1>11, <1>12

\* Every step keeps the request and the sights of their types.
LEMMA RequestStep ==
    ASSUME AnswerInv, DataInv, [Next]_vars
    PROVE  request' \in Requests /\ saw' \subseteq Sights
<1> USE DEF DataInv
<1>0. /\ \A st, r : Facts(st, r) \subseteq Sights
      /\ "made" \in Sights
  BY FactsType DEF Sights
<1>1. ASSUME NEW i \in ClusterId, NEW spec \in CreateSpec \cup {None},
             NEW op \in {"create", "get", "delete"},
             request' = [op |-> op, id |-> i, spec |-> spec]
      PROVE  request' \in Requests
  BY <1>1 DEF Requests
<1>2. ASSUME NEW i \in ClusterId, NEW spec \in CreateSpec,
             BeginCreate(i, spec) \/ RejectCreate(i, spec)
      PROVE  request' \in Requests /\ saw' \subseteq Sights
  BY <1>0, <1>1, <1>2 DEF BeginCreate, Begin, RejectCreate
<1>3. ASSUME NEW i \in ClusterId, BeginGet(i) \/ DeleteCluster(i)
      PROVE  request' \in Requests /\ saw' \subseteq Sights
  BY <1>0, <1>1, <1>3 DEF BeginGet, Begin, DeleteCluster
<1>4. ASSUME NEW st, Changes(st)
      PROVE  request' \in Requests /\ saw' \subseteq Sights
  BY <1>0, <1>4 DEF Changes
<1>5. ASSUME NEW i \in ClusterId,
             \/ OthersDelete(i)
             \/ \E n \in Name : OthersCreate(i, n)
             \/ \E t \in OsacState, k \in Kubeconfig : OsacReports(i, t, k)
      PROVE  request' \in Requests /\ saw' \subseteq Sights
  BY <1>4, <1>5 DEF OthersDelete, OthersCreate, OsacReports
<1>6. CASE request' = request /\ saw' \subseteq saw \cup Facts(store', request) \cup {"made"}
  BY <1>0, <1>6
<1>7. CASE \/ GetTemplate \/ ListVersions \/ CreateCluster \/ AlreadyExists
           \/ CreateFails \/ GetExisting \/ GetCluster \/ GetSecret \/ CallFails
  BY <1>6, <1>7 DEF GetTemplate, ListVersions, CreateCluster, AlreadyExists, CreateFails,
     GetExisting, GetCluster, GetSecret, CallFails, Fail, Respond
<1>8. CASE UNCHANGED vars
  BY <1>8 DEF vars
<1>9. QED
  BY <1>2, <1>3, <1>5, <1>7, <1>8 DEF Next

-----------------------------------------------------------------------------

\* The second invariant holds in every reachable state.
LEMMA DataInductive == Spec => []DataInv
<1>1. AnswerInv /\ DataInv /\ [Next]_vars => DataInv'
  BY EntriesStep, ResolvedStep, RequestStep DEF DataInv, Requests, Sights, ClusterId
<1>2. QED
  BY <1>1, DataInit, AnswersInductive, PTL DEF Spec

\* What has been resolved when the object is sent.
LEMMA VersionIsNewest ==
    ASSUME DataInv, pc \in {"create", "existing"}
    PROVE  NewestOf(version, Candidates(request.spec.version)) /\ version \in Range(catalog)
<1>1. /\ catalog \in Seq(Version) /\ version # None
      /\ version = resolveVersion(catalog, request.spec.version)
  BY ClusterAssumption DEF DataInv, Resolved
<1>2. DOMAIN catalog = 1 .. Len(catalog)
  BY <1>1
<1>3. Candidates(request.spec.version) =
        Serving(catalog, request.spec.version, Len(catalog))
  BY <1>2 DEF Candidates, Serving, Range
<1>4. NewestOf(version, Serving(catalog, request.spec.version, Len(catalog)))
  BY <1>1, SelectsNewest DEF IsChoice
<1>5. QED
  BY <1>3, <1>4 DEF NewestOf, Candidates

\* Type correctness of the cluster service, and that no RPC is made before the
\* ones whose answers it is built from have answered.
THEOREM TypeCorrect == Spec => []TypeOK
<1>1. AnswerInv /\ DataInv => TypeOK
  <2> SUFFICES ASSUME AnswerInv, DataInv
               PROVE  TypeOK
    OBVIOUS
  <2>1. pc \in {"idle", "template", "versions", "create", "existing", "get", "secret"}
    BY DEF AnswerInv, Stage, Creating, Getting
  <2>2. pc \in {"create", "existing"} => version \in Range(catalog)
    BY VersionIsNewest
  <2>3. QED
    BY <2>1, <2>2 DEF DataInv, Entries, Entry, Resolved, Requests, Sights, TypeOK
<1>2. QED
  BY <1>1, AnswersInductive, DataInductive, PTL

\* resolveVersion and toOSACCluster: for every catalog, request and caller's
\* labels, what is sent has the newest version, the count asked for and the
\* ownership labels.
THEOREM ObjectsAreRight == Spec => []CreatedAsRequested
<1>1. DataInv => CreatedAsRequested
  <2> SUFFICES ASSUME DataInv, pc = "create"
               PROVE  /\ IsNewest(Object.version, request.spec.version)
                      /\ \A k \in DOMAIN Object.nodeSets : Object.nodeSets[k] = request.spec.count
                      /\ Object.labels["managed-by"] = "dcm"
                      /\ Object.labels["instance-id"] = request.id
    BY DEF CreatedAsRequested
  <2>1. IsNewest(Object.version, request.spec.version)
    BY VersionIsNewest DEF NewestOf, IsNewest, Object, toOSACCluster
  <2>2. request.spec \in CreateSpec /\ validateCreateRequest(request.spec)
    BY DEF DataInv, Resolved, Creating
  <2>3. int32(request.spec.count) = request.spec.count
    BY <2>2, ClusterAssumption, CountFits DEF validateCreateRequest
  <2>4. \A k \in DOMAIN Object.nodeSets : Object.nodeSets[k] = request.spec.count
    BY <2>3 DEF Object, toOSACCluster
  <2>5. Object.labels["managed-by"] = "dcm" /\ Object.labels["instance-id"] = request.id
    BY LabelsWin DEF Object, toOSACCluster
  <2>6. QED
    BY <2>1, <2>4, <2>5
<1>2. QED
  BY <1>1, DataInductive, PTL

\* Service.List: for any number of clusters, any page size asked for and any
\* number of items that OSAC puts on each page, following the tokens ends and
\* yields this provider's clusters, up to the first page that is empty.
THEOREM ListingsAreComplete == Spec => []ListingIsComplete
<1>1. DataInv => ListingIsComplete
  <2> SUFFICES ASSUME DataInv
               PROVE  ListingIsComplete
    OBVIOUS
  <2>1. {i \in ClusterId : store[i] # None /\ ownershipFilter(store[i].labels)}
            = {i \in ClusterId : store[i] # None /\ store[i].ours}
    BY DEF DataInv, Entries, Entry
  <2>2. Matching(store) = Own
    BY <2>1 DEF Matching, Own
  <2>3. ASSUME NEW size \in PageSizes, NormalizeMaxPageSize(size) # None,
               NEW most \in OsacPages
        PROVE  /\ Collected(size, most).token = None
               /\ \E n \in 0 .. Len(Own) : Collected(size, most).items = SubSeq(Own, 1, n)
               /\ (\A offset \in DOMAIN most : most[offset] > 0) =>
                    Collected(size, most).items = Own
    BY <2>2, <2>3, WalkIsComplete
  <2>4. QED
    BY <2>3 DEF ListingIsComplete
<1>2. QED
  BY <1>1, DataInductive, PTL

\* The same without InOrder: what is collected when no page is empty has every
\* cluster of this provider once, in increasing order, and nothing else.
OwnListedOnce ==
    \A size \in PageSizes, most \in OsacPages :
        NormalizeMaxPageSize(size) # None /\ (\A offset \in DOMAIN most : most[offset] > 0) =>
            Lists(Collected(size, most).items,
                  {i \in ClusterId : store[i] # None /\ store[i].ours}, MaxClusters)

\* Service.List repeats no cluster on a later page and skips none between pages.
THEOREM NothingListedTwice == Spec => []OwnListedOnce
<1>1. ListingIsComplete => OwnListedOnce
  BY InOrderLists DEF ListingIsComplete, OwnListedOnce, Own
<1>2. QED
  BY <1>1, ListingsAreComplete, PTL
===============================================================================
