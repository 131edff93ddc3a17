---------------------------- MODULE StatusMapping ----------------------------
(***************************************************************************)
(* The translation of what OSAC says about a resource into the (status,    *)
(* message) pair this service provider reports: cluster.MapStatus,         *)
(* vm.MapStatus and the two message derivations of internal/statuspoll.    *)
(* A message text is an opaque token, "" is the empty text, and the        *)
(* synthesized "cluster is ..." / "vm is ..." text, which is a function of *)
(* the status it goes with, is the token "default".                        *)
(***************************************************************************)
EXTENDS Naturals, Sequences

\* The outcome of the call that fetched the status: "OK" is err == nil.
GrpcCode == {"OK", "Unavailable", "DeadlineExceeded", "NotFound", "Internal"}

ClusterState == {"UNSPECIFIED", "PROGRESSING", "READY", "FAILED", "DELETING",
                 "DELETE_FAILED"}

VMState == {"UNSPECIFIED", "STARTING", "RUNNING", "FAILED", "DELETING",
            "STOPPING", "STOPPED", "PAUSED"}

\* DCM's vocabularies.
ClusterStatus == {"PROGRESSING", "ACTIVE", "DEGRADED", "FAILED", "DELETING",
                  "DELETED", "UNAVAILABLE"}
VMStatus == {"PROVISIONING", "RUNNING", "FAILED", "DELETING", "STOPPING",
             "STOPPED", "PAUSED", "DELETED"}

\* A condition carries the four fields the code looks at.
HasCondition(conds, type, status) ==
    \E i \in DOMAIN conds : conds[i].type = type /\ conds[i].status = status

ClusterMapStatus(err, state, conds) ==
    CASE err \in {"Unavailable", "DeadlineExceeded"} -> "UNAVAILABLE"
      [] err = "NotFound" -> "DELETED"
      [] err \notin {"OK", "Unavailable", "DeadlineExceeded", "NotFound"} -> "FAILED"
      [] err = "OK" /\ state = "UNSPECIFIED" -> "PROGRESSING"
      [] err = "OK" /\ state \in {"FAILED", "DELETE_FAILED"} -> "FAILED"
      [] err = "OK" /\ state = "DELETING" -> "DELETING"
      [] err = "OK" /\ state \in {"READY", "PROGRESSING"} ->
            IF HasCondition(conds, "DEGRADED", "TRUE") THEN "DEGRADED"
            ELSE IF state = "READY" THEN "ACTIVE" ELSE "PROGRESSING"

VMMapStatus(err, state) ==
    CASE err = "NotFound" -> "DELETED"
      [] err \notin {"OK", "NotFound"} -> "FAILED"
      [] err = "OK" /\ state \in {"UNSPECIFIED", "STARTING"} -> "PROVISIONING"
      [] err = "OK" /\ state \notin {"UNSPECIFIED", "STARTING"} -> state

-----------------------------------------------------------------------------

\* The condition type a cluster status takes its message from; DELETING,
\* UNAVAILABLE and DELETED have none.
clusterConditionTypeFor ==
    [s \in {"ACTIVE", "PROGRESSING", "DEGRADED", "FAILED"} |->
        IF s = "ACTIVE" THEN "READY" ELSE s]

\* A condition's message, else its reason, else the empty text.
ConditionText(c) == IF c.message # "" THEN c.message ELSE c.reason

\* The text of the first condition that passes Test, or "default".
FirstText(conds, Test(_)) ==
    LET hits == {i \in DOMAIN conds : Test(conds[i])}
    IN IF hits = {} THEN "default"
       ELSE LET first == CHOOSE i \in hits : \A j \in hits : i <= j
            IN IF ConditionText(conds[first]) = "" THEN "default"
               ELSE ConditionText(conds[first])

\* Only the first condition of the type is consulted (the break).
clusterMessage(status, conds) ==
    IF status \notin DOMAIN clusterConditionTypeFor THEN "default"
    ELSE FirstText(conds, LAMBDA c : c.type = clusterConditionTypeFor[status])

\* A condition without any text is passed over (no break).
vmMessage(conds) ==
    FirstText(conds, LAMBDA c : /\ c.type = "RESTART_FAILED"
                                /\ c.status = "TRUE"
                                /\ ConditionText(c) # "")

-----------------------------------------------------------------------------

\* What the poller computes for a listed item (err is nil there).
Reported(kind, raw) ==
    IF kind = "cluster"
    THEN LET s == ClusterMapStatus("OK", raw.state, raw.conditions)
         IN [status |-> s, message |-> clusterMessage(s, raw.conditions)]
    ELSE [status |-> VMMapStatus("OK", raw.state),
          message |-> vmMessage(raw.conditions)]
=============================================================================
