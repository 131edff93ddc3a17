--------------------------- MODULE MCClusterService ---------------------------
(* Two cluster ids and two names, 3-bit node counts, and requests on both    *)
(* sides of every check.                                                     *)
EXTENDS ClusterService

V(minor, patch, name, semver) ==
    [minor |-> minor, patch |-> patch, name |-> name, semver |-> semver]

\* Names are numbers here (0: no name): their order breaks a tie.
MCCatalogs == {
    \* the newest is not last, and comes under two names
    << V(29, 1, 5, TRUE), V(29, 2, 7, TRUE), V(29, 2, 6, TRUE), V(30, 9, 8, TRUE) >>,
    \* the newest has no name or is not SemVer
    << V(29, 3, 0, TRUE), V(29, 4, 1, FALSE), V(29, 1, 4, TRUE) >>,
    \* nothing for 29
    << V(30, 1, 1, TRUE) >> }

Req(complete, name, count, minor, image, labels) ==
    [complete |-> complete, name |-> name, count |-> count, version |-> minor,
     image |-> image, labels |-> labels]

NoLabels == <<>>
Claimed == [k \in {"managed-by"} |-> "someone"]

MCSpec == {
    Req(TRUE, "n1", 1, 29, FALSE, NoLabels), Req(TRUE, "n2", 3, 29, FALSE, Claimed),
    Req(FALSE, "n1", 1, 29, FALSE, NoLabels), Req(TRUE, "n1", 0, 29, FALSE, NoLabels),
    Req(TRUE, "n1", 4, 29, FALSE, NoLabels), Req(TRUE, "n1", 1, 28, FALSE, NoLabels),
    Req(TRUE, "n1", 1, 29, TRUE, NoLabels) }

MCNodeSets == {{"workers"}, {}, {"workers", "gpu"}}
MCPageSizes == {None, -1, 0, 1, 2, 5}

\* Pages of one item and of two, and an empty first or second page.
MCOsacPages == {
    [offset \in 0 .. MaxClusters |-> 1],
    [offset \in 0 .. MaxClusters |-> 2],
    [offset \in 0 .. MaxClusters |-> IF offset = 0 THEN 0 ELSE 1],
    [offset \in 0 .. MaxClusters |-> IF offset = 1 THEN 0 ELSE 1] }

MCRpcCode == {"Unavailable", "Internal", "InvalidArgument", "NotFound", "AlreadyExists"}
================================================================================
