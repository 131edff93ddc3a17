--------------------------- MODULE ClusterTranslate ---------------------------
(***************************************************************************)
(* The pure parts of internal/cluster, internal/handlers/cluster and       *)
(* internal/pagination: which create requests are valid, how the template  *)
(* and the version catalog that OSAC answers are resolved, how a request   *)
(* becomes an OSAC object, how errors become HTTP statuses, and how a list *)
(* request becomes a page and the token of the next one.                   *)
(***************************************************************************)
EXTENDS Integers, Sequences, StatusMapping

CONSTANTS
    Matrix,           \* the minor versions of the version matrix
    MaxInt32,         \* math.MaxInt32
    defaultPageSize,  \* what an omitted or zero max_page_size means
    maxPageSize,      \* what a larger one is reduced to
    None              \* nil

ASSUME ClusterTranslateAssumption ==
    /\ MaxInt32 \in Nat \ {0}
    /\ defaultPageSize \in 1 .. MaxInt32
    /\ maxPageSize \in 1 .. MaxInt32

-----------------------------------------------------------------------------
(* Errors *)

\* The HTTP status of a gRPC code.
classifyError(code) ==
    CASE code = "InvalidArgument" -> 400
      [] code = "Unauthenticated" -> 401
      [] code = "PermissionDenied" -> 403
      [] code = "NotFound" -> 404
      [] code = "AlreadyExists" -> 409
      [] code \in {"Unavailable", "DeadlineExceeded"} -> 502
      [] OTHER -> 500

-----------------------------------------------------------------------------
(* Create *)

\* Mutation: the upper bound of the node count is not checked.
ValidUnbounded(spec) ==
    spec.complete /\ spec.count > 0 /\ ~spec.image /\ spec.version \in Matrix

\* What the handler accepts. "complete" stands for the fields that must not
\* be empty: id, spec, version, name and template.
validateCreateRequest(spec) ==
    /\ spec.complete
    /\ spec.count > 0
    /\ spec.count =< MaxInt32
    /\ ~spec.image
    /\ spec.version \in Matrix

\* The single key of the template's node sets, or None (InvalidArgument): no
\* such template, no node set, or several.
resolveNodeSetKey(nodeSets) ==
    IF \E key \in nodeSets : nodeSets = {key}
    THEN CHOOSE key \in nodeSets : nodeSets = {key}
    ELSE None

\* Whether a candidate of the catalog can serve the minor version: it is that
\* version or one of its patches, has a name, and is valid SemVer.
Eligible(v, minor) == v.minor = minor /\ v.name # 0 /\ v.semver

\* Whether a candidate replaces the one selected so far: a newer version, or
\* the same one under a smaller name.
Better(v, selected) ==
    \/ selected = None
    \/ v.patch > selected.patch
    \/ v.patch = selected.patch /\ v.name < selected.name

\* The loop of resolveVersion over the catalog as it was listed: what is
\* selected after n of its items.
resolveVersion(catalog, minor) ==
    LET selected[n \in 0 .. Len(catalog)] ==
            IF n = 0 THEN None
            ELSE IF Eligible(catalog[n], minor) /\ Better(catalog[n], selected[n - 1])
                 THEN catalog[n] ELSE selected[n - 1]
    IN selected[Len(catalog)]

ownershipLabels(id) ==
    [k \in {"managed-by", "instance-id", "service-type"} |->
        CASE k = "managed-by" -> "dcm"
          [] k = "instance-id" -> id
          [] k = "service-type" -> "cluster"]

\* The ownership labels win over the caller's.
mergeLabels(caller, id) ==
    [k \in (DOMAIN caller) \cup (DOMAIN ownershipLabels(id)) |->
        IF k \in DOMAIN ownershipLabels(id) THEN ownershipLabels(id)[k] ELSE caller[k]]

\* Go's conversion of an int to int32: it wraps.
int32(n) == ((n + MaxInt32 + 1) % (2 * (MaxInt32 + 1))) - (MaxInt32 + 1)

toOSACCluster(id, spec, key, version) ==
    [name |-> spec.name,
     labels |-> mergeLabels(spec.labels, id),
     nodeSets |-> [k \in {key} |-> int32(spec.count)],
     version |-> version]

-----------------------------------------------------------------------------
(* List; internal/vm/list.go repeats it for VMs, its page tokens included *)

\* ownershipFilter: what OSAC is asked for.
ownershipFilter(labels) ==
    "managed-by" \in DOMAIN labels /\ labels["managed-by"] = "dcm"

\* The limit for a max_page_size, which may be omitted (None); a negative one
\* is an error (None).
NormalizeMaxPageSize(value) ==
    CASE value = None \/ value = 0 -> defaultPageSize
      [] value # None /\ value < 0 -> None
      [] value # None /\ value > maxPageSize -> maxPageSize
      [] OTHER -> value

\* A page token is opaque: the encoded decimal of an offset. Decoding yields
\* None (InvalidArgument) for anything else.
encodePageToken(offset) == [decimal |-> offset]
decodePageToken(token) ==
    IF "decimal" \in DOMAIN token /\ token.decimal \in 0 .. MaxInt32
    THEN token.decimal ELSE None

\* Mutation: the next offset is computed from the limit that was asked for.
NextByLimit(offset, limit, got) == offset + limit

\* The offset of the next page: by what was received, not what was asked for.
nextOffset(offset, limit, got) == offset + got
=============================================================================
