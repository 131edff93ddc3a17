----------------------------- MODULE VMTranslate -----------------------------
(***************************************************************************)
(* internal/vm/disk.go, the translation of a VM's disks, and               *)
(* internal/grpcerror, the HTTP status of a gRPC code: operators only.     *)
(*                                                                         *)
(* A capacity is a number of quarters of a unit, which is enough to have   *)
(* whole and broken numbers: [q |-> 6, unit |-> "GB"] is "1.5GB".  The     *)
(* unit "other" stands for every string that does not match the pattern    *)
(* or names an unknown unit.                                               *)
(***************************************************************************)
EXTENDS Integers, Sequences

CONSTANT MaxInt32   \* the largest int32, 2^31 - 1 in the code

ASSUME MaxInt32Assumption == MaxInt32 \in Nat \ {0}

Unit == {"MB", "GB", "TB", "other"}
Disk == [name : STRING, cap : [q : Int, unit : Unit]]

CeilDiv(a, b) == (a + b - 1) \div b

\* int32(float64) out of range depends on the machine: amd64 answers the
\* smallest int32, arm64 the largest.
ToInt32(n) == IF n <= MaxInt32 THEN {n} ELSE {MaxInt32, -MaxInt32 - 1}

\* Mutation: the fraction is cut off.
ParseRoundsDown(cap) ==
    IF cap.q <= 0 \/ cap.unit = "other" THEN {}
    ELSE ToInt32(CASE cap.unit = "GB" -> cap.q \div 4
                   [] cap.unit = "TB" -> cap.q * 256
                   [] cap.unit = "MB" -> cap.q \div 4096)

\* The sizes in GiB that the capacity may become; none is the error.
ParseDiskCapacityGiB(cap) ==
    IF cap.q <= 0 \/ cap.unit = "other" THEN {}
    ELSE ToInt32(CASE cap.unit = "GB" -> CeilDiv(cap.q, 4)
                   [] cap.unit = "TB" -> cap.q * 256
                   [] cap.unit = "MB" -> CeilDiv(cap.q, 4096))

\* The sizes the disks may get, position by position.
ParsedSizes(disks) ==
    {f \in [1..Len(disks) -> UNION {ParseDiskCapacityGiB(disks[i].cap) : i \in 1..Len(disks)}] :
        \A i \in 1..Len(disks) : f[i] \in ParseDiskCapacityGiB(disks[i].cap)}

BootPositions(disks) == {i \in 1..Len(disks) : disks[i].name = "boot"}

\* The disk at position b boots, the others follow in their order.
BootFrom(f, b) ==
    [boot |-> f[b], additional |-> SubSeq(f, 1, b - 1) \o SubSeq(f, b + 1, Len(f))]

\* The possible boot disk and additional disks of a request; none is the
\* InvalidArgument error: not exactly one boot disk, or a bad capacity.
splitDisks(disks) ==
    UNION {{BootFrom(f, b) : f \in ParsedSizes(disks)} :
              b \in {i \in BootPositions(disks) : BootPositions(disks) = {i}}}

\* grpcerror.Classify: the HTTP status for a gRPC code.
Classify(code) ==
    CASE code = "InvalidArgument" -> 400
      [] code = "Unauthenticated" -> 401
      [] code = "PermissionDenied" -> 403
      [] code = "NotFound" -> 404
      [] code = "AlreadyExists" -> 409
      [] code \in {"Unavailable", "DeadlineExceeded"} -> 502
      [] OTHER -> 500
=============================================================================
