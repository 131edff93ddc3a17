----------------------------- MODULE MCVMService -----------------------------
(* Two concurrent requests, one VM id they fight for, room for one subnet   *)
(* more than the requests can race to.  The specs: a boot disk of 1.5 GB    *)
(* between two additional disks, the larger of them the largest an int32    *)
(* holds; no boot disk; and a request without its required fields.          *)
EXTENDS VMService

CONSTANTS c1, c2, v1

MkDisk(name, q, unit) == [name |-> name, cap |-> [q |-> q, unit |-> unit]]

MCVmSpec == {
    [complete |-> TRUE,
     disks |-> <<MkDisk("data", 4, "MB"), MkDisk("boot", 6, "GB"), MkDisk("logs", 4, "TB")>>],
    [complete |-> TRUE, disks |-> <<MkDisk("data", 4, "GB")>>],
    [complete |-> FALSE, disks |-> <<>>]}

MCLostCode == {"Unavailable"}
MCRpcCode == MCLostCode \cup {"NotFound", "AlreadyExists"}
=============================================================================
