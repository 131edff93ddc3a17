---------------------------- MODULE MCStatusPoller ----------------------------
(* A small instance of StatusPoller: two VMs in pages of none, one or two,   *)
(* which come, go and change places, so that a listing has an order, and no  *)
(* cluster; the clusters' listing may fail in every cycle all the same.      *)
EXTENDS StatusPoller

CONSTANTS a, b

MCIdOf == [cluster |-> {}, vm |-> {a, b}]

MCRawStatus ==
    [cluster |-> {}, vm |-> {[state |-> "RUNNING", conditions |-> <<>>]}]
=============================================================================
