-------------------------- MODULE MCStatusReporting --------------------------
(* A small instance of StatusReporting: one cluster that is ready, and whose *)
(* condition says something more or not, so that a change may be one of the  *)
(* message alone.                                                            *)
EXTENDS StatusReporting

CONSTANTS a

MCIdOf == [cluster |-> {a}, vm |-> {}]

ReadyText == <<[type |-> "READY", status |-> "TRUE", message |-> "m1", reason |-> ""]>>

MCRawStatus ==
    [cluster |-> {[state |-> "READY", conditions |-> <<>>],
                  [state |-> "READY", conditions |-> ReadyText]},
     vm |-> {}]
=============================================================================
