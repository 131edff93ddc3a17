-------------------------- MODULE MCStatusPublisher --------------------------
(* A small instance of StatusPublisher: one caller, a key the broker accepts *)
(* again and again and one that may fail for ever.                           *)
EXTENDS StatusPublisher

CONSTANTS k1, k2, v1, v2, c1

MCKey == {k1, k2}
MCValue == {v1, v2}
MCCaller == {c1}
MCHealthy == {k1}
=============================================================================
