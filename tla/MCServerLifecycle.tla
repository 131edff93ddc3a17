-------------------------- MODULE MCServerLifecycle --------------------------
(* The server with the default timeouts in seconds, and a registrar with a   *)
(* backoff of 1, 2, 2, ... whose agent refuses cluster at any time and    *)
(* never refuses vm.                                                         *)
EXTENDS ServerLifecycle

MCHealthySvc == {"vm"}

\* The failure count saturates only after the backoff has.
ASSUME SaturationAssumption == InitialBackoff * 2 ^ (MaxFails - 1) >= MaxBackoff
=============================================================================
