------------------------------- MODULE Backoff -------------------------------
(***************************************************************************)
(* Exponential backoff as the requirements state it (REQ-REG-070,          *)
(* REQ-OSAC-060): the wait after n failures is the first wait doubled n    *)
(* times, capped.  The registrar and the token refresh loop get there step *)
(* by step, each with its own local variable.                              *)
(***************************************************************************)
EXTENDS Integers

\* 2 to the power of n.
Doubled[n \in Nat] == IF n = 0 THEN 1 ELSE 2 * Doubled[n - 1]

Pace(first, most, n) ==
    IF first * Doubled[n] > most THEN most ELSE first * Doubled[n]
=============================================================================
