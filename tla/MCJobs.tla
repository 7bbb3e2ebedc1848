-------------------------------- MODULE MCJobs --------------------------------
(* Instance of Jobs for TLC: two messages carry one idempotency key, a third  *)
(* message has an envelope this deployment rejects.                           *)
EXTENDS Jobs, TLC

CONSTANTS key, first, again, bad

MCKeyOf == (first :> key) @@ (again :> key) @@ (bad :> key)
=============================================================================
