------------------------------ MODULE MCRestore ------------------------------
(* Two leaves, one CRL worker and one run id, in a database restored twice:  *)
(* the second restore finds the maintenance row of the first.  Nothing is    *)
(* imported and no CRL is asked for by hand, so the worker publishes what    *)
(* revocations and FinalizeRestore demand.                                   *)
EXTENDS Restore
=============================================================================
