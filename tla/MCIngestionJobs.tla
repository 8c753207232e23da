-------------------------- MODULE MCIngestionJobs --------------------------
(***************************************************************************)
(* Instances of IngestionJobs for TLC: two jobs, so that a refresh can     *)
(* follow a completed job while messages of the first one are still about. *)
(***************************************************************************)
EXTENDS IngestionJobs

CONSTANTS j1, j2
=============================================================================
