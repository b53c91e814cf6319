-------------------------- MODULE MCIntegrityJobs --------------------------
(* Small instances of IntegrityJobs for TLC. *)
EXTENDS IntegrityJobs
=============================================================================
