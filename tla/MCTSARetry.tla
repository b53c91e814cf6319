------------------------------ MODULE MCTSARetry ------------------------------
(* Small instances of TSARetry for TLC. *)
EXTENDS TSARetry
=============================================================================
