-------------------------- MODULE MCEvidenceRecords --------------------------
(* Small instances of EvidenceRecords for TLC. *)
EXTENDS EvidenceRecords, TLC

\* Requests are only compared for equality.
Symmetry == Permutations(Requests)
==============================================================================
