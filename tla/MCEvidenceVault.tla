-------------------------- MODULE MCEvidenceVault --------------------------
(* Small instances of EvidenceVault for TLC. *)
EXTENDS EvidenceVault, TLC

\* Requests are only compared for equality.
Symmetry == Permutations(Requests)
=============================================================================
