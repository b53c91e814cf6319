---------------------------- MODULE MCVaultSystem ----------------------------
(* Small instances of VaultSystem for TLC. *)
EXTENDS VaultSystem, TLC

\* Handlers and requests are only compared for equality.
Symmetry == Permutations(Handlers) \cup Permutations(Requests)
==============================================================================
