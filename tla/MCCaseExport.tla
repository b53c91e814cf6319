----------------------------- MODULE MCCaseExport -----------------------------
(* Small instances of CaseExport for TLC. *)
EXTENDS CaseExport, TLC

\* Requests are only compared for equality.
Symmetry == Permutations(Requests)
===============================================================================
