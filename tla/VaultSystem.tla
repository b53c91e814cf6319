----------------------------- MODULE VaultSystem -----------------------------
(***************************************************************************)
(* The case service and the evidence service over one database: handlers   *)
(* of CaseLifecycle change the status and the legal hold that requests of  *)
(* EvidenceVault look up through CaseLookup (GetStatus, GetLegalHold).     *)
(***************************************************************************)
EXTENDS CaseLifecycle

CONSTANTS Requests, MaxUploads, MaxReads

VARIABLES counter, keys, row, number, thumbKey, files, thumbs, thumbJob,
          destroyed, pc, req, free, fault, reads

Vault == INSTANCE EvidenceVault

systemVars ==
  <<status, hold, stage, call, overtaken, changed, repeated, recorded, calls,
    counter, keys, row, number, thumbKey, files, thumbs, thumbJob, destroyed,
    pc, req, free, fault, reads>>

SystemInit == CaseInit /\ Vault!Init

\* A step of the case service; requests under way see the case change.
CaseServiceStep ==
  /\ CaseNext
  /\ Vault!Remember
  /\ UNCHANGED <<counter, keys, row, number, thumbKey, files, thumbs, thumbJob,
                 destroyed, pc, req, fault, reads>>

\* A step of the evidence service, which never writes the cases table but for
\* the evidence counter.
EvidenceServiceStep ==
  /\ Vault!VaultNext
  /\ UNCHANGED <<stage, call, history, recorded, calls>>

SystemNext == CaseServiceStep \/ EvidenceServiceStep

SystemSpec == SystemInit /\ [][SystemNext]_systemVars

------------------------------------------------------------------------------
(* Properties.                                                              *)

\* The case service moves the case only as the evidence service relies on: the
\* system implements EvidenceVault with CaseChanges for the case, so all that is
\* shown of EvidenceVault holds of the system.
VaultPromises == Vault!Spec
==============================================================================
