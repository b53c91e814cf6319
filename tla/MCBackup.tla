------------------------------- MODULE MCBackup -------------------------------
(***************************************************************************)
(* Small instances of Backup for TLC, in two parts: two runs among items   *)
(* that are uploaded and destroyed, and three runs over an empty store,    *)
(* for what the runs count together.  No action of a run on the store      *)
(* depends on the counter, nor the counter on what is in the store.        *)
(***************************************************************************)
EXTENDS Backup

CONSTANT Third   \* the run that takes part over an empty store only

VARIABLE part

MCInit == Init /\ part \in {"store", "counter"}

MCNext ==
  /\ Next
  /\ part = "store" => step'[Third] = "none"
  /\ part = "counter" => item' = item
  /\ UNCHANGED part

MCSpec == MCInit /\ [][MCNext]_<<vars, part>> /\ \A b \in Runs : WF_vars(RunStep(b))
==============================================================================
