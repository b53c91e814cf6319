---------------------------- MODULE IntegrityJobs ----------------------------
(***************************************************************************)
(* Integrity verification of one case (internal/integrity/handler.go).     *)
(* StartVerification puts a job into a map and starts a goroutine, which   *)
(* lists the items of the case once, hashes their files one after the      *)
(* other, and flags, records and reports each that is altered, missing or  *)
(* unreadable.  Meanwhile items are destroyed (row first, file later, as   *)
(* EvidenceVault has it), files are damaged, and the process may die: jobs *)
(* live in memory only.                                                    *)
(***************************************************************************)
EXTENDS Integers, FiniteSets

CONSTANTS
  Admins,    \* request goroutines of StartVerification
  Items,     \* evidence items of the case
  NoItem,
  MaxJobs,   \* bound on the jobs started
  MaxFaults  \* bound on what goes wrong: damage, errors of the stores, crashes

NoJob == 0
Jobs  == 1..MaxJobs

ASSUME IntegrityAssumption ==
  /\ IsFiniteSet(Items)
  /\ NoItem \notin Items
  /\ MaxJobs \in Nat
  /\ MaxFaults \in Nat

VARIABLES
  entry,     \* h.jobs: the job stored under the case
  started,   \* number of jobs created
  ready,     \* admins that have found no job running and not stored theirs
  status,    \* VerificationJob.Status
  count,     \* VerificationJob.Total, Verified, Mismatches and Missing
  step,      \* where the goroutine of a job is
  todo,      \* items it has listed and not looked at
  item,      \* item it is reporting
  row,       \* evidence_items: "live" or "destroyed"
  file,      \* the object of an item
  warned,    \* rows with integrity_warning
  alerted,   \* items with a custody event or a notification of an alert
  damaged,   \* items that were damaged when a job listed them (history)
  dropped,   \* items whose flag a failed UPDATE lost (history)
  unread,    \* items a read of which has failed (history)
  faults     \* faults so far

requests == <<entry, started, ready>>
stores   == <<row, file, warned, alerted>>
history  == <<damaged, dropped, unread, faults>>
vars == <<requests, status, count, step, todo, item, stores, history>>

NoCount == [total |-> 0, verified |-> 0, mismatches |-> 0, missing |-> 0]
Count   == [total : Nat, verified : Nat, mismatches : Nat, missing : Nat]

Reporting == {"flag", "record"}

Init ==
  /\ entry = NoJob /\ started = 0 /\ ready = {}
  /\ status = [j \in Jobs |-> "none"]
  /\ count = [j \in Jobs |-> NoCount]
  /\ step = [j \in Jobs |-> "none"]
  /\ todo = [j \in Jobs |-> {}]
  /\ item = [j \in Jobs |-> NoItem]
  /\ row = [i \in Items |-> "live"]
  /\ file = [i \in Items |-> "intact"]
  /\ warned = {}
  /\ alerted = {}
  /\ damaged = [j \in Jobs |-> {}] /\ dropped = {} /\ unread = {} /\ faults = 0

\* Something fails; the bound keeps the faults few.
Fault == faults < MaxFaults /\ faults' = faults + 1

------------------------------------------------------------------------------
(* StartVerification: Load, and the status of the job found; a running one   *)
(* is a conflict ...                                                         *)
CheckRunning(a) ==
  /\ a \notin ready
  /\ entry # NoJob => status[entry] # "running"
  /\ ready' = ready \cup {a}
  /\ UNCHANGED <<entry, started, status, count, step, todo, item, stores, history>>

(* ... and Store, whatever the map holds by now; go runVerification.         *)
StartJob(a) ==
  /\ a \in ready
  /\ started < MaxJobs
  /\ started' = started + 1
  /\ entry' = started'
  /\ ready' = ready \ {a}
  /\ status' = [status EXCEPT ![started'] = "running"]
  /\ step' = [step EXCEPT ![started'] = "list"]
  /\ UNCHANGED <<count, todo, item, stores, history>>

Live    == {i \in Items : row[i] = "live"}
Damaged == {i \in Items : file[i] # "intact"}

\* Seeded bug: return without setJobFailed.
ReturnUnfailed(j) ==
  /\ Fault
  /\ step' = [step EXCEPT ![j] = "done"]
  /\ UNCHANGED <<status, todo, count, damaged>>

\* setJobFailed and return.
SetJobFailed(j) ==
  /\ Fault
  /\ status' = [status EXCEPT ![j] = "failed"]
  /\ step' = [step EXCEPT ![j] = "done"]
  /\ UNCHANGED <<todo, count, damaged>>

(* runVerification: ListForVerification, one SELECT; an error fails the job. *)
ListItems(j) ==
  /\ step[j] = "list"
  /\ \/ /\ todo' = [todo EXCEPT ![j] = Live]
        /\ count' = [count EXCEPT ![j].total = Cardinality(Live)]
        /\ damaged' = [damaged EXCEPT ![j] = Live \cap Damaged]
        /\ step' = [step EXCEPT ![j] = "next"]
        /\ UNCHANGED <<status, faults>>
     \/ SetJobFailed(j)
  /\ UNCHANGED <<requests, item, stores, dropped, unread>>

\* The three outcomes of VerifyFileHash.
Verified(j, i) ==
  /\ file[i] = "intact"
  /\ count' = [count EXCEPT ![j].verified = @ + 1]
  /\ UNCHANGED <<step, item, unread, faults>>

\* Seeded bugs: no return after handleMismatch; a comparison that an intact file
\* can fail.
MismatchFallsThrough(j, i) ==
  /\ file[i] = "altered"
  /\ count' = [count EXCEPT ![j].mismatches = @ + 1, ![j].verified = @ + 1]
  /\ step' = [step EXCEPT ![j] = "flag"]
  /\ item' = [item EXCEPT ![j] = i]
  /\ UNCHANGED <<unread, faults>>

MismatchOfReadable(j, i) ==
  /\ file[i] # "absent"
  /\ count' = [count EXCEPT ![j].mismatches = @ + 1]
  /\ step' = [step EXCEPT ![j] = "flag"]
  /\ item' = [item EXCEPT ![j] = i]
  /\ UNCHANGED <<unread, faults>>

Mismatch(j, i) ==
  /\ file[i] = "altered"
  /\ count' = [count EXCEPT ![j].mismatches = @ + 1]
  /\ step' = [step EXCEPT ![j] = "flag"]
  /\ item' = [item EXCEPT ![j] = i]
  /\ UNCHANGED <<unread, faults>>

\* Seeded bug: a missing file is counted and not flagged.
MissingUnflagged(j, i) ==
  /\ file[i] = "absent"
  /\ count' = [count EXCEPT ![j].missing = @ + 1]
  /\ UNCHANGED <<step, item, unread, faults>>

\* "File missing or unreadable": a file that cannot be read now counts as missing.
Missing(j, i) ==
  /\ count' = [count EXCEPT ![j].missing = @ + 1]
  /\ step' = [step EXCEPT ![j] = "flag"]
  /\ item' = [item EXCEPT ![j] = i]
  /\ \/ file[i] = "absent" /\ UNCHANGED <<unread, faults>>
     \/ file[i] # "absent" /\ Fault /\ unread' = unread \cup {i}

(* verifyItem, for the next item of the list.                                *)
VerifyItem(j, i) ==
  /\ step[j] = "next"
  /\ i \in todo[j]
  /\ todo' = [todo EXCEPT ![j] = @ \ {i}]
  /\ Verified(j, i) \/ Mismatch(j, i) \/ Missing(j, i)
  /\ UNCHANGED <<requests, status, stores, damaged, dropped>>

(* handleMismatch and handleMissing: flag, then record and notify; errors are *)
(* logged.                                                                   *)
FlagWarning(j) ==
  /\ step[j] = "flag"
  /\ \/ warned' = warned \cup {item[j]} /\ UNCHANGED <<dropped, faults>>
     \/ Fault /\ dropped' = dropped \cup {item[j]} /\ UNCHANGED warned
  /\ step' = [step EXCEPT ![j] = "record"]
  /\ UNCHANGED <<requests, status, count, todo, item, row, file, alerted, damaged, unread>>

RecordAlert(j) ==
  /\ step[j] = "record"
  /\ \/ alerted' = alerted \cup {item[j]} /\ UNCHANGED faults
     \/ Fault /\ UNCHANGED alerted
  /\ step' = [step EXCEPT ![j] = "next"]
  /\ item' = [item EXCEPT ![j] = NoItem]
  /\ UNCHANGED <<requests, status, count, todo, row, file, warned, damaged, dropped, unread>>

FinishJob(j) ==
  /\ step[j] = "next"
  /\ todo[j] = {}
  /\ status' = [status EXCEPT ![j] = "completed"]
  /\ step' = [step EXCEPT ![j] = "done"]
  /\ UNCHANGED <<requests, count, todo, item, stores, history>>

------------------------------------------------------------------------------
(* The rest of the system.                                                   *)

MarkDestroyed(i) ==
  /\ row[i] = "live"
  /\ row' = [row EXCEPT ![i] = "destroyed"]
  /\ UNCHANGED <<requests, status, count, step, todo, item, file, warned, alerted, history>>

DeleteFile(i) ==
  /\ row[i] = "destroyed"
  /\ file[i] # "absent"
  /\ file' = [file EXCEPT ![i] = "absent"]
  /\ UNCHANGED <<requests, status, count, step, todo, item, row, warned, alerted, history>>

(* A file is altered or lost behind the system's back.                       *)
DamageFile(i) ==
  /\ row[i] = "live"
  /\ file[i] = "intact"
  /\ Fault
  /\ \E f \in {"altered", "absent"} : file' = [file EXCEPT ![i] = f]
  /\ UNCHANGED <<requests, status, count, step, todo, item, row, warned, alerted,
                 damaged, dropped, unread>>

(* The process dies with every job, and the map with it.                     *)
Crash ==
  /\ \E j \in Jobs : status[j] = "running"
  /\ Fault
  /\ entry' = NoJob
  /\ ready' = {}
  /\ status' = [j \in Jobs |-> IF j <= started THEN "lost" ELSE "none"]
  /\ step' = [j \in Jobs |-> IF j <= started THEN "done" ELSE "none"]
  /\ count' = [j \in Jobs |-> NoCount]
  /\ todo' = [j \in Jobs |-> {}]
  /\ item' = [j \in Jobs |-> NoItem]
  /\ damaged' = [j \in Jobs |-> {}]
  /\ UNCHANGED <<started, stores, dropped, unread>>

JobStep(j) ==
  \/ ListItems(j)
  \/ \E i \in Items : VerifyItem(j, i)
  \/ FlagWarning(j)
  \/ RecordAlert(j)
  \/ FinishJob(j)

Next ==
  \/ \E a \in Admins : CheckRunning(a)
  \/ \E a \in Admins : StartJob(a)
  \/ \E j \in Jobs : JobStep(j)
  \/ \E i \in Items : MarkDestroyed(i)
  \/ \E i \in Items : DeleteFile(i)
  \/ \E i \in Items : DamageFile(i)
  \/ Crash

Spec == Init /\ [][Next]_vars

(* A goroutine runs on, its calls end in an answer or an error.              *)
FairSpec == Spec /\ \A j \in Jobs : WF_vars(JobStep(j))

------------------------------------------------------------------------------
(* Properties.                                                               *)

\* Every variable stays in the set it is meant to range over.
TypeOK ==
  /\ entry \in Jobs \cup {NoJob} /\ started \in 0..MaxJobs /\ ready \subseteq Admins
  /\ status \in [Jobs -> {"none", "running", "completed", "failed", "lost"}]
  /\ count \in [Jobs -> Count]
  /\ step \in [Jobs -> {"none", "list", "next", "done"} \cup Reporting]
  /\ todo \in [Jobs -> SUBSET Items]
  /\ item \in [Jobs -> Items \cup {NoItem}]
  /\ row \in [Items -> {"live", "destroyed"}]
  /\ file \in [Items -> {"intact", "altered", "absent"}]
  /\ warned \subseteq Items /\ alerted \subseteq Items
  /\ damaged \in [Jobs -> SUBSET Items]
  /\ dropped \subseteq Items /\ unread \subseteq Items /\ faults \in Nat
  /\ \A j \in Jobs : step[j] \in Reporting => item[j] \in Items

\* What an administrator polls adds up at every moment: the items counted and the
\* items still to do are the items listed, so a completed job counted each once.
CountsAddUp ==
  \A j \in Jobs :
    count[j].verified + count[j].mismatches + count[j].missing + Cardinality(todo[j])
      = count[j].total

\* A completed job has flagged every item that was damaged when it listed the
\* items, whatever happened meanwhile; only a failed UPDATE loses a flag.
NothingSlips ==
  \A j \in Jobs : status[j] = "completed" => damaged[j] \subseteq warned \cup dropped

\* No false alarm: an item with an integrity warning, or of which an alert speaks,
\* has lost its intact file, or a read of it failed.  (The file may be gone because
\* the item was destroyed.)
WarnedForCause ==
  \A i \in warned \cup alerted : file[i] # "intact" \/ i \in unread

\* The strengthening that makes these three inductive: a job that has not listed
\* has counted nothing; what a job is reporting has cause; and a damaged item is
\* still to do, being flagged, or flagged.
NotListed ==
  \A j \in Jobs :
    /\ step[j] \in {"none", "list"} => count[j] = NoCount /\ todo[j] = {}
    /\ j > started => step[j] = "none"

ReportedForCause ==
  \A j \in Jobs : step[j] \in Reporting => file[item[j]] # "intact" \/ item[j] \in unread

Pending(j) == todo[j] \cup {i \in Items : step[j] = "flag" /\ i = item[j]}

DamageInHand ==
  \A j \in Jobs :
    /\ damaged[j] \subseteq Damaged
    /\ step[j] \in {"next"} \cup Reporting
         => damaged[j] \subseteq Pending(j) \cup warned \cup dropped
    /\ status[j] = "completed" => step[j] = "done"

JobInv ==
  /\ TypeOK
  /\ NotListed
  /\ CountsAddUp
  /\ ReportedForCause
  /\ WarnedForCause
  /\ DamageInHand
  /\ NothingSlips

\* A job ends: administrators of the case are not locked out by a job that hangs
\* in "running", unless they are told (the process died and forgot it).
JobsEnd == \A j \in Jobs : status[j] = "running" ~> status[j] # "running"

\* StartVerification: "Reject if a verification is already running for this case".
OneJobRuns ==
  \A j, k \in Jobs : status[j] = "running" /\ status[k] = "running" => j = k
==============================================================================
