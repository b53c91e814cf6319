-------------------------------- MODULE Backup --------------------------------
(***************************************************************************)
(* Backups (internal/backup/runner.go).  RunBackup inserts a row into      *)
(* backup_log, dumps the database, then lists and reads the objects of the *)
(* store one by one, writes both into a file and completes the row.  The   *)
(* dump is one moment, the snapshot of the store is not: meanwhile items   *)
(* are uploaded (object first, row later) and destroyed (row first, object *)
(* later).  The scheduler and the handler of manual backups may run at     *)
(* once; they share the counter of consecutive failures.                   *)
(*                                                                         *)
(* A call under a cancelled context fails: the calls that follow the end   *)
(* of a request, or of the server, are failures like any other.            *)
(***************************************************************************)
EXTENDS Integers, FiniteSets

CONSTANTS
  Runs,        \* calls of RunBackup, each with a file of its own
  Items,       \* evidence items, each with one object
  CriticalAt,  \* consecutive failures that make an alarm critical (3 in the code)
  MaxFaults    \* bound on what goes wrong: failed calls, lost objects, crashes

ASSUME BackupAssumption ==
  /\ IsFiniteSet(Runs)
  /\ CriticalAt \in Nat \ {0}
  /\ MaxFaults \in Nat

VARIABLES
  item,      \* evidence_items and its upload: see ItemStates
  files,     \* items whose object is in the store
  gone,      \* items whose object was lost behind the system's back (history)
  step,      \* where each run is in RunBackup
  log,       \* its row of backup_log
  dumped,    \* items of which its dump has a live row
  snapshot,  \* "none", "full", or "failed": database only
  todo,      \* keys listed and not read
  got,       \* objects read
  disk,      \* its file: "none", "partial" or "whole"
  failures,  \* consecutiveFailures
  failed,    \* runs that ended without a backup since the last that made one (history)
  forgotten, \* those of them the counter cannot know of (history)
  alarm,     \* level of the notification that was sent for a run
  unheard,   \* runs whose notification failed (history)
  silent,    \* runs a call to backup_log failed under (history)
  faults     \* faults so far

store    == <<item, files, gone>>
archive  == <<dumped, snapshot, todo, got>>
counting == <<failures, failed, forgotten>>
alarms   == <<alarm, unheard>>
vars == <<store, step, log, archive, disk, counting, alarms, silent, faults>>

\* "dropped": the upload failed, with or without its object left behind.
ItemStates == {"new", "stored", "live", "destroyed", "dropped"}
Live       == {i \in Items : item[i] = "live"}
Destroyed  == {i \in Items : item[i] = "destroyed"}

Steps   == {"dump", "list", "read", "open", "copy", "completed", "succeed", "failed", "count"}
Running == {b \in Runs : step[b] \in Steps}

Init ==
  /\ item = [i \in Items |-> "new"]
  /\ files = {} /\ gone = {}
  /\ step = [b \in Runs |-> "none"]
  /\ log = [b \in Runs |-> "none"]
  /\ dumped = [b \in Runs |-> {}]
  /\ snapshot = [b \in Runs |-> "none"]
  /\ todo = [b \in Runs |-> {}]
  /\ got = [b \in Runs |-> {}]
  /\ disk = [b \in Runs |-> "none"]
  /\ failures = 0 /\ failed = {} /\ forgotten = {}
  /\ alarm = [b \in Runs |-> "none"] /\ unheard = {}
  /\ silent = {} /\ faults = 0

\* Something fails; the bound keeps the faults few.
Fault == faults < MaxFaults /\ faults' = faults + 1

Goto(b, s) == step' = [step EXCEPT ![b] = s]

------------------------------------------------------------------------------
(* RunBackup.                                                                *)

(* insertLog; on an error, return, without failBackup.                       *)
InsertLog(b) ==
  /\ step[b] = "none"
  /\ \/ /\ log' = [log EXCEPT ![b] = "started"]
        /\ Goto(b, "dump")
        /\ UNCHANGED <<failed, forgotten, silent, faults>>
     \/ /\ Fault /\ silent' = silent \cup {b}
        /\ failed' = failed \cup {b} /\ forgotten' = forgotten \cup {b}
        /\ Goto(b, "done")
        /\ UNCHANGED log
  /\ UNCHANGED <<store, archive, disk, failures, alarms>>

(* Seeded bug: an error of pg_dump is returned without failBackup.           *)
DumpPostgresOrReturn(b) ==
  /\ step[b] = "dump"
  /\ \/ /\ dumped' = [dumped EXCEPT ![b] = Live]
        /\ Goto(b, "list")
        /\ UNCHANGED faults
     \/ /\ Fault
        /\ Goto(b, "done")
        /\ UNCHANGED dumped
  /\ UNCHANGED <<store, log, snapshot, todo, got, disk, counting, alarms, silent>>

(* DumpPostgres: pg_dump reads one snapshot of the database.                 *)
DumpPostgres(b) ==
  /\ step[b] = "dump"
  /\ \/ /\ dumped' = [dumped EXCEPT ![b] = Live]
        /\ Goto(b, "list")
        /\ UNCHANGED faults
     \/ /\ Fault
        /\ Goto(b, "failed")
        /\ UNCHANGED dumped
  /\ UNCHANGED <<store, log, snapshot, todo, got, disk, counting, alarms, silent>>

\* "MinIO snapshot failed; backup will contain database only".
SnapshotFails(b) ==
  /\ snapshot' = [snapshot EXCEPT ![b] = "failed"]
  /\ todo' = [todo EXCEPT ![b] = {}]
  /\ got' = [got EXCEPT ![b] = {}]
  /\ Goto(b, "open")

(* snapshotMinIO: ListObjects.  Objects that come or go while it lists are    *)
(* those that come or go just before or after.                               *)
ListObjects(b) ==
  /\ step[b] = "list"
  /\ \/ /\ todo' = [todo EXCEPT ![b] = files]
        /\ Goto(b, "read")
        /\ UNCHANGED <<snapshot, got, faults>>
     \/ Fault /\ SnapshotFails(b)
  /\ UNCHANGED <<store, log, dumped, disk, counting, alarms, silent>>

(* Seeded bugs: an object that cannot be read is skipped; is tried again.    *)
GetObjectOrSkip(b, i) ==
  /\ step[b] = "read"
  /\ i \in todo[b]
  /\ todo' = [todo EXCEPT ![b] = @ \ {i}]
  /\ \/ i \in files /\ got' = [got EXCEPT ![b] = @ \cup {i}] /\ UNCHANGED faults
     \/ i \notin files /\ UNCHANGED <<got, faults>>
     \/ i \in files /\ Fault /\ UNCHANGED got
  /\ UNCHANGED <<store, step, log, dumped, snapshot, disk, counting, alarms, silent>>

GetObjectOrRetry(b, i) ==
  /\ step[b] = "read"
  /\ i \in todo[b]
  /\ i \in files
  /\ got' = [got EXCEPT ![b] = @ \cup {i}]
  /\ todo' = [todo EXCEPT ![b] = @ \ {i}]
  /\ UNCHANGED <<store, step, log, dumped, snapshot, disk, counting, alarms, silent, faults>>

(* GetObject and ReadAll of one key; any error gives the snapshot up.        *)
GetObject(b, i) ==
  /\ step[b] = "read"
  /\ i \in todo[b]
  /\ \/ /\ i \in files
        /\ got' = [got EXCEPT ![b] = @ \cup {i}]
        /\ todo' = [todo EXCEPT ![b] = @ \ {i}]
        /\ UNCHANGED <<step, snapshot, faults>>
     \/ i \notin files /\ SnapshotFails(b) /\ UNCHANGED faults
     \/ i \in files /\ Fault /\ SnapshotFails(b)
  /\ UNCHANGED <<store, log, dumped, disk, counting, alarms, silent>>

SnapshotEnds(b) ==
  /\ step[b] = "read"
  /\ todo[b] = {}
  /\ snapshot' = [snapshot EXCEPT ![b] = "full"]
  /\ Goto(b, "open")
  /\ UNCHANGED <<store, log, dumped, todo, got, disk, counting, alarms, silent, faults>>

(* createArchive, Encrypt, and writeToFile up to OpenFile.                   *)
OpenFile(b) ==
  /\ step[b] = "open"
  /\ \/ /\ disk' = [disk EXCEPT ![b] = "partial"]
        /\ Goto(b, "copy")
        /\ UNCHANGED faults
     \/ /\ Fault
        /\ Goto(b, "failed")
        /\ UNCHANGED disk
  /\ UNCHANGED <<store, log, archive, counting, alarms, silent>>

(* Seeded bug: the errors of Copy and Sync are not looked at.                *)
WriteFileUnchecked(b) ==
  /\ step[b] = "copy"
  /\ \/ disk' = [disk EXCEPT ![b] = "whole"] /\ UNCHANGED faults
     \/ Fault /\ UNCHANGED disk
  /\ Goto(b, "completed")
  /\ UNCHANGED <<store, log, archive, counting, alarms, silent>>

(* io.Copy and Sync; an error of Sync leaves the file in either state.       *)
WriteFile(b) ==
  /\ step[b] = "copy"
  /\ \/ /\ disk' = [disk EXCEPT ![b] = "whole"]
        /\ Goto(b, "completed")
        /\ UNCHANGED faults
     \/ /\ Fault
        /\ disk' \in {disk, [disk EXCEPT ![b] = "whole"]}
        /\ Goto(b, "failed")
  /\ UNCHANGED <<store, log, archive, counting, alarms, silent>>

\* An UPDATE of backup_log whose error is only logged.
UpdateLog(b, status) ==
  \/ log' = [log EXCEPT ![b] = status] /\ UNCHANGED <<silent, faults>>
  \/ Fault /\ silent' = silent \cup {b} /\ UNCHANGED log

UpdateLogCompleted(b) ==
  /\ step[b] = "completed"
  /\ UpdateLog(b, "completed")
  /\ Goto(b, "succeed")
  /\ UNCHANGED <<store, archive, disk, counting, alarms>>

(* The counter is reset under the mutex; here the run counts as a success.   *)
Succeed(b) ==
  /\ step[b] = "succeed"
  /\ failures' = 0
  /\ failed' = {} /\ forgotten' = {}
  /\ Goto(b, "done")
  /\ UNCHANGED <<store, log, archive, disk, alarms, silent, faults>>

(* failBackup: updateLogFailed ...                                           *)
UpdateLogFailed(b) ==
  /\ step[b] = "failed"
  /\ UpdateLog(b, "failed")
  /\ Goto(b, "count")
  /\ UNCHANGED <<store, archive, disk, counting, alarms>>

Level(n) == IF n >= CriticalAt THEN "CRITICAL" ELSE "WARNING"

\* A notification of the level n failures call for is sent, or fails (or there is
\* no notifier).
SendAlarm(b, n) ==
  \/ alarm' = [alarm EXCEPT ![b] = Level(n)] /\ UNCHANGED <<unheard, faults>>
  \/ Fault /\ unheard' = unheard \cup {b} /\ UNCHANGED alarm

(* Seeded bug: the level goes by the failures before this one.               *)
NotifyOfEarlierFailures(b) ==
  /\ step[b] = "count"
  /\ failures' = failures + 1
  /\ failed' = failed \cup {b}
  /\ SendAlarm(b, failures)
  /\ Goto(b, "done")
  /\ UNCHANGED <<store, log, archive, disk, forgotten, silent>>

(* ... count the failure under the mutex, and notify by that count.          *)
NotifyBackupFailed(b) ==
  /\ step[b] = "count"
  /\ failures' = failures + 1
  /\ failed' = failed \cup {b}
  /\ SendAlarm(b, failures')
  /\ Goto(b, "done")
  /\ UNCHANGED <<store, log, archive, disk, forgotten, silent>>

(* The process dies, or is restarted between runs: runs stop where they are,  *)
(* the counter starts afresh.                                                *)
Crash ==
  /\ Fault
  /\ step' = [b \in Runs |-> IF b \in Running THEN "lost" ELSE step[b]]
  /\ todo' = [b \in Runs |-> {}]
  /\ failures' = 0
  /\ failed' = failed \cup Running /\ forgotten' = failed'
  /\ UNCHANGED <<store, log, dumped, snapshot, got, disk, alarms, silent>>

------------------------------------------------------------------------------
(* Uploads and destructions, as in EvidenceVault.                            *)

\* Seeded bug: the row before the object.
PutObjectAfterRow(i) ==
  /\ \/ item[i] = "new" /\ item' = [item EXCEPT ![i] = "live"] /\ UNCHANGED files
     \/ item[i] = "live" /\ files' = files \cup {i} /\ UNCHANGED item
  /\ UNCHANGED <<gone, step, log, archive, disk, counting, alarms, silent, faults>>

PutObject(i) ==
  /\ item[i] = "new"
  /\ item' = [item EXCEPT ![i] = "stored"]
  /\ files' = files \cup {i}
  /\ UNCHANGED <<gone, step, log, archive, disk, counting, alarms, silent, faults>>

CreateRow(i) ==
  /\ item[i] = "stored"
  /\ item' = [item EXCEPT ![i] = "live"]
  /\ UNCHANGED <<files, gone, step, log, archive, disk, counting, alarms, silent, faults>>

(* Create fails; Cleanup removes the object, or fails too.                   *)
DropUpload(i) ==
  /\ item[i] = "stored"
  /\ item' = [item EXCEPT ![i] = "dropped"]
  /\ files' \in {files, files \ {i}}
  /\ UNCHANGED <<gone, step, log, archive, disk, counting, alarms, silent, faults>>

MarkDestroyed(i) ==
  /\ item[i] = "live"
  /\ item' = [item EXCEPT ![i] = "destroyed"]
  /\ UNCHANGED <<files, gone, step, log, archive, disk, counting, alarms, silent, faults>>

DeleteObject(i) ==
  /\ item[i] = "destroyed"
  /\ i \in files
  /\ files' = files \ {i}
  /\ UNCHANGED <<item, gone, step, log, archive, disk, counting, alarms, silent, faults>>

(* An object is lost: removed behind the system's back, or by the cleanup of *)
(* an upload whose row was inserted although the answer was lost.            *)
LoseObject(i) ==
  /\ i \in files
  /\ Fault
  /\ files' = files \ {i}
  /\ gone' = gone \cup {i}
  /\ UNCHANGED <<item, step, log, archive, disk, counting, alarms, silent>>

RunStep(b) ==
  \/ DumpPostgres(b) \/ ListObjects(b)
  \/ \E i \in Items : GetObject(b, i)
  \/ SnapshotEnds(b) \/ OpenFile(b) \/ WriteFile(b)
  \/ UpdateLogCompleted(b) \/ Succeed(b)
  \/ UpdateLogFailed(b) \/ NotifyBackupFailed(b)

ItemStep(i) ==
  \/ PutObject(i) \/ CreateRow(i) \/ DropUpload(i)
  \/ MarkDestroyed(i) \/ DeleteObject(i) \/ LoseObject(i)

Next ==
  \/ \E b \in Runs : InsertLog(b)
  \/ \E b \in Runs : RunStep(b)
  \/ \E i \in Items : ItemStep(i)
  \/ Crash

Spec == Init /\ [][Next]_vars

(* pg_dump and the calls to the stores end, in an answer or an error.        *)
FairSpec == Spec /\ \A b \in Runs : WF_vars(RunStep(b))

------------------------------------------------------------------------------
(* Properties.                                                               *)

\* Every variable stays in the set it is meant to range over.
TypeOK ==
  /\ item \in [Items -> ItemStates] /\ files \subseteq Items /\ gone \subseteq Items
  /\ step \in [Runs -> Steps \cup {"none", "done", "lost"}]
  /\ log \in [Runs -> {"none", "started", "completed", "failed"}]
  /\ dumped \in [Runs -> SUBSET Items]
  /\ snapshot \in [Runs -> {"none", "full", "failed"}]
  /\ todo \in [Runs -> SUBSET Items] /\ got \in [Runs -> SUBSET Items]
  /\ disk \in [Runs -> {"none", "partial", "whole"}]
  /\ failures \in Nat /\ failed \subseteq Runs /\ forgotten \subseteq failed
  /\ alarm \in [Runs -> {"none", "WARNING", "CRITICAL"}] /\ unheard \subseteq Runs
  /\ silent \subseteq Runs /\ faults \in Nat

\* What a backup misses was lost or destroyed already: the archive of a run whose
\* snapshot did not fail has the object of every row in its dump, but for items
\* destroyed since the dump and objects the store itself had lost.  It rests on the
\* order of four handlers: dump before snapshot, object before row, row destroyed
\* before object.
SnapshotCoversDump ==
  \A b \in Runs :
    snapshot[b] = "full" => dumped[b] \subseteq got[b] \cup Destroyed \cup gone

\* A backup that is listed as completed is wholly on disk, however many runs, errors
\* and crashes there were.
CompletedIsWhole == \A b \in Runs : log[b] = "completed" => disk[b] = "whole"

\* A run that returns leaves a verdict in backup_log; "started" stays behind only
\* after a crash, or if backup_log could not be written under that very run.
VerdictLeft ==
  \A b \in Runs : step[b] = "done" /\ b \notin silent => log[b] \in {"completed", "failed"}

\* Of the runs that ended without a backup, with no success since, fewer than
\* CriticalAt went without a critical alarm, however they overlapped; not counted are
\* runs refused by backup_log, those that ended before or with a crash, and those
\* whose notification failed.  And no alarm was critical unless CriticalAt runs ended
\* without a backup, with no success in between (failBackup, RunBackup).
Counted == failed \ forgotten
Mild    == {b \in Counted : alarm[b] # "CRITICAL" /\ b \notin unheard}

AlarmInTime ==
  /\ Cardinality(Mild) < CriticalAt
  /\ (\E b \in failed : alarm[b] = "CRITICAL") => Cardinality(failed) >= CriticalAt

\* The strengthening behind these: what was dumped is still to be read, was read,
\* or is destroyed or gone; a file is complete before the row says so.
LiveHaveObjects == \A i \in Items : item[i] \in {"stored", "live"} => i \in files \cup gone

DumpAccounted ==
  \A b \in Runs :
    /\ dumped[b] \subseteq Live \cup Destroyed
    /\ step[b] = "read" => dumped[b] \subseteq todo[b] \cup got[b] \cup Destroyed \cup gone
    /\ step[b] \in {"none", "dump", "list", "read"} => snapshot[b] = "none"

FileBeforeVerdict ==
  \A b \in Runs :
    /\ step[b] = "completed" => disk[b] = "whole"
    /\ step[b] \in {"none", "dump", "list", "read", "open", "copy", "completed"}
         => log[b] \in {"none", "started"}
    /\ step[b] \in {"succeed", "count"} /\ b \notin silent => log[b] \in {"completed", "failed"}

FailuresCounted ==
  /\ failures = Cardinality(Counted)
  /\ \A b \in failed : step[b] \in {"done", "lost"}

\* A run is alarmed of when it ends.
RunsUnalarmed == \A b \in Runs : step[b] \in Steps \cup {"none"} => alarm[b] = "none"

BackupInv ==
  /\ TypeOK
  /\ LiveHaveObjects
  /\ DumpAccounted
  /\ SnapshotCoversDump
  /\ FileBeforeVerdict
  /\ CompletedIsWhole
  /\ VerdictLeft
  /\ FailuresCounted
  /\ RunsUnalarmed
  /\ AlarmInTime

\* A run ends: the scheduler's loop, which waits for it, comes to the next day.
RunsEnd == \A b \in Runs : b \in Running ~> b \notin Running
==============================================================================
