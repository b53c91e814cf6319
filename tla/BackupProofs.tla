----------------------------- MODULE BackupProofs -----------------------------
(***************************************************************************)
(* Proofs about Backup for any number of runs, items and failures.  The    *)
(* heart is DumpAccounted: an item of the dump had its object when the     *)
(* store was listed, unless it was destroyed or its object lost since, and *)
(* a key leaves the list only into the archive.                            *)
(***************************************************************************)
EXTENDS Backup, FiniteSetTheorems, TLAPS

\* At the start nothing is uploaded, dumped, written or counted.
LEMMA InitInv == Init => BackupInv
<1> SUFFICES ASSUME Init PROVE BackupInv
  OBVIOUS
<1>1. TypeOK
  BY DEF Init, TypeOK, ItemStates
<1>2. /\ LiveHaveObjects /\ DumpAccounted /\ SnapshotCoversDump /\ FileBeforeVerdict
      /\ CompletedIsWhole /\ VerdictLeft
  BY DEF Init, LiveHaveObjects, DumpAccounted, SnapshotCoversDump, FileBeforeVerdict,
         CompletedIsWhole, VerdictLeft
<1>3. FailuresCounted /\ RunsUnalarmed /\ AlarmInTime
  <2>1. Counted = {} /\ Mild = {}
    BY DEF Init, Counted, Mild
  <2>2. QED
    BY <2>1, FS_EmptySet, BackupAssumption
       DEF Init, FailuresCounted, RunsUnalarmed, AlarmInTime
<1>4. QED
  BY <1>1, <1>2, <1>3 DEF BackupInv

\* Every step keeps every variable in its set.
LEMMA TypeStep == TypeOK /\ [Next]_vars => TypeOK'
<1> SUFFICES ASSUME TypeOK, [Next]_vars PROVE TypeOK'
  OBVIOUS
<1> USE DEF TypeOK, store, archive, counting, alarms, Goto, Fault, Steps, ItemStates
<1>1. ASSUME NEW b \in Runs, InsertLog(b) \/ DumpPostgres(b) PROVE TypeOK'
  BY <1>1 DEF InsertLog, DumpPostgres, Live
<1>2. ASSUME NEW b \in Runs, ListObjects(b) \/ SnapshotEnds(b) PROVE TypeOK'
  BY <1>2 DEF ListObjects, SnapshotFails, SnapshotEnds
<1>3. ASSUME NEW b \in Runs, NEW i \in Items, GetObject(b, i) PROVE TypeOK'
  BY <1>3 DEF GetObject, SnapshotFails
<1>4. ASSUME NEW b \in Runs, OpenFile(b) \/ WriteFile(b) PROVE TypeOK'
  BY <1>4 DEF OpenFile, WriteFile
<1>5. ASSUME NEW b \in Runs, UpdateLogCompleted(b) \/ UpdateLogFailed(b) PROVE TypeOK'
  BY <1>5 DEF UpdateLogCompleted, UpdateLogFailed, UpdateLog
<1>6. ASSUME NEW b \in Runs, Succeed(b) \/ NotifyBackupFailed(b) PROVE TypeOK'
  BY <1>6 DEF Succeed, NotifyBackupFailed, SendAlarm, Level
<1>7. ASSUME NEW i \in Items, ItemStep(i) PROVE TypeOK'
  BY <1>7 DEF ItemStep, PutObject, CreateRow, DropUpload, MarkDestroyed, DeleteObject,
              LoseObject
<1>8. CASE Crash
  BY <1>8 DEF Crash, Running
<1>9. CASE UNCHANGED vars
  BY <1>9 DEF vars
<1>10. QED
  BY <1>1, <1>2, <1>3, <1>4, <1>5, <1>6, <1>7, <1>8, <1>9 DEF Next, RunStep

\* An object is stored before its row is inserted and stays until the row is
\* destroyed, unless it is lost.
LEMMA ObjectsStep == TypeOK /\ LiveHaveObjects /\ [Next]_vars => LiveHaveObjects'
<1> SUFFICES ASSUME TypeOK, LiveHaveObjects, [Next]_vars PROVE LiveHaveObjects'
  OBVIOUS
<1> USE DEF TypeOK, LiveHaveObjects, store
<1>1. CASE UNCHANGED store
  BY <1>1
<1>2. ASSUME NEW i \in Items, ItemStep(i) PROVE LiveHaveObjects'
  BY <1>2 DEF ItemStep, PutObject, CreateRow, DropUpload, MarkDestroyed, DeleteObject,
              LoseObject
<1>3. ASSUME NEW b \in Runs, InsertLog(b) \/ RunStep(b) PROVE UNCHANGED store
  BY <1>3 DEF InsertLog, RunStep, DumpPostgres, ListObjects, GetObject, SnapshotEnds,
              OpenFile, WriteFile, UpdateLogCompleted, Succeed, UpdateLogFailed,
              NotifyBackupFailed
<1>4. CASE Crash
  BY <1>1, <1>4 DEF Crash
<1>5. QED
  BY <1>1, <1>2, <1>3, <1>4 DEF Next, vars

\* What was destroyed or lost stays so, and a row goes nowhere but to destroyed.
LEMMA OnlyForward ==
  ASSUME TypeOK, [Next]_vars
  PROVE  Destroyed \subseteq Destroyed' /\ gone \subseteq gone' /\ Live \subseteq (Live \cup Destroyed)'
<1> USE DEF TypeOK, store, Destroyed, Live
<1>1. CASE UNCHANGED store
  BY <1>1
<1>2. ASSUME NEW i \in Items, ItemStep(i)
      PROVE  Destroyed \subseteq Destroyed' /\ gone \subseteq gone'
             /\ Live \subseteq (Live \cup Destroyed)'
  BY <1>2 DEF ItemStep, PutObject, CreateRow, DropUpload, MarkDestroyed, DeleteObject,
              LoseObject
<1>3. ASSUME NEW b \in Runs, InsertLog(b) \/ RunStep(b) PROVE UNCHANGED store
  BY <1>3 DEF InsertLog, RunStep, DumpPostgres, ListObjects, GetObject, SnapshotEnds,
              OpenFile, WriteFile, UpdateLogCompleted, Succeed, UpdateLogFailed,
              NotifyBackupFailed
<1>4. CASE Crash
  BY <1>1, <1>4 DEF Crash
<1>5. QED
  BY <1>1, <1>2, <1>3, <1>4 DEF Next, vars

Accounts == LiveHaveObjects /\ DumpAccounted /\ SnapshotCoversDump

\* A dump is taken of live rows; listing finds their objects; a key that is read
\* goes into the archive; a key that cannot be read gives the snapshot up.
LEMMA AccountsStep ==
  TypeOK /\ Accounts /\ [Next]_vars => DumpAccounted' /\ SnapshotCoversDump'
<1> SUFFICES ASSUME TypeOK, Accounts, [Next]_vars PROVE DumpAccounted' /\ SnapshotCoversDump'
  OBVIOUS
<1>0. Destroyed \subseteq Destroyed' /\ gone \subseteq gone'
      /\ Live \subseteq (Live \cup Destroyed)'
  BY OnlyForward
<1> DEFINE Keeps(c) ==
      /\ dumped'[c] \subseteq Live' \cup Destroyed'
      /\ step'[c] = "read" => dumped'[c] \subseteq todo'[c] \cup got'[c] \cup Destroyed' \cup gone'
      /\ step'[c] \in {"none", "dump", "list", "read"} => snapshot'[c] = "none"
      /\ snapshot'[c] = "full" => dumped'[c] \subseteq got'[c] \cup Destroyed' \cup gone'
<1>1. SUFFICES \A c \in Runs : Keeps(c)
  BY DEF DumpAccounted, SnapshotCoversDump
<1>2. ASSUME NEW c \in Runs, step'[c] = step[c] \/ step'[c] \notin {"none", "dump", "list", "read"},
             UNCHANGED <<dumped[c], got[c], snapshot[c]>>,
             step'[c] = "read" => UNCHANGED todo[c]
      PROVE  Keeps(c)
  BY <1>0, <1>2 DEF Accounts, DumpAccounted, SnapshotCoversDump
<1> USE DEF TypeOK, archive, Goto
<1>3. ASSUME NEW b \in Runs, RunStep(b) \/ InsertLog(b), NEW c \in Runs \ {b} PROVE Keeps(c)
  <2>1. UNCHANGED <<step[c], dumped[c], got[c], snapshot[c], todo[c]>>
    BY <1>3 DEF RunStep, InsertLog, DumpPostgres, ListObjects, GetObject, SnapshotEnds,
                OpenFile, WriteFile, UpdateLogCompleted, Succeed, UpdateLogFailed,
                NotifyBackupFailed, SnapshotFails
  <2>2. QED
    BY <1>2, <2>1
<1>4. ASSUME NEW b \in Runs, DumpPostgres(b) PROVE Keeps(b)
  BY <1>0, <1>4 DEF DumpPostgres, Accounts, DumpAccounted, SnapshotCoversDump, store
<1>5. ASSUME NEW b \in Runs, ListObjects(b) PROVE Keeps(b)
  <2>1. dumped[b] \subseteq files \cup Destroyed \cup gone
    BY DEF Accounts, LiveHaveObjects, DumpAccounted, Live
  <2>2. QED
    BY <1>0, <1>5, <2>1
       DEF ListObjects, SnapshotFails, Accounts, DumpAccounted, SnapshotCoversDump
<1>6. ASSUME NEW b \in Runs, NEW i \in Items, GetObject(b, i) PROVE Keeps(b)
  BY <1>0, <1>6 DEF GetObject, SnapshotFails, Accounts, DumpAccounted, SnapshotCoversDump
<1>7. ASSUME NEW b \in Runs, SnapshotEnds(b) PROVE Keeps(b)
  BY <1>0, <1>7 DEF SnapshotEnds, Accounts, DumpAccounted, SnapshotCoversDump
<1>8. ASSUME NEW b \in Runs, OpenFile(b) \/ WriteFile(b) \/ UpdateLogCompleted(b) \/ Succeed(b)
                             \/ UpdateLogFailed(b) \/ NotifyBackupFailed(b)
      PROVE  Keeps(b)
  BY <1>2, <1>8 DEF OpenFile, WriteFile, UpdateLogCompleted, Succeed, UpdateLogFailed,
                    NotifyBackupFailed
<1>9. ASSUME NEW b \in Runs, InsertLog(b) PROVE Keeps(b)
  BY <1>0, <1>9 DEF InsertLog, Accounts, DumpAccounted, SnapshotCoversDump
<1>10. ASSUME NEW i \in Items, ItemStep(i), NEW c \in Runs PROVE Keeps(c)
  <2>1. UNCHANGED <<step, dumped, got, snapshot, todo>>
    BY <1>10 DEF ItemStep, PutObject, CreateRow, DropUpload, MarkDestroyed, DeleteObject,
                 LoseObject
  <2>2. QED
    BY <1>2, <2>1
<1>11. ASSUME Crash, NEW c \in Runs PROVE Keeps(c)
  <2>1. /\ UNCHANGED <<dumped, got, snapshot>>
        /\ c \in Running => step'[c] = "lost"
        /\ c \notin Running => step'[c] = step[c] /\ step[c] # "read"
    BY <1>11 DEF Crash, Running, Steps
  <2>2. QED
    BY <1>2, <2>1
<1>12. ASSUME UNCHANGED vars, NEW c \in Runs PROVE Keeps(c)
  BY <1>2, <1>12 DEF vars
<1> HIDE DEF Keeps
<1>13. ASSUME NEW b \in Runs, RunStep(b) \/ InsertLog(b), NEW c \in Runs PROVE Keeps(c)
  BY <1>3, <1>4, <1>5, <1>6, <1>7, <1>8, <1>9, <1>13 DEF RunStep
<1>14. QED
  BY <1>10, <1>11, <1>12, <1>13 DEF Next

Verdicts == FileBeforeVerdict /\ CompletedIsWhole /\ VerdictLeft

\* A run writes its row and its file itself, the file first; nobody else touches them.
LEMMA VerdictStep == TypeOK /\ Verdicts /\ [Next]_vars => Verdicts'
<1> SUFFICES ASSUME TypeOK, Verdicts, [Next]_vars PROVE Verdicts'
  OBVIOUS
<1> DEFINE Keeps(c) ==
      /\ step'[c] = "completed" => disk'[c] = "whole"
      /\ step'[c] \in {"none", "dump", "list", "read", "open", "copy", "completed"}
           => log'[c] \in {"none", "started"}
      /\ step'[c] \in {"succeed", "count"} /\ c \notin silent' => log'[c] \in {"completed", "failed"}
      /\ log'[c] = "completed" => disk'[c] = "whole"
      /\ step'[c] = "done" /\ c \notin silent' => log'[c] \in {"completed", "failed"}
<1>1. SUFFICES \A c \in Runs : Keeps(c)
  BY DEF Verdicts, FileBeforeVerdict, CompletedIsWhole, VerdictLeft
<1> USE DEF TypeOK, Goto, Verdicts, FileBeforeVerdict, CompletedIsWhole, VerdictLeft
<1>2. ASSUME NEW c \in Runs, UNCHANGED <<log[c], disk[c]>>, c \in silent => c \in silent',
             step'[c] = step[c] \/ step'[c] = "lost"
      PROVE  Keeps(c)
  BY <1>2
<1>3. ASSUME NEW b \in Runs, RunStep(b) \/ InsertLog(b), NEW c \in Runs \ {b} PROVE Keeps(c)
  <2>1. UNCHANGED <<step[c], log[c], disk[c]>> /\ (c \in silent => c \in silent')
    BY <1>3 DEF RunStep, InsertLog, DumpPostgres, ListObjects, GetObject, SnapshotEnds,
                OpenFile, WriteFile, UpdateLogCompleted, Succeed, UpdateLogFailed,
                NotifyBackupFailed, SnapshotFails, UpdateLog
  <2>2. QED
    BY <1>2, <2>1
<1>4. ASSUME NEW b \in Runs, InsertLog(b) \/ DumpPostgres(b) \/ ListObjects(b) \/ SnapshotEnds(b)
      PROVE  Keeps(b)
  BY <1>4 DEF InsertLog, DumpPostgres, ListObjects, SnapshotFails, SnapshotEnds
<1>5. ASSUME NEW b \in Runs, NEW i \in Items, GetObject(b, i) PROVE Keeps(b)
  BY <1>5 DEF GetObject, SnapshotFails
<1>6. ASSUME NEW b \in Runs, OpenFile(b) \/ WriteFile(b) PROVE Keeps(b)
  BY <1>6 DEF OpenFile, WriteFile
<1>7. ASSUME NEW b \in Runs, UpdateLogCompleted(b) \/ UpdateLogFailed(b) PROVE Keeps(b)
  BY <1>7 DEF UpdateLogCompleted, UpdateLogFailed, UpdateLog
<1>8. ASSUME NEW b \in Runs, Succeed(b) \/ NotifyBackupFailed(b) PROVE Keeps(b)
  BY <1>8 DEF Succeed, NotifyBackupFailed
<1>9. ASSUME NEW i \in Items, ItemStep(i), NEW c \in Runs PROVE Keeps(c)
  BY <1>2, <1>9 DEF ItemStep, PutObject, CreateRow, DropUpload, MarkDestroyed, DeleteObject,
                    LoseObject
<1>10. ASSUME Crash, NEW c \in Runs PROVE Keeps(c)
  BY <1>2, <1>10 DEF Crash
<1>11. ASSUME UNCHANGED vars, NEW c \in Runs PROVE Keeps(c)
  BY <1>2, <1>11 DEF vars
<1> HIDE DEF Keeps
<1>12. ASSUME NEW b \in Runs, RunStep(b) \/ InsertLog(b), NEW c \in Runs PROVE Keeps(c)
  BY <1>3, <1>4, <1>5, <1>6, <1>7, <1>8, <1>12 DEF RunStep
<1>13. QED
  BY <1>9, <1>10, <1>11, <1>12 DEF Next

Alarms == FailuresCounted /\ AlarmInTime

\* The counted failures and the mild ones among them can be counted.
LEMMA CountedCounts ==
  ASSUME TypeOK
  PROVE  /\ IsFiniteSet(failed) /\ Cardinality(failed) \in Nat
         /\ IsFiniteSet(Counted) /\ Cardinality(Counted) \in Nat
         /\ Cardinality(Counted) <= Cardinality(failed)
         /\ Cardinality(Mild) <= Cardinality(Counted) /\ Cardinality(Mild) \in Nat
<1>1. IsFiniteSet(failed)
  BY BackupAssumption, FS_Subset DEF TypeOK
<1>2. Counted \in SUBSET failed /\ Mild \in SUBSET Counted
  BY DEF Counted, Mild
<1>3. IsFiniteSet(Counted)
  BY <1>1, <1>2, FS_Subset
<1>4. IsFiniteSet(Mild)
  BY <1>2, <1>3, FS_Subset
<1>5. QED
  BY <1>1, <1>2, <1>3, <1>4, FS_Subset, FS_CardinalityType

\* A step that counts nothing, and changes no alarm of a run that ended.
LEMMA QuietAlarms ==
  ASSUME TypeOK, Alarms, UNCHANGED <<counting, alarms>>,
         \A b \in failed : step'[b] = step[b]
  PROVE  Alarms'
<1>1. Counted' = Counted /\ Mild' = Mild
  BY DEF Counted, Mild, counting, alarms
<1>2. QED
  BY <1>1 DEF Alarms, FailuresCounted, AlarmInTime, counting, alarms

\* A success, after which nothing is counted.
LEMMA ResetAlarms ==
  ASSUME failures' = 0, failed' = {}
  PROVE  Alarms'
<1>1. Counted' = {} /\ Mild' = {}
  BY DEF Counted, Mild
<1>2. QED
  BY <1>1, FS_EmptySet, BackupAssumption DEF Alarms, FailuresCounted, AlarmInTime

\* Runs that end uncounted: the history grows, the counter knows what it knew.
LEMMA ForgetAlarms ==
  ASSUME TypeOK, TypeOK', Alarms, UNCHANGED alarms, failed \subseteq failed',
         \A b \in failed' : step'[b] \in {"done", "lost"},
         \A b \in failed' \ failed : alarm[b] # "CRITICAL",
         Counted' \subseteq Counted, failures' = Cardinality(Counted')
  PROVE  Alarms'
<1>1. Mild' \in SUBSET Mild
  BY DEF Mild, alarms
<1>2. IsFiniteSet(Mild) /\ Cardinality(Mild') \in Nat /\ Cardinality(Mild) \in Nat
  <2>1. Mild \in SUBSET Counted
    BY DEF Mild
  <2>2. QED
    BY <2>1, CountedCounts, FS_Subset, <1>1, FS_CardinalityType
<1>3. Cardinality(Mild') <= Cardinality(Mild)
  BY <1>1, <1>2, FS_Subset
<1>4. Cardinality(failed) <= Cardinality(failed')
  <2>1. IsFiniteSet(failed')
    BY BackupAssumption, FS_Subset DEF TypeOK
  <2>2. QED
    BY <2>1, FS_Subset
<1>5. Cardinality(failed) \in Nat /\ Cardinality(failed') \in Nat
  <2>1. IsFiniteSet(failed) /\ IsFiniteSet(failed')
    BY BackupAssumption, FS_Subset DEF TypeOK
  <2>2. QED
    BY <2>1, FS_CardinalityType
<1>6. (\E b \in failed' : alarm'[b] = "CRITICAL") => \E b \in failed : alarm[b] = "CRITICAL"
  BY DEF alarms
<1>7. AlarmInTime'
  BY <1>2, <1>3, <1>4, <1>5, <1>6, BackupAssumption DEF Alarms, AlarmInTime
<1>8. QED
  BY <1>7 DEF Alarms, FailuresCounted

\* A failure is counted and the level of its alarm chosen in one critical section.
LEMMA CountStep ==
  ASSUME TypeOK, TypeOK', Alarms, RunsUnalarmed, NEW b \in Runs, NotifyBackupFailed(b)
  PROVE  Alarms'
<1> USE BackupAssumption DEF TypeOK, Goto
<1>1. step[b] = "count" /\ b \notin failed /\ step'[b] = "done"
  BY DEF NotifyBackupFailed, Alarms, FailuresCounted
<1>2. /\ failed' = failed \cup {b} /\ forgotten' = forgotten /\ failures' = failures + 1
      /\ \A c \in Runs \ {b} : step'[c] = step[c]
  BY DEF NotifyBackupFailed
<1>3. Counted' = Counted \cup {b} /\ b \notin Counted
  BY <1>1, <1>2 DEF Counted
<1>4. /\ Cardinality(Counted') = Cardinality(Counted) + 1
      /\ Cardinality(Counted) \in Nat /\ failures = Cardinality(Counted)
  BY <1>3, CountedCounts, FS_AddElement DEF Alarms, FailuresCounted
<1>5. FailuresCounted'
  BY <1>1, <1>2, <1>4 DEF Alarms, FailuresCounted
<1>6. /\ \/ alarm'[b] = Level(failures')
         \/ b \in unheard' /\ alarm' = alarm
      /\ \A c \in Runs \ {b} : alarm'[c] = alarm[c] /\ (c \in unheard' <=> c \in unheard)
  BY DEF NotifyBackupFailed, SendAlarm
<1>7. /\ Cardinality(Mild) \in Nat /\ Cardinality(Mild') \in Nat
      /\ Cardinality(Mild') <= Cardinality(Counted')
      /\ Cardinality(failed') \in Nat /\ Cardinality(Counted') <= Cardinality(failed')
      /\ Cardinality(failed) \in Nat /\ Cardinality(failed) <= Cardinality(failed')
  <2>1. /\ Cardinality(Mild) \in Nat /\ Cardinality(failed) \in Nat
        /\ IsFiniteSet(failed) /\ b \notin failed
    BY <1>1, CountedCounts
  <2>2. Cardinality(failed') = Cardinality(failed) + 1
    BY <1>2, <2>1, FS_AddElement
  <2>3. /\ Counted' \in SUBSET failed' /\ Mild' \in SUBSET Counted'
    BY DEF Counted, Mild
  <2>4. IsFiniteSet(failed')
    BY <1>2, <2>1, FS_AddElement
  <2>5. IsFiniteSet(Counted') /\ Cardinality(Counted') <= Cardinality(failed')
    BY <2>3, <2>4, FS_Subset
  <2>6. IsFiniteSet(Mild') /\ Cardinality(Mild') <= Cardinality(Counted')
    BY <2>3, <2>5, FS_Subset
  <2>7. QED
    BY <2>1, <2>2, <2>4, <2>5, <2>6, FS_CardinalityType
<1>8. CASE failures' >= CriticalAt
  <2>1. Mild' = Mild
    <3>1. b \notin Mild'
      BY <1>6, <1>8, <1>1 DEF Mild, Level
    <3>2. \A c \in Runs \ {b} : c \in Mild' <=> c \in Mild
      BY <1>3, <1>6 DEF Mild
    <3>3. Mild \subseteq Runs \ {b} /\ Mild' \subseteq Runs
      BY <1>3 DEF Mild, Counted
    <3>4. ASSUME NEW c PROVE c \in Mild' <=> c \in Mild
      <4>1. CASE c \in Runs \ {b}
        BY <3>2, <4>1
      <4>2. CASE c \notin Runs \ {b}
        <5>1. c \notin Mild
          BY <3>3, <4>2
        <5>2. c \notin Mild'
          BY <3>1, <3>3, <4>2
        <5>3. QED
          BY <5>1, <5>2
      <4>3. QED
        BY <4>1, <4>2
    <3>5. QED
      BY <3>4
  <2>2. Cardinality(failed') >= CriticalAt
    BY <1>5, <1>7, <1>8 DEF FailuresCounted
  <2>3. QED
    BY <2>1, <2>2, <1>5 DEF Alarms, AlarmInTime
<1>9. CASE ~ (failures' >= CriticalAt)
  <2>1. Cardinality(Mild') < CriticalAt
    BY <1>5, <1>7, <1>9 DEF FailuresCounted
  <2>2. (\E c \in failed' : alarm'[c] = "CRITICAL") => \E c \in failed : alarm[c] = "CRITICAL"
    BY <1>1, <1>2, <1>6, <1>9 DEF Level, RunsUnalarmed
  <2>3. QED
    BY <2>1, <2>2, <1>5, <1>7 DEF Alarms, AlarmInTime
<1>10. QED
  BY <1>8, <1>9

\* What is alarmed of has ended, and nothing ends twice.
LEMMA AlarmStep ==
  TypeOK /\ TypeOK' /\ Alarms /\ RunsUnalarmed /\ [Next]_vars => Alarms' /\ RunsUnalarmed'
<1> SUFFICES ASSUME TypeOK, TypeOK', Alarms, RunsUnalarmed, [Next]_vars
             PROVE  Alarms' /\ RunsUnalarmed'
  OBVIOUS
<1> USE DEF TypeOK, Goto
<1>1. ASSUME NEW b \in Runs, NotifyBackupFailed(b) PROVE Alarms' /\ RunsUnalarmed'
  <2>1. /\ step'[b] = "done" /\ \A c \in Runs \ {b} : step'[c] = step[c]
        /\ \A c \in Runs \ {b} : alarm'[c] = alarm[c]
    BY <1>1 DEF NotifyBackupFailed, SendAlarm
  <2>2. RunsUnalarmed'
    BY <2>1 DEF RunsUnalarmed, Steps
  <2>3. QED
    BY <1>1, <2>2, CountStep
<1>2. ASSUME NEW b \in Runs, Succeed(b) PROVE Alarms' /\ RunsUnalarmed'
  BY <1>2, ResetAlarms DEF Succeed, RunsUnalarmed, alarms
<1>3. CASE Crash
  <2>1. /\ failures' = 0 /\ failed' = failed \cup Running /\ forgotten' = failed'
        /\ UNCHANGED alarms /\ step' = [b \in Runs |-> IF b \in Running THEN "lost" ELSE step[b]]
    BY <1>3 DEF Crash
  <2>2. Counted' = {}
    BY <2>1 DEF Counted
  <2>3. failures' = Cardinality(Counted')
    BY <2>1, <2>2, FS_EmptySet
  <2>4. \A b \in failed' : step'[b] \in {"done", "lost"}
    BY <2>1 DEF Alarms, FailuresCounted, Running
  <2>5. \A b \in failed' \ failed : alarm[b] # "CRITICAL"
    BY <2>1 DEF Running, RunsUnalarmed, Steps
  <2>6. Alarms'
    BY <2>1, <2>2, <2>3, <2>4, <2>5, ForgetAlarms
  <2>7. RunsUnalarmed'
    BY <2>1 DEF RunsUnalarmed, alarms, Running, Steps
  <2>8. QED
    BY <2>6, <2>7
<1>4. ASSUME NEW b \in Runs, InsertLog(b) PROVE Alarms' /\ RunsUnalarmed'
  <2>1. step[b] = "none" /\ b \notin failed
    BY <1>4 DEF InsertLog, Alarms, FailuresCounted
  <2>2. UNCHANGED <<failures, alarms>> /\ \A c \in Runs \ {b} : step'[c] = step[c]
    BY <1>4 DEF InsertLog
  <2>3. RunsUnalarmed'
    BY <1>4, <2>1, <2>2 DEF InsertLog, RunsUnalarmed, alarms
  <2>4. CASE UNCHANGED <<failed, forgotten>>
    BY <2>1, <2>2, <2>3, <2>4, QuietAlarms DEF counting
  <2>5. CASE failed' = failed \cup {b} /\ forgotten' = forgotten \cup {b} /\ step'[b] = "done"
    <3>1. Counted' = Counted
      BY <2>1, <2>5 DEF Counted
    <3>2. failures' = Cardinality(Counted')
      BY <2>2, <3>1 DEF Alarms, FailuresCounted
    <3>3. \A c \in failed' : step'[c] \in {"done", "lost"}
      BY <2>2, <2>5 DEF Alarms, FailuresCounted
    <3>4. \A c \in failed' \ failed : alarm[c] # "CRITICAL"
      BY <2>1, <2>5 DEF RunsUnalarmed
    <3>5. Alarms'
      BY <2>2, <2>5, <3>1, <3>2, <3>3, <3>4, ForgetAlarms
    <3>6. QED
      BY <2>3, <3>5
  <2>6. QED
    BY <1>4, <2>4, <2>5 DEF InsertLog
<1>5. ASSUME NEW b \in Runs, DumpPostgres(b) \/ ListObjects(b) \/ SnapshotEnds(b)
                             \/ OpenFile(b) \/ WriteFile(b) \/ UpdateLogCompleted(b)
                             \/ UpdateLogFailed(b) \/ \E i \in Items : GetObject(b, i)
      PROVE  Alarms' /\ RunsUnalarmed'
  <2>1. UNCHANGED <<counting, alarms>> /\ step[b] \in Steps
        /\ \A c \in Runs \ {b} : step'[c] = step[c]
    BY <1>5 DEF DumpPostgres, ListObjects, GetObject, SnapshotEnds, OpenFile,
                WriteFile, UpdateLogCompleted, UpdateLogFailed, SnapshotFails, Steps
  <2>2. b \notin failed
    BY <2>1 DEF Alarms, FailuresCounted, Steps
  <2>3. Alarms'
    BY <2>1, <2>2, QuietAlarms
  <2>4. RunsUnalarmed'
    BY <2>1 DEF RunsUnalarmed, alarms, Steps
  <2>5. QED
    BY <2>3, <2>4
<1>6. ASSUME NEW i \in Items, ItemStep(i) PROVE Alarms' /\ RunsUnalarmed'
  <2>1. UNCHANGED <<counting, alarms, step>>
    BY <1>6 DEF ItemStep, PutObject, CreateRow, DropUpload, MarkDestroyed, DeleteObject,
                LoseObject
  <2>2. QED
    BY <2>1, QuietAlarms DEF RunsUnalarmed, alarms
<1>7. CASE UNCHANGED vars
  BY <1>7, QuietAlarms DEF vars, RunsUnalarmed, alarms
<1>8. QED
  BY <1>1, <1>2, <1>3, <1>4, <1>5, <1>6, <1>7 DEF Next, RunStep

\* BackupInv is an inductive invariant of Backup.
THEOREM BackupInvariant == Spec => []BackupInv
<1>1. BackupInv /\ [Next]_vars => BackupInv'
  BY TypeStep, ObjectsStep, AccountsStep, VerdictStep, AlarmStep
     DEF BackupInv, Accounts, Verdicts, Alarms
<1>2. QED
  BY InitInv, <1>1, PTL DEF Spec

\* Type correctness of the backups.
THEOREM BackupTypeCorrect == Spec => []TypeOK
<1>1. BackupInv => TypeOK
  BY DEF BackupInv
<1>2. QED
  BY BackupInvariant, <1>1, PTL

\* A snapshot that did not fail covers the dump it is stored with, however uploads
\* and destructions fall between the two (RunBackup, Upload, Destroy).
THEOREM SnapshotsCoverDumps == Spec => []SnapshotCoversDump
<1>1. BackupInv => SnapshotCoversDump
  BY DEF BackupInv
<1>2. QED
  BY BackupInvariant, <1>1, PTL

\* backup_log says "completed" only of files that are wholly on disk.
THEOREM CompletedBackupsAreWhole == Spec => []CompletedIsWhole
<1>1. BackupInv => CompletedIsWhole
  BY DEF BackupInv
<1>2. QED
  BY BackupInvariant, <1>1, PTL

\* A run that returned left its verdict, unless backup_log failed under it.
THEOREM VerdictsAreLeft == Spec => []VerdictLeft
<1>1. BackupInv => VerdictLeft
  BY DEF BackupInv
<1>2. QED
  BY BackupInvariant, <1>1, PTL

\* Of the runs without a backup since the last success, too few for a critical alarm
\* went without one, but for those the counter cannot know and those whose
\* notification failed; and none is critical for less.
THEOREM AlarmsInTime == Spec => []AlarmInTime
<1>1. BackupInv => AlarmInTime
  BY DEF BackupInv
<1>2. QED
  BY BackupInvariant, <1>1, PTL
==============================================================================
