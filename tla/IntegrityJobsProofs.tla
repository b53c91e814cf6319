------------------------- MODULE IntegrityJobsProofs -------------------------
(***************************************************************************)
(* Proofs about IntegrityJobs for any number of administrators, items and  *)
(* jobs.  JobInv is inductive: a job owns its counters, its list and the   *)
(* item it reports, a file never becomes intact again, and the flags and   *)
(* the histories only grow, so no step of anybody else undoes what a job   *)
(* has established.                                                        *)
(***************************************************************************)
EXTENDS IntegrityJobs, FiniteSetTheorems, TLAPS

\* The counters of a job are numbers.
LEMMA CountFields ==
  ASSUME NEW c \in Count
  PROVE  /\ c.total \in Nat /\ c.verified \in Nat
         /\ c.mismatches \in Nat /\ c.missing \in Nat
  BY DEF Count

\* Listing sets the total of one job.
LEMMA TotalUpdate ==
  ASSUME count \in [Jobs -> Count], NEW j \in Jobs, NEW n \in Nat
  PROVE  /\ [count EXCEPT ![j].total = n] \in [Jobs -> Count]
         /\ [count EXCEPT ![j].total = n][j]
              = [total |-> n, verified |-> count[j].verified,
                 mismatches |-> count[j].mismatches, missing |-> count[j].missing]
<1>1. /\ [count[j] EXCEPT !.total = n] \in Count
      /\ [count[j] EXCEPT !.total = n]
           = [total |-> n, verified |-> count[j].verified,
              mismatches |-> count[j].mismatches, missing |-> count[j].missing]
  BY DEF Count
<1>2. QED
  BY <1>1

\* Verifying an item raises one of the three other counters of one job.
LEMMA CountUpdate ==
  ASSUME count \in [Jobs -> Count], NEW j \in Jobs
  PROVE  /\ [count EXCEPT ![j].verified = @ + 1] \in [Jobs -> Count]
         /\ [count EXCEPT ![j].mismatches = @ + 1] \in [Jobs -> Count]
         /\ [count EXCEPT ![j].missing = @ + 1] \in [Jobs -> Count]
<1>1. /\ [count[j] EXCEPT !.verified = count[j].verified + 1] \in Count
      /\ [count[j] EXCEPT !.mismatches = count[j].mismatches + 1] \in Count
      /\ [count[j] EXCEPT !.missing = count[j].missing + 1] \in Count
  BY DEF Count
<1>2. QED
  BY <1>1

\* At the start nothing is listed, counted or damaged.
LEMMA InitInv == Init => JobInv
<1> SUFFICES ASSUME Init PROVE JobInv
  OBVIOUS
<1> USE IntegrityAssumption DEF Init, Jobs, NoJob
<1>1. TypeOK
  BY DEF TypeOK, NoCount, Count, Reporting
<1>2. NotListed /\ ReportedForCause /\ WarnedForCause /\ DamageInHand /\ NothingSlips
  BY DEF NotListed, ReportedForCause, WarnedForCause, DamageInHand, NothingSlips, Reporting
<1>3. CountsAddUp
  BY FS_EmptySet DEF CountsAddUp, NoCount
<1>4. QED
  BY <1>1, <1>2, <1>3 DEF JobInv

\* Every step keeps every variable in its set.
LEMMA TypeStep == TypeOK /\ [Next]_vars => TypeOK'
<1> SUFFICES ASSUME TypeOK, [Next]_vars PROVE TypeOK'
  OBVIOUS
<1> USE IntegrityAssumption DEF TypeOK, Reporting, requests, stores, history, Fault
<1>1. ASSUME NEW a \in Admins, CheckRunning(a)
      PROVE  TypeOK'
  BY <1>1 DEF CheckRunning, Jobs, NoJob
<1>2. ASSUME NEW a \in Admins, StartJob(a)
      PROVE  TypeOK'
  BY <1>2 DEF StartJob, Jobs, NoJob
<1>3. ASSUME NEW j \in Jobs, ListItems(j)
      PROVE  TypeOK'
  <2>1. Cardinality(Live) \in Nat
    BY FS_Subset, FS_CardinalityType DEF Live
  <2>2. count' \in [Jobs -> Count]
    <3>1. \/ UNCHANGED count
          \/ count' = [count EXCEPT ![j].total = Cardinality(Live)]
      BY <1>3 DEF ListItems, SetJobFailed
    <3>2. [count EXCEPT ![j].total = Cardinality(Live)] \in [Jobs -> Count]
      BY <2>1, TotalUpdate
    <3>3. QED
      BY <3>1, <3>2
  <2>3. Live \subseteq Items
    BY DEF Live
  <2>4. QED
    BY <1>3, <2>2, <2>3 DEF ListItems, SetJobFailed
<1>4. ASSUME NEW j \in Jobs, NEW i \in Items, VerifyItem(j, i)
      PROVE  TypeOK'
  <2>1. count' \in [Jobs -> Count]
    <3>1. \/ count' = [count EXCEPT ![j].verified = @ + 1]
          \/ count' = [count EXCEPT ![j].mismatches = @ + 1]
          \/ count' = [count EXCEPT ![j].missing = @ + 1]
      BY <1>4 DEF VerifyItem, Verified, Mismatch, Missing
    <3>2. /\ [count EXCEPT ![j].verified = @ + 1] \in [Jobs -> Count]
          /\ [count EXCEPT ![j].mismatches = @ + 1] \in [Jobs -> Count]
          /\ [count EXCEPT ![j].missing = @ + 1] \in [Jobs -> Count]
      BY CountUpdate
    <3>3. QED
      BY <3>1, <3>2
  <2>2. QED
    BY <1>4, <2>1 DEF VerifyItem, Verified, Mismatch, Missing
<1>5. ASSUME NEW j \in Jobs, FlagWarning(j) \/ RecordAlert(j) \/ FinishJob(j)
      PROVE  TypeOK'
  BY <1>5 DEF FlagWarning, RecordAlert, FinishJob
<1>6. ASSUME NEW i \in Items, MarkDestroyed(i) \/ DeleteFile(i) \/ DamageFile(i)
      PROVE  TypeOK'
  BY <1>6 DEF MarkDestroyed, DeleteFile, DamageFile
<1>7. ASSUME Crash
      PROVE  TypeOK'
  BY <1>7 DEF Crash, NoCount, Count, Jobs, NoJob
<1>8. CASE UNCHANGED vars
  BY <1>8 DEF vars
<1>9. QED
  BY <1>1, <1>2, <1>3, <1>4, <1>5, <1>6, <1>7, <1>8 DEF Next, JobStep

\* A job that has not listed has nothing in hand, and a job not created does nothing.
LEMMA NotListedStep == TypeOK /\ NotListed /\ [Next]_vars => NotListed'
<1> SUFFICES ASSUME TypeOK, NotListed, [Next]_vars, NEW k \in Jobs
             PROVE  /\ step'[k] \in {"none", "list"} => count'[k] = NoCount /\ todo'[k] = {}
                    /\ k > started' => step'[k] = "none"
  BY DEF NotListed
<1> USE IntegrityAssumption DEF TypeOK, NotListed, Jobs, requests, stores, history
<1>1. ASSUME NEW a \in Admins, CheckRunning(a) \/ StartJob(a)
      PROVE  /\ step'[k] \in {"none", "list"} => count'[k] = NoCount /\ todo'[k] = {}
             /\ k > started' => step'[k] = "none"
  BY <1>1 DEF CheckRunning, StartJob
<1>2. ASSUME NEW j \in Jobs, JobStep(j)
      PROVE  /\ step'[k] \in {"none", "list"} => count'[k] = NoCount /\ todo'[k] = {}
             /\ k > started' => step'[k] = "none"
  BY <1>2 DEF JobStep, ListItems, SetJobFailed, VerifyItem, Verified, Mismatch, Missing,
              FlagWarning, RecordAlert, FinishJob
<1>3. ASSUME NEW i \in Items, MarkDestroyed(i) \/ DeleteFile(i) \/ DamageFile(i)
      PROVE  UNCHANGED <<step, count, todo, started>>
  BY <1>3 DEF MarkDestroyed, DeleteFile, DamageFile
<1>4. CASE Crash
  BY <1>4 DEF Crash
<1>5. CASE UNCHANGED vars
  BY <1>5 DEF vars
<1>6. QED
  BY <1>1, <1>2, <1>3, <1>4, <1>5 DEF Next

\* Taking an item off the list and counting it, under one of the three heads, are
\* one step; listing sets the total; nothing else touches either side of the sum.
LEMMA CountsStep == TypeOK /\ NotListed /\ CountsAddUp /\ [Next]_vars => CountsAddUp'
<1> SUFFICES ASSUME TypeOK, NotListed, CountsAddUp, [Next]_vars, NEW k \in Jobs
             PROVE  (count[k].verified + count[k].mismatches + count[k].missing
                       + Cardinality(todo[k]) = count[k].total)'
  BY DEF CountsAddUp
<1> DEFINE Sum(c, S) == c.verified + c.mismatches + c.missing + Cardinality(S)
<1>1. count[k] \in Count /\ Sum(count[k], todo[k]) = count[k].total
  BY DEF CountsAddUp, TypeOK
<1>2. ASSUME UNCHANGED <<count, todo>>
      PROVE  Sum(count'[k], todo'[k]) = count'[k].total
  BY <1>1, <1>2
<1>3. ASSUME NEW j \in Jobs, ListItems(j)
      PROVE  Sum(count'[k], todo'[k]) = count'[k].total
  <2>1. Cardinality(Live) \in Nat
    BY IntegrityAssumption, FS_Subset, FS_CardinalityType DEF Live
  <2>2. count[j] = NoCount
    BY <1>3 DEF ListItems, NotListed
  <2>3. CASE k = j
    <3>1. CASE UNCHANGED <<count, todo>>
      BY <1>2, <3>1
    <3>2. CASE /\ count' = [count EXCEPT ![j].total = Cardinality(Live)]
               /\ todo'[j] = Live
      <4>1. count'[j] = [total |-> Cardinality(Live), verified |-> 0,
                         mismatches |-> 0, missing |-> 0]
        BY <2>1, <2>2, <3>2, TotalUpdate DEF TypeOK, NoCount
      <4>2. QED
        BY <2>1, <2>3, <3>2, <4>1
    <3>3. QED
      BY <1>3, <3>1, <3>2 DEF ListItems, SetJobFailed, TypeOK
  <2>4. CASE k # j
    BY <1>1, <1>3, <2>4 DEF ListItems, SetJobFailed, TypeOK
  <2>5. QED
    BY <2>3, <2>4
<1>4. ASSUME NEW j \in Jobs, NEW i \in Items, VerifyItem(j, i)
      PROVE  Sum(count'[k], todo'[k]) = count'[k].total
  <2>1. CASE k = j
    <3>1. IsFiniteSet(todo[k]) /\ i \in todo[k] /\ todo'[k] = todo[k] \ {i}
      BY <1>4, <2>1, IntegrityAssumption, FS_Subset DEF VerifyItem, TypeOK
    <3>2. /\ Cardinality(todo[k]) \in Nat
          /\ Cardinality(todo'[k]) = Cardinality(todo[k]) - 1
      BY <3>1, FS_RemoveElement, FS_CardinalityType
    <3>3. \/ count'[k] = [count[k] EXCEPT !.verified = @ + 1]
          \/ count'[k] = [count[k] EXCEPT !.mismatches = @ + 1]
          \/ count'[k] = [count[k] EXCEPT !.missing = @ + 1]
      BY <1>4, <2>1 DEF VerifyItem, Verified, Mismatch, Missing, TypeOK
    <3>4. \/ /\ count'[k].verified = count[k].verified + 1
             /\ count'[k].mismatches = count[k].mismatches
             /\ count'[k].missing = count[k].missing
             /\ count'[k].total = count[k].total
          \/ /\ count'[k].verified = count[k].verified
             /\ count'[k].mismatches = count[k].mismatches + 1
             /\ count'[k].missing = count[k].missing
             /\ count'[k].total = count[k].total
          \/ /\ count'[k].verified = count[k].verified
             /\ count'[k].mismatches = count[k].mismatches
             /\ count'[k].missing = count[k].missing + 1
             /\ count'[k].total = count[k].total
      BY <1>1, <3>3 DEF Count
    <3>5. /\ count[k].total \in Nat /\ count[k].verified \in Nat
          /\ count[k].mismatches \in Nat /\ count[k].missing \in Nat
      BY <1>1, CountFields
    <3>6. QED
      BY <1>1, <3>2, <3>4, <3>5
  <2>2. CASE k # j
    BY <1>1, <1>4, <2>2 DEF VerifyItem, Verified, Mismatch, Missing, TypeOK
  <2>3. QED
    BY <2>1, <2>2
<1>5. CASE Crash
  BY <1>5, FS_EmptySet DEF Crash, NoCount
<1>6. \/ UNCHANGED <<count, todo>>
      \/ \E j \in Jobs : ListItems(j)
      \/ \E j \in Jobs, i \in Items : VerifyItem(j, i)
      \/ Crash
  BY DEF Next, JobStep, CheckRunning, StartJob, FlagWarning, RecordAlert, FinishJob,
         MarkDestroyed, DeleteFile, DamageFile, vars
<1>7. QED
  BY <1>2, <1>3, <1>4, <1>5, <1>6

\* A file that is not intact stays so, and the flags and histories only grow.
LEMMA OneWay ==
  ASSUME TypeOK, [Next]_vars
  PROVE  /\ \A i \in Items : file[i] # "intact" => file'[i] # "intact"
         /\ warned \subseteq warned' /\ dropped \subseteq dropped' /\ unread \subseteq unread'
<1> USE DEF TypeOK, requests, stores, history
<1>1. ASSUME NEW a \in Admins, CheckRunning(a) \/ StartJob(a)
      PROVE  UNCHANGED <<file, warned, dropped, unread>>
  BY <1>1 DEF CheckRunning, StartJob
<1>2. ASSUME NEW j \in Jobs, JobStep(j)
      PROVE  /\ UNCHANGED file
             /\ warned \subseteq warned' /\ dropped \subseteq dropped' /\ unread \subseteq unread'
  BY <1>2 DEF JobStep, ListItems, SetJobFailed, VerifyItem, Verified, Mismatch, Missing,
              FlagWarning, RecordAlert, FinishJob
<1>3. ASSUME NEW i \in Items, MarkDestroyed(i) \/ DeleteFile(i) \/ DamageFile(i)
      PROVE  /\ \A k \in Items : file[k] # "intact" => file'[k] # "intact"
             /\ UNCHANGED <<warned, dropped, unread>>
  BY <1>3 DEF MarkDestroyed, DeleteFile, DamageFile
<1>4. CASE Crash \/ UNCHANGED vars
  BY <1>4 DEF Crash, vars
<1>5. QED
  BY <1>1, <1>2, <1>3, <1>4 DEF Next

\* A job reports an item only after it saw the file altered or could not read it.
LEMMA CauseStep ==
  ASSUME TypeOK, ReportedForCause, WarnedForCause, [Next]_vars
  PROVE  ReportedForCause' /\ WarnedForCause'
<1> DEFINE Cause(i) == file[i] # "intact" \/ i \in unread
<1>1. \A i \in Items : Cause(i) => Cause(i)'
  BY OneWay
<1>2. \A k \in Jobs : step[k] \in Reporting => item[k] \in Items /\ Cause(item[k])
  BY DEF ReportedForCause, TypeOK
<1>3. \A i \in warned \cup alerted : i \in Items /\ Cause(i)
  BY DEF WarnedForCause, TypeOK
<1>4. ASSUME NEW k \in Jobs, step'[k] \in Reporting
      PROVE  Cause(item[k])'
  <2>1. CASE step[k] \in Reporting /\ item'[k] = item[k]
    BY <1>1, <1>2, <2>1
  <2>2. ASSUME NEW i \in Items, VerifyItem(k, i)
        PROVE  Cause(item[k])'
    BY <1>4, <2>2 DEF VerifyItem, Verified, Mismatch, Missing, TypeOK, Reporting, stores
  <2>3. \/ step[k] \in Reporting /\ item'[k] = item[k]
        \/ \E i \in Items : VerifyItem(k, i)
    <3> USE <1>4 DEF TypeOK, Reporting
    <3>1. ASSUME NEW j \in Jobs, JobStep(j)
          PROVE  \/ step[k] \in Reporting /\ item'[k] = item[k]
                 \/ \E i \in Items : VerifyItem(k, i)
      <4>1. CASE j = k
        BY <3>1, <4>1 DEF JobStep, ListItems, SetJobFailed, FlagWarning, RecordAlert, FinishJob
      <4>2. CASE j # k
        BY <3>1, <4>2 DEF JobStep, ListItems, SetJobFailed, VerifyItem, Verified, Mismatch,
                          Missing, FlagWarning, RecordAlert, FinishJob
      <4>3. QED
        BY <4>1, <4>2
    <3>2. ASSUME NEW a \in Admins, CheckRunning(a) \/ StartJob(a)
          PROVE  step[k] \in Reporting /\ item'[k] = item[k]
      BY <3>2 DEF CheckRunning, StartJob, Jobs
    <3>3. ASSUME NEW i \in Items, MarkDestroyed(i) \/ DeleteFile(i) \/ DamageFile(i)
          PROVE  step[k] \in Reporting /\ item'[k] = item[k]
      BY <3>3 DEF MarkDestroyed, DeleteFile, DamageFile
    <3>4. CASE Crash \/ UNCHANGED vars
      BY <3>4 DEF Crash, vars
    <3>5. QED
      BY <3>1, <3>2, <3>3, <3>4 DEF Next
  <2>4. QED
    BY <2>1, <2>2, <2>3
<1>5. ASSUME NEW i \in warned' \cup alerted'
      PROVE  i \in Items /\ Cause(i)'
  <2>1. CASE i \in warned \cup alerted
    BY <1>1, <1>3, <2>1
  <2>2. CASE \E k \in Jobs : step[k] \in Reporting /\ i = item[k]
    BY <1>1, <1>2, <2>2
  <2>3. i \in warned \cup alerted \/ \E k \in Jobs : step[k] \in Reporting /\ i = item[k]
    <3> USE <1>5 DEF Reporting, stores
    <3>1. ASSUME NEW j \in Jobs, JobStep(j)
          PROVE  i \in warned \cup alerted \/ (step[j] \in Reporting /\ i = item[j])
      BY <3>1 DEF JobStep, ListItems, SetJobFailed, VerifyItem, FlagWarning, RecordAlert, FinishJob
    <3>2. \/ UNCHANGED <<warned, alerted>>
          \/ \E j \in Jobs : JobStep(j)
      BY DEF Next, CheckRunning, StartJob, MarkDestroyed, DeleteFile, DamageFile, Crash, vars
    <3>3. QED
      BY <3>1, <3>2
  <2>4. QED
    BY <2>1, <2>2, <2>3
<1>6. QED
  BY <1>4, <1>5 DEF ReportedForCause, WarnedForCause

\* A damaged item leaves the list only to be flagged, and the flagging ends in a
\* flag or in a lost UPDATE.
LEMMA DamageStep ==
  ASSUME TypeOK, DamageInHand, NothingSlips, [Next]_vars
  PROVE  DamageInHand' /\ NothingSlips'
<1> DEFINE Safe(k) ==
      /\ damaged[k] \subseteq Damaged
      /\ step[k] \in {"next"} \cup Reporting
           => damaged[k] \subseteq Pending(k) \cup warned \cup dropped
      /\ status[k] = "completed" => step[k] = "done"
      /\ status[k] = "completed" => damaged[k] \subseteq warned \cup dropped
<1>1. \A k \in Jobs : Safe(k)
  BY DEF DamageInHand, NothingSlips
<1>2. Damaged \subseteq Damaged' /\ warned \subseteq warned' /\ dropped \subseteq dropped'
  BY OneWay DEF Damaged
<1> SUFFICES ASSUME NEW k \in Jobs PROVE Safe(k)'
  BY DEF DamageInHand, NothingSlips
<1>3. CASE UNCHANGED <<damaged[k], step[k], status[k], todo[k], item[k]>>
  BY <1>1, <1>2, <1>3 DEF Pending
<1> USE DEF TypeOK, Reporting, requests, stores, history
<1>4. ASSUME NEW a \in Admins, CheckRunning(a)
      PROVE  Safe(k)'
  BY <1>3, <1>4 DEF CheckRunning
<1>5. ASSUME NEW a \in Admins, StartJob(a)
      PROVE  Safe(k)'
  <2>1. CASE k = started'
    BY <1>1, <1>2, <1>5, <2>1 DEF StartJob
  <2>2. CASE k # started'
    BY <1>3, <1>5, <2>2 DEF StartJob
  <2>3. QED
    BY <2>1, <2>2
<1>6. ASSUME NEW j \in Jobs, JobStep(j), j # k
      PROVE  Safe(k)'
  BY <1>3, <1>6 DEF JobStep, ListItems, SetJobFailed, VerifyItem, Verified, Mismatch, Missing,
                    FlagWarning, RecordAlert, FinishJob
<1>7. CASE ListItems(k)
  BY <1>1, <1>2, <1>7 DEF ListItems, SetJobFailed, Pending, Damaged, Live
<1>8. ASSUME NEW i \in Items, VerifyItem(k, i)
      PROVE  Safe(k)'
  <2>1. /\ step[k] = "next" /\ todo'[k] = todo[k] \ {i}
        /\ UNCHANGED <<status, damaged, warned, dropped, file>>
    BY <1>8 DEF VerifyItem
  <2>2. \/ file[i] = "intact" /\ step' = step
        \/ step'[k] = "flag" /\ item'[k] = i
    BY <1>8 DEF VerifyItem, Verified, Mismatch, Missing
  <2>3. damaged[k] \subseteq todo[k] \cup warned \cup dropped
    BY <1>1, <2>1 DEF Pending
  <2>4. file[i] = "intact" => i \notin damaged[k]
    BY <1>1 DEF Damaged
  <2>5. damaged'[k] \subseteq Pending(k)' \cup warned' \cup dropped'
    BY <2>1, <2>2, <2>3, <2>4 DEF Pending
  <2>6. status'[k] # "completed"
    BY <1>1, <2>1
  <2>7. QED
    BY <1>1, <1>2, <2>1, <2>5, <2>6
<1>9. CASE FlagWarning(k)
  BY <1>1, <1>2, <1>9 DEF FlagWarning, Pending
<1>10. CASE RecordAlert(k)
  BY <1>1, <1>2, <1>10 DEF RecordAlert, Pending
<1>11. CASE FinishJob(k)
  BY <1>1, <1>2, <1>11 DEF FinishJob, Pending
<1>12. ASSUME NEW i \in Items, MarkDestroyed(i) \/ DeleteFile(i) \/ DamageFile(i)
       PROVE  Safe(k)'
  BY <1>3, <1>12 DEF MarkDestroyed, DeleteFile, DamageFile
<1>13. CASE Crash
  BY <1>13 DEF Crash
<1>14. CASE UNCHANGED vars
  BY <1>3, <1>14 DEF vars
<1>15. QED
  BY <1>4, <1>5, <1>6, <1>7, <1>8, <1>9, <1>10, <1>11, <1>12, <1>13, <1>14 DEF Next, JobStep

------------------------------------------------------------------------------
\* The inductive invariant of the verification jobs, for any number of them.
THEOREM JobInvariant == Spec => []JobInv
<1>1. JobInv /\ [Next]_vars => JobInv'
  BY TypeStep, NotListedStep, CountsStep, CauseStep, DamageStep DEF JobInv
<1>2. QED
  BY <1>1, InitInv, PTL DEF Spec

\* Every variable stays in its set.
THEOREM JobsTypeCorrect == Spec => []TypeOK
<1>1. JobInv => TypeOK
  BY DEF JobInv
<1>2. QED
  BY <1>1, JobInvariant, PTL

\* The counters an administrator polls always add up to the items listed.
THEOREM CountsAlwaysAddUp == Spec => []CountsAddUp
<1>1. JobInv => CountsAddUp
  BY DEF JobInv
<1>2. QED
  BY <1>1, JobInvariant, PTL

\* A completed job has flagged every item that was damaged when it listed them.
THEOREM NothingSlipsThrough == Spec => []NothingSlips
<1>1. JobInv => NothingSlips
  BY DEF JobInv
<1>2. QED
  BY <1>1, JobInvariant, PTL

\* No item is flagged or reported without cause.
THEOREM NoFalseAlarm == Spec => []WarnedForCause
<1>1. JobInv => WarnedForCause
  BY DEF JobInv
<1>2. QED
  BY <1>1, JobInvariant, PTL
==============================================================================
