---------------------------- MODULE TSARetryProofs ----------------------------
(***************************************************************************)
(* Proofs about TSARetry for any number of instances, connections and      *)
(* items.  The lock belongs to a session and the pools share no session:   *)
(* while the session of a run is open nobody else can take the lock.       *)
(***************************************************************************)
EXTENDS TSARetry, TLAPS

\* No session belongs to two pools, and none stands for the free lock.
LEMMA PoolsApart ==
  ASSUME NEW p \in Instances
  PROVE  /\ Of(p) \subseteq Sessions
         /\ Free \notin Sessions
         /\ \A q \in Instances : p # q => Of(p) \cap Of(q) = {}
  BY DEF Of, Sessions, Free

\* Every step keeps every variable in its set.
LEMMA TypeStep == TypeOK /\ [Next]_vars => TypeOK'
<1> SUFFICES ASSUME TypeOK, [Next]_vars PROVE TypeOK'
  OBVIOUS
<1> USE RetryAssumption DEF TypeOK, lockState, rows, Goto
<1>1. ASSUME NEW p \in Instances, TryAdvisoryLock(p)
      PROVE  TypeOK'
  <2>1. PICK s \in Of(p) : holder \in {Free, s} /\ holder' = s
                           /\ through' = [through EXCEPT ![p] = s]
    BY <1>1 DEF TryAdvisoryLock
  <2>2. s \in Sessions /\ s # Free
    BY PoolsApart, <2>1
  <2>3. depth' \in Nat \ {0}
    BY <1>1 DEF TryAdvisoryLock
  <2>4. holder' \in Sessions /\ holder' # Free /\ through' \in [Instances -> Sessions \cup {Free}]
    BY <2>1, <2>2
  <2>5. /\ lost' \subseteq Instances
        /\ pc' \in [Instances -> {"idle", "find", "next", "issue", "release"}]
        /\ \A q \in Instances : pc'[q] = "issue" <=> item[q] # NoItem
        /\ UNCHANGED <<todo, item, stamp, old, destroyed, shared>>
    BY <1>1 DEF TryAdvisoryLock
  <2>6. QED
    BY <2>3, <2>4, <2>5
<1>2. ASSUME NEW p \in Instances, FindPendingTSA(p)
      PROVE  TypeOK'
  <2>1. Pending \subseteq Items
    BY DEF Pending
  <2>2. shared' \subseteq Items
    BY <1>2, <2>1 DEF FindPendingTSA
  <2>3. QED
    BY <1>2, <2>1, <2>2 DEF FindPendingTSA
<1>3. ASSUME NEW p \in Instances, NEW i \in Items, MarkTSAFailed(p, i)
      PROVE  TypeOK'
  BY <1>3 DEF MarkTSAFailed
<1>4. ASSUME NEW p \in Instances, NEW i \in Items, IssueTimestamp(p, i)
      PROVE  TypeOK'
  BY <1>4 DEF IssueTimestamp
<1>5. ASSUME NEW p \in Instances, RetryLater(p) \/ UpdateTSAResult(p) \/ EndBatch(p)
      PROVE  TypeOK'
  BY <1>5 DEF RetryLater, UpdateTSAResult, EndBatch
<1>6. ASSUME NEW p \in Instances, ReleaseAdvisoryLock(p)
      PROVE  TypeOK'
  <2>1. /\ holder' \in Sessions \cup {Free} /\ depth' \in Nat
        /\ holder' = Free <=> depth' = 0
    <3>1. CASE UNCHANGED <<holder, depth>>
      BY <3>1
    <3>2. ASSUME NEW s \in Of(p), Unlock(s)
          PROVE  /\ holder' \in Sessions \cup {Free} /\ depth' \in Nat
                 /\ holder' = Free <=> depth' = 0
      BY <3>2, PoolsApart DEF Unlock
    <3>3. QED
      BY <1>6, <3>1, <3>2 DEF ReleaseAdvisoryLock
  <2>2. /\ lost' \subseteq Instances
        /\ through' \in [Instances -> Sessions \cup {Free}]
        /\ pc' \in [Instances -> {"idle", "find", "next", "issue", "release"}]
        /\ \A q \in Instances : pc'[q] = "issue" <=> item[q] # NoItem
        /\ UNCHANGED <<todo, item, stamp, old, destroyed, shared>>
    BY <1>6 DEF ReleaseAdvisoryLock
  <2>3. QED
    BY <2>1, <2>2
<1>7. ASSUME NEW p \in Instances, NEW s \in Sessions, CloseSession(p, s)
      PROVE  TypeOK'
  BY <1>7 DEF CloseSession, EndSessions, Running
<1>8. ASSUME NEW p \in Instances, Crash(p)
      PROVE  TypeOK'
  BY <1>8 DEF Crash, EndSessions
<1>9. ASSUME NEW i \in Items, Upload(i) \/ Age(i) \/ Destroy(i)
      PROVE  TypeOK'
  BY <1>9 DEF Upload, Age, Destroy
<1>10. CASE UNCHANGED vars
  BY <1>10 DEF vars
<1>11. QED
  BY <1>1, <1>2, <1>3, <1>4, <1>5, <1>6, <1>7, <1>8, <1>9, <1>10 DEF Next, RunStep

\* What a step must leave of the lock of a run q.
KeepsLock(q) == through'[q] \in Of(q) /\ (q \notin lost' => holder' = through'[q])

\* A run that takes the lock takes it from nobody else, and one that ends, closes or
\* dies gives up no other pool's session.
LEMMA LockStep == TypeOK /\ LockThrough /\ [Next]_vars => LockThrough'
<1> SUFFICES ASSUME TypeOK, LockThrough, [Next]_vars,
                    NEW q \in Instances, pc'[q] # "idle"
             PROVE  KeepsLock(q)
  BY DEF LockThrough, Running, KeepsLock
<1>1. pc[q] # "idle" => through[q] \in Of(q) /\ (q \notin lost => holder = through[q])
  BY DEF LockThrough, Running
<1> USE DEF TypeOK, lockState, rows, Goto, KeepsLock
<1>2. CASE UNCHANGED lockState /\ pc[q] # "idle"
  BY <1>1, <1>2
<1>3. ASSUME NEW p \in Instances, TryAdvisoryLock(p)
      PROVE  KeepsLock(q)
  <2>1. PICK s \in Of(p) : holder \in {Free, s} /\ holder' = s
                           /\ through' = [through EXCEPT ![p] = s]
    BY <1>3 DEF TryAdvisoryLock
  <2>2. CASE p = q
    BY <2>1, <2>2
  <2>3. CASE p # q
    <3>1. pc[q] # "idle" /\ through'[q] = through[q] /\ (q \in lost => q \in lost')
      BY <1>3, <2>1, <2>3 DEF TryAdvisoryLock
    <3>2. q \notin lost => holder \in Of(q)
      BY <1>1, <3>1
    <3>3. holder \in Of(p) \cup {Free}
      BY <2>1
    <3>4. holder \notin Of(q)
      BY <2>3, <3>3, PoolsApart
    <3>5. QED
      BY <1>1, <3>1, <3>2, <3>4
  <2>4. QED
    BY <2>2, <2>3
<1>4. ASSUME NEW p \in Instances, RunStep(p), ~ReleaseAdvisoryLock(p)
      PROVE  KeepsLock(q)
  <2>1. UNCHANGED lockState
    BY <1>4 DEF RunStep, FindPendingTSA, MarkTSAFailed, IssueTimestamp, RetryLater,
                UpdateTSAResult, EndBatch
  <2>2. pc[q] # "idle"
    BY <1>4 DEF RunStep, FindPendingTSA, MarkTSAFailed, IssueTimestamp, RetryLater,
                UpdateTSAResult, EndBatch
  <2>3. QED
    BY <1>2, <2>1, <2>2
<1>5. ASSUME NEW p \in Instances, ReleaseAdvisoryLock(p)
      PROVE  KeepsLock(q)
  <2>1. p # q /\ pc[q] # "idle" /\ through'[q] = through[q] /\ (q \in lost => q \in lost')
    BY <1>5 DEF ReleaseAdvisoryLock
  <2>2. CASE UNCHANGED holder
    BY <1>1, <2>1, <2>2
  <2>3. ASSUME NEW s \in Of(p), Unlock(s), holder # holder'
        PROVE  KeepsLock(q)
    <3>1. holder \in Of(p)
      BY <2>3 DEF Unlock
    <3>2. holder \notin Of(q)
      BY <2>1, <3>1, PoolsApart
    <3>3. QED
      BY <1>1, <2>1, <3>2
  <2>4. QED
    BY <1>5, <2>2, <2>3 DEF ReleaseAdvisoryLock
<1>6. ASSUME NEW p \in Instances, NEW s \in Sessions, CloseSession(p, s)
      PROVE  KeepsLock(q)
  BY <1>1, <1>6 DEF CloseSession, EndSessions, Running
<1>7. ASSUME NEW p \in Instances, Crash(p)
      PROVE  KeepsLock(q)
  <2>1. p # q /\ pc[q] # "idle" /\ through'[q] = through[q] /\ (q \in lost => q \in lost')
    BY <1>7 DEF Crash
  <2>2. holder \notin Of(p) => holder' = holder
    BY <1>7 DEF Crash, EndSessions
  <2>3. holder \in Of(p) => holder \notin Of(q)
    BY <2>1, PoolsApart
  <2>4. QED
    BY <1>1, <2>1, <2>2, <2>3
<1>8. ASSUME NEW i \in Items, Upload(i) \/ Age(i) \/ Destroy(i)
      PROVE  KeepsLock(q)
  BY <1>2, <1>8 DEF Upload, Age, Destroy
<1>9. CASE UNCHANGED vars
  BY <1>2, <1>9 DEF vars
<1> HIDE DEF KeepsLock
<1>10. ASSUME NEW p \in Instances, RunStep(p)
       PROVE  KeepsLock(q)
  BY <1>4, <1>5, <1>10
<1>11. ASSUME NEW p \in Mortals, Crash(p)
       PROVE  KeepsLock(q)
  BY <1>7, <1>11, RetryAssumption
<1> HIDE DEF TypeOK, lockState, rows, Goto
<1>12. CASE Next
  BY ONLY <1>3, <1>6, <1>8, <1>10, <1>11, <1>12, Zenon DEF Next
<1>13. QED
  BY <1>9, <1>12

\* Two runs that both hold the lock hold it through one session, hence are one.
LEMMA OneHolder == LockThrough => OneInstanceWorks
<1> SUFFICES ASSUME LockThrough, NEW p \in Running, NEW q \in Running, p # q,
                    p \notin lost, q \notin lost
             PROVE  FALSE
  BY DEF OneInstanceWorks
<1>1. holder \in Of(p) /\ holder \in Of(q)
  BY DEF LockThrough
<1>2. QED
  BY <1>1, PoolsApart DEF Running

\* An item stays pending in a batch, or its being in two batches was noted.
LEMMA BatchStep == TypeOK /\ BatchesApart /\ [Next]_vars => BatchesApart'
<1> SUFFICES ASSUME TypeOK, BatchesApart, [Next]_vars PROVE BatchesApart'
  OBVIOUS
<1>1. /\ \A p, q \in Instances : p # q => Batch(p) \cap Batch(q) \subseteq shared
      /\ \A p \in Instances : item[p] \notin todo[p]
      /\ \A p \in Instances, i \in Items :
           i \in Batch(p) /\ stamp[i] # "pending" => i \in shared
  BY DEF BatchesApart
<1>2. ASSUME \A p \in Instances : Batch(p)' \subseteq Batch(p) /\ item'[p] \notin todo'[p],
             shared \subseteq shared',
             \A i \in Items : stamp'[i] # stamp[i] /\ stamp[i] # "absent" =>
                 \A p \in Instances : i \in Batch(p)' => i \in shared
      PROVE  BatchesApart'
  <2>1. \A p \in Instances, i \in Items : i \in Batch(p) /\ stamp[i] = "absent" => i \in shared
    BY <1>1
  <2>2. QED
    BY <1>1, <1>2, <2>1 DEF BatchesApart
<1> USE RetryAssumption DEF TypeOK, lockState, rows, Goto
<1>3. ASSUME UNCHANGED <<todo, item, stamp, shared>>
      PROVE  BatchesApart'
  BY <1>1, <1>3 DEF BatchesApart, Batch
<1>4. ASSUME NEW p \in Instances, FindPendingTSA(p)
      PROVE  BatchesApart'
  <2>1. CASE UNCHANGED <<todo, shared>>
    BY <1>3, <1>4, <2>1 DEF FindPendingTSA
  <2>2. CASE /\ todo' = [todo EXCEPT ![p] = Pending]
             /\ shared' = shared \cup (Pending \cap UNION {Batch(q) : q \in Instances \ {p}})
    <3>1. UNCHANGED <<item, stamp>> /\ item[p] = NoItem
      BY <1>4 DEF FindPendingTSA
    <3>2. Batch(p)' = Pending /\ \A q \in Instances \ {p} : Batch(q)' = Batch(q)
      BY <2>2, <3>1 DEF Batch
    <3>3. \A q \in Instances \ {p} : Pending \cap Batch(q) \subseteq shared'
      BY <2>2
    <3>4. Pending \subseteq Items /\ \A i \in Pending : stamp[i] = "pending"
      BY DEF Pending
    <3>5. \A q \in Instances : item'[q] \notin todo'[q]
      BY <1>1, <2>2, <3>1, <3>4
    <3>6. shared \subseteq shared'
      BY <2>2
    <3>7. \A q, r \in Instances : q # r => Batch(q)' \cap Batch(r)' \subseteq shared'
      BY <1>1, <3>2, <3>3, <3>6
    <3>8. \A q \in Instances, i \in Items :
            i \in Batch(q)' /\ stamp'[i] # "pending" => i \in shared'
      BY <1>1, <3>1, <3>2, <3>4, <3>6
    <3>9. QED
      BY <3>5, <3>7, <3>8 DEF BatchesApart
  <2>3. QED
    BY <1>4, <2>1, <2>2 DEF FindPendingTSA
<1>5. ASSUME NEW p \in Instances, NEW i \in Items, MarkTSAFailed(p, i)
      PROVE  BatchesApart'
  BY <1>1, <1>2, <1>5 DEF MarkTSAFailed, Batch
<1>6. ASSUME NEW p \in Instances, NEW i \in Items, IssueTimestamp(p, i)
      PROVE  BatchesApart'
  BY <1>1, <1>2, <1>6 DEF IssueTimestamp, Batch
<1>7. ASSUME NEW p \in Instances, RetryLater(p) \/ EndBatch(p) \/ Crash(p)
      PROVE  BatchesApart'
  BY <1>1, <1>2, <1>7 DEF RetryLater, EndBatch, Crash, Batch
<1>8. ASSUME NEW p \in Instances, UpdateTSAResult(p)
      PROVE  BatchesApart'
  BY <1>1, <1>2, <1>8 DEF UpdateTSAResult, Batch
<1>9. ASSUME NEW i \in Items, Upload(i)
      PROVE  BatchesApart'
  BY <1>1, <1>2, <1>9 DEF Upload, Batch
<1>10. UNCHANGED <<todo, item, stamp, shared>>
         \/ (\E p \in Instances : \/ FindPendingTSA(p) \/ RetryLater(p) \/ EndBatch(p)
                                  \/ Crash(p) \/ UpdateTSAResult(p)
                                  \/ \E i \in Items : MarkTSAFailed(p, i) \/ IssueTimestamp(p, i))
         \/ (\E i \in Items : Upload(i))
  BY DEF Next, RunStep, TryAdvisoryLock, ReleaseAdvisoryLock, CloseSession, Age, Destroy, vars
<1>11. QED
  BY <1>3, <1>4, <1>5, <1>6, <1>7, <1>8, <1>9, <1>10

\* The empty table and the free lock have the invariant.
LEMMA InitInv == Init => RetryInv
  BY RetryAssumption
  DEF Init, RetryInv, TypeOK, LockThrough, OneInstanceWorks, BatchesApart, Running, Batch

------------------------------------------------------------------------------
\* The inductive invariant of the retry job.
THEOREM RetryInvariant == Spec => []RetryInv
<1>1. RetryInv /\ [Next]_vars => RetryInv'
  <2> SUFFICES ASSUME RetryInv, [Next]_vars PROVE RetryInv'
    OBVIOUS
  <2>1. TypeOK' /\ LockThrough' /\ BatchesApart'
    BY TypeStep, LockStep, BatchStep DEF RetryInv
  <2>2. OneInstanceWorks'
    BY <2>1, OneHolder, PTL
  <2>3. QED
    BY <2>1, <2>2 DEF RetryInv
<1>2. QED
  BY <1>1, InitInv, PTL DEF Spec

\* Every variable stays in its set.
THEOREM RetryTypeCorrect == Spec => []TypeOK
<1>1. RetryInv => TypeOK
  BY DEF RetryInv
<1>2. QED
  BY <1>1, RetryInvariant, PTL

\* Two instances work at once only if one of them lost its session.
THEOREM OneAtATime == Spec => []OneInstanceWorks
<1>1. RetryInv => OneInstanceWorks
  BY DEF RetryInv
<1>2. QED
  BY <1>1, RetryInvariant, PTL

\* A stamped item is marked as failed only if it was in two batches at once.
THEOREM StampsAreFinal == Spec => StampIsFinal
<1>1. ASSUME RetryInv, [Next]_vars, NEW i \in Items, stamp[i] = "stamped", stamp'[i] # "stamped"
      PROVE  i \in shared
  <2> USE DEF RetryInv, TypeOK
  <2>1. PICK p \in Instances : MarkTSAFailed(p, i)
    <3>1. ASSUME NEW p \in Instances, RunStep(p)
          PROVE  MarkTSAFailed(p, i)
      <4>1. ASSUME NEW k \in Items, MarkTSAFailed(p, k)
            PROVE  k = i
        BY <1>1, <4>1 DEF MarkTSAFailed
      <4>2. ~UpdateTSAResult(p)
        BY <1>1 DEF UpdateTSAResult
      <4>3. QED
        BY <1>1, <3>1, <4>1, <4>2 DEF RunStep, FindPendingTSA, IssueTimestamp, RetryLater,
                                      EndBatch, ReleaseAdvisoryLock, rows
    <3>2. ASSUME NEW k \in Items
          PROVE  ~Upload(k)
      BY <1>1 DEF Upload
    <3>3. QED
      BY <1>1, <3>1, <3>2 DEF Next, TryAdvisoryLock, CloseSession, Crash, Age, Destroy, vars, rows
  <2>2. i \in Batch(p)
    BY <2>1 DEF MarkTSAFailed, Batch
  <2>3. QED
    BY <1>1, <2>2 DEF BatchesApart
<1>2. RetryInv /\ [Next]_vars
      => [\A i \in Items : stamp[i] = "stamped" /\ stamp'[i] # "stamped" => i \in shared]_vars
  BY <1>1
<1>3. QED
  BY <1>2, RetryInvariant, PTL DEF Spec, StampIsFinal

\* A destroyed item in no batch is never written to or listed again.
THEOREM DestroyedStaysAlone == Spec => DestroyedIsLeftAlone
<1>1. ASSUME TypeOK, [Next]_vars, NEW i \in Items, i \in destroyed,
             \A p \in Instances : i \notin Batch(p)
      PROVE  stamp'[i] = stamp[i] /\ \A p \in Instances : i \notin Batch(p)'
  <2> USE <1>1 DEF TypeOK, lockState, rows, Batch
  <2>1. ASSUME NEW p \in Instances, RunStep(p)
        PROVE  stamp'[i] = stamp[i] /\ \A q \in Instances : i \notin Batch(q)'
    BY <2>1 DEF RunStep, FindPendingTSA, Pending, MarkTSAFailed, IssueTimestamp, RetryLater,
                UpdateTSAResult, EndBatch, ReleaseAdvisoryLock, RetryAssumption
  <2>2. ASSUME NEW p \in Instances, TryAdvisoryLock(p) \/ Crash(p)
        PROVE  stamp'[i] = stamp[i] /\ \A q \in Instances : i \notin Batch(q)'
    BY <2>2 DEF TryAdvisoryLock, Crash
  <2>3. ASSUME NEW p \in Instances, NEW s \in Sessions, CloseSession(p, s)
        PROVE  stamp'[i] = stamp[i] /\ \A q \in Instances : i \notin Batch(q)'
    BY <2>3 DEF CloseSession
  <2>4. ASSUME NEW k \in Items, Upload(k) \/ Age(k) \/ Destroy(k)
        PROVE  stamp'[i] = stamp[i] /\ \A q \in Instances : i \notin Batch(q)'
    BY <2>4 DEF Upload, Age, Destroy
  <2>5. CASE UNCHANGED vars
    BY <2>5 DEF vars
  <2>6. QED
    BY <2>1, <2>2, <2>3, <2>4, <2>5, RetryAssumption DEF Next
<1>2. TypeOK /\ [Next]_vars
      => [\A i \in Items :
            i \in destroyed /\ (\A p \in Instances : i \notin Batch(p))
              => stamp'[i] = stamp[i] /\ \A p \in Instances : i \notin Batch(p)']_vars
  BY <1>1
<1>3. QED
  BY <1>2, RetryTypeCorrect, PTL DEF Spec, DestroyedIsLeftAlone
==============================================================================
