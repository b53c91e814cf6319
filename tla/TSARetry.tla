------------------------------- MODULE TSARetry -------------------------------
(***************************************************************************)
(* The job that retries pending time stamps (internal/integrity/           *)
(* tsa_retry.go).  Every server instance runs it every five minutes.  A    *)
(* session-level advisory lock is meant to let one instance work at a      *)
(* time; but the lock belongs to a Postgres session, and each statement of *)
(* the job takes any connection of the pool: the lock can be taken through *)
(* one session and released through another, and it is lost when the pool  *)
(* closes the idle connection that took it.  The items of a batch are      *)
(* listed once and stamped one by one, while they age and are destroyed.   *)
(*                                                                         *)
(* sha256_hash is always well-formed hex (Upload computes it), so the      *)
(* branch for a hash that does not decode is left out.                     *)
(***************************************************************************)
EXTENDS Integers

CONSTANTS
  Instances,   \* server processes
  Mortals,     \* those of them that may crash
  PoolSize,    \* connections in the pool of each
  Items,       \* evidence items
  NoItem,
  MaxDepth     \* bound on the depth of the lock: held that often, or more often

ASSUME RetryAssumption ==
  /\ Mortals \subseteq Instances
  /\ PoolSize \in Nat
  /\ NoItem \notin Items
  /\ MaxDepth \in Nat \ {0}

Sessions == Instances \X (1..PoolSize)
Of(p)    == {p} \X (1..PoolSize)
Free     == <<>>

VARIABLES
  holder,   \* session that holds tsaRetryLockID
  depth,    \* how often it took it
  pc,       \* where each instance is in runOnce
  todo,     \* items of its batch not looked at
  item,     \* item it is stamping
  lost,     \* instances whose lock went with its session during the run (history)
  through,  \* session through which the run took the lock (history)
  stamp,    \* tsa_status of each item; "absent" before Create
  old,      \* items older than tsaMaxAge
  destroyed,\* items with destroyed_at
  shared    \* items that were in two batches at once (history)

lockState == <<holder, depth, lost, through>>
rows      == <<stamp, old, destroyed>>
vars == <<lockState, pc, todo, item, rows, shared>>

Running == {p \in Instances : pc[p] # "idle"}
Batch(p) == todo[p] \cup ({item[p]} \ {NoItem})

Init ==
  /\ holder = Free /\ depth = 0 /\ lost = {}
  /\ through = [p \in Instances |-> Free]
  /\ pc = [p \in Instances |-> "idle"]
  /\ todo = [p \in Instances |-> {}]
  /\ item = [p \in Instances |-> NoItem]
  /\ stamp = [i \in Items |-> "absent"]
  /\ old = {} /\ destroyed = {} /\ shared = {}

Goto(p, stage) == pc' = [pc EXCEPT ![p] = stage]

------------------------------------------------------------------------------
(* runOnce.                                                                  *)

(* Seeded bug: pg_try_advisory_lock_shared, which any session gets.          *)
TryAdvisoryLockShared(p) ==
  /\ pc[p] = "idle"
  /\ \E s \in Of(p) :
       /\ holder' = s
       /\ through' = [through EXCEPT ![p] = s]
  /\ depth' = IF depth < MaxDepth THEN depth + 1 ELSE depth
  /\ lost' = lost \ {p}
  /\ Goto(p, "find")
  /\ UNCHANGED <<todo, item, rows, shared>>

(* TryAdvisoryLock: pg_try_advisory_lock on any session of the pool, which   *)
(* succeeds if the lock is free or this very session holds it already.       *)
TryAdvisoryLock(p) ==
  /\ pc[p] = "idle"
  /\ \E s \in Of(p) :
       /\ holder \in {Free, s}
       /\ holder' = s
       /\ through' = [through EXCEPT ![p] = s]
  /\ depth' = IF depth < MaxDepth THEN depth + 1 ELSE depth
  /\ lost' = lost \ {p}
  /\ Goto(p, "find")
  /\ UNCHANGED <<todo, item, rows, shared>>

\* Seeded bugs: no condition on tsa_status, no condition on destroyed_at.
PendingOrStamped == {i \in Items : stamp[i] # "absent" /\ i \notin destroyed /\ i \notin old}
PendingOrDestroyed == {i \in Items : stamp[i] = "pending" /\ i \notin old}

Pending == {i \in Items : stamp[i] = "pending" /\ i \notin destroyed /\ i \notin old}

(* FindPendingTSA: one SELECT; on an error, or with nothing found, return.   *)
FindPendingTSA(p) ==
  /\ pc[p] = "find"
  /\ \/ /\ Pending # {}
        /\ todo' = [todo EXCEPT ![p] = Pending]
        /\ shared' = shared \cup (Pending \cap UNION {Batch(q) : q \in Instances \ {p}})
        /\ Goto(p, "next")
     \/ UNCHANGED <<todo, shared>> /\ Goto(p, "release")
  /\ UNCHANGED <<lockState, item, rows>>

(* The loop: time.Since(CreatedAt) > tsaMaxAge ...                           *)
MarkTSAFailed(p, i) ==
  /\ pc[p] = "next"
  /\ i \in todo[p] \cap old
  /\ todo' = [todo EXCEPT ![p] = @ \ {i}]
  /\ stamp' \in {stamp, [stamp EXCEPT ![i] = "failed"]}
  /\ UNCHANGED <<lockState, pc, item, old, destroyed, shared>>

(* ... or ask the authority, which takes its time.                           *)
IssueTimestamp(p, i) ==
  /\ pc[p] = "next"
  /\ i \in todo[p] \ old
  /\ todo' = [todo EXCEPT ![p] = @ \ {i}]
  /\ item' = [item EXCEPT ![p] = i]
  /\ Goto(p, "issue")
  /\ UNCHANGED <<lockState, rows, shared>>

(* Seeded bug: the item is tried again at once.                              *)
RetryAtOnce(p) ==
  /\ pc[p] = "issue"
  /\ Goto(p, "next")
  /\ todo' = [todo EXCEPT ![p] = @ \cup {item[p]}]
  /\ item' = [item EXCEPT ![p] = NoItem]
  /\ UNCHANGED <<lockState, rows, shared>>

(* An error of the authority, or of the UPDATE: the item stays as it is but  *)
(* for its retry count.                                                      *)
RetryLater(p) ==
  /\ pc[p] = "issue"
  /\ item' = [item EXCEPT ![p] = NoItem]
  /\ Goto(p, "next")
  /\ UNCHANGED <<lockState, todo, rows, shared>>

(* UpdateTSAResult: UPDATE ... WHERE id = $4.  The custody event that follows *)
(* names the actor "system", which is not a UUID: it is never inserted.      *)
UpdateTSAResult(p) ==
  /\ pc[p] = "issue"
  /\ stamp' = [stamp EXCEPT ![item[p]] = "stamped"]
  /\ item' = [item EXCEPT ![p] = NoItem]
  /\ Goto(p, "next")
  /\ UNCHANGED <<lockState, todo, old, destroyed, shared>>

(* The batch is done, or ctx.Err() ended it.                                 *)
EndBatch(p) ==
  /\ pc[p] = "next"
  /\ todo' = [todo EXCEPT ![p] = {}]
  /\ Goto(p, "release")
  /\ UNCHANGED <<lockState, item, rows, shared>>

\* What pg_advisory_unlock does through session s: nothing but a warning, unless
\* s holds the lock.
Unlock(s) ==
  IF holder = s
  THEN /\ depth' \in {depth - 1} \cup ({depth} \cap {MaxDepth})
       /\ holder' = IF depth' = 0 THEN Free ELSE s
  ELSE UNCHANGED <<holder, depth>>

(* ReleaseAdvisoryLock, deferred: through any session; an error is logged.   *)
ReleaseAdvisoryLock(p) ==
  /\ pc[p] = "release"
  /\ \/ \E s \in Of(p) : Unlock(s)
     \/ UNCHANGED <<holder, depth>>
  /\ lost' = lost \ {p}
  /\ through' = [through EXCEPT ![p] = Free]
  /\ Goto(p, "idle")
  /\ UNCHANGED <<todo, item, rows, shared>>

------------------------------------------------------------------------------
(* The connections and the processes.                                        *)

\* What the end of the sessions in S does to the lock.
EndSessions(S) ==
  /\ depth' = IF holder \in S THEN 0 ELSE depth
  /\ holder' = IF holder \in S THEN Free ELSE holder

(* The pool closes a connection that is idle or too old, and opens another;  *)
(* it does not know that the connection holds a lock.                        *)
CloseSession(p, s) ==
  /\ s \in Of(p)
  /\ holder = s
  /\ EndSessions({s})
  /\ lost' = lost \cup {q \in Running : through[q] = s}
  /\ UNCHANGED <<through, pc, todo, item, rows, shared>>

Crash(p) ==
  /\ p \in Running
  /\ EndSessions(Of(p))
  /\ lost' = lost \ {p}
  /\ through' = [through EXCEPT ![p] = Free]
  /\ Goto(p, "idle")
  /\ todo' = [todo EXCEPT ![p] = {}]
  /\ item' = [item EXCEPT ![p] = NoItem]
  /\ UNCHANGED <<rows, shared>>

------------------------------------------------------------------------------
(* The rest of the system.                                                   *)

(* Upload: stamped at once, or left to this job.                             *)
Upload(i) ==
  /\ stamp[i] = "absent"
  /\ \E t \in {"pending", "stamped"} : stamp' = [stamp EXCEPT ![i] = t]
  /\ UNCHANGED <<lockState, pc, todo, item, old, destroyed, shared>>

Age(i) ==
  /\ stamp[i] # "absent" /\ i \notin old
  /\ old' = old \cup {i}
  /\ UNCHANGED <<lockState, pc, todo, item, stamp, destroyed, shared>>

Destroy(i) ==
  /\ stamp[i] # "absent" /\ i \notin destroyed
  /\ destroyed' = destroyed \cup {i}
  /\ UNCHANGED <<lockState, pc, todo, item, stamp, old, shared>>

RunStep(p) ==
  \/ FindPendingTSA(p)
  \/ \E i \in Items : MarkTSAFailed(p, i)
  \/ \E i \in Items : IssueTimestamp(p, i)
  \/ RetryLater(p) \/ UpdateTSAResult(p)
  \/ EndBatch(p)
  \/ ReleaseAdvisoryLock(p)

Next ==
  \/ \E p \in Instances : TryAdvisoryLock(p)
  \/ \E p \in Instances : RunStep(p)
  \/ \E p \in Instances, s \in Sessions : CloseSession(p, s)
  \/ \E p \in Mortals : Crash(p)
  \/ \E i \in Items : Upload(i)
  \/ \E i \in Items : Age(i)
  \/ \E i \in Items : Destroy(i)

Spec == Init /\ [][Next]_vars

(* The ticker fires for ever, the calls of a run end (the authority's client *)
(* has a timeout).                                                           *)
Fairness ==
  \A p \in Instances : WF_vars(RunStep(p)) /\ SF_vars(TryAdvisoryLock(p))

FairSpec == Spec /\ Fairness

------------------------------------------------------------------------------
(* Properties.                                                               *)

\* Every variable stays in the set it is meant to range over.
TypeOK ==
  /\ holder \in Sessions \cup {Free} /\ depth \in Nat /\ (holder = Free <=> depth = 0)
  /\ lost \subseteq Instances
  /\ through \in [Instances -> Sessions \cup {Free}]
  /\ pc \in [Instances -> {"idle", "find", "next", "issue", "release"}]
  /\ todo \in [Instances -> SUBSET Items]
  /\ item \in [Instances -> Items \cup {NoItem}]
  /\ \A p \in Instances : pc[p] = "issue" <=> item[p] # NoItem
  /\ stamp \in [Items -> {"absent", "pending", "stamped", "failed"}]
  /\ old \subseteq Items /\ destroyed \subseteq Items /\ shared \subseteq Items
  /\ \A i \in old \cup destroyed : stamp[i] # "absent"

\* "TSA retry lock held by another instance, skipping": two instances work at once
\* only if the connection that took the lock was closed under one of them, however
\* often the lock leaked, was taken again or released through the wrong session.
OneInstanceWorks ==
  \A p, q \in Running : p # q => p \in lost \/ q \in lost

\* A stamp is final: a run marks a stamped item as failed only if the item was in
\* the batches of two instances at once, which the lock is there to prevent.
StampIsFinal ==
  [][\A i \in Items : stamp[i] = "stamped" /\ stamp'[i] # "stamped" => i \in shared]_vars

\* A destroyed item that is in no batch is left alone for ever: only the batch
\* that listed it before Destroy still writes to it.
DestroyedIsLeftAlone ==
  [][\A i \in Items :
       i \in destroyed /\ (\A p \in Instances : i \notin Batch(p))
         => stamp'[i] = stamp[i] /\ \A p \in Instances : i \notin Batch(p)']_vars

\* The strengthening behind the first two: a run that has not lost the lock still
\* holds it through the session that took it; an item is in two batches only if it
\* is shared, and only a shared item can be stamped under a batch's feet.
LockThrough ==
  \A p \in Running : through[p] \in Of(p) /\ (p \notin lost => holder = through[p])

BatchesApart ==
  /\ \A p, q \in Instances : p # q => Batch(p) \cap Batch(q) \subseteq shared
  /\ \A p \in Instances : item[p] \notin todo[p]
  /\ \A p \in Instances, i \in Items :
       i \in Batch(p) /\ stamp[i] # "pending" => i \in shared

RetryInv == TypeOK /\ LockThrough /\ OneInstanceWorks /\ BatchesApart

\* A run ends, whatever fails in it: the ticker's goroutine is not stuck.
RunEnds == \A p \in Instances : pc[p] # "idle" ~> pc[p] = "idle"

==============================================================================
