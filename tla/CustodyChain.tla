----------------------------- MODULE CustodyChain -----------------------------
(***************************************************************************)
(* The custody log (internal/custody).  Request goroutines record events;  *)
(* Logger stamps an event with time.Now() and calls PGRepository.Insert,   *)
(* which opens a transaction, takes the advisory lock of the case, reads   *)
(* the hash of the case's latest row by (timestamp, id), links the new row *)
(* to it, and commits.  The stamp is taken BEFORE the lock, and Postgres   *)
(* keeps the stamp in microseconds while the hash covers the nanoseconds   *)
(* the clock returned; both matter to what VerifyCaseChain reports.        *)
(*                                                                         *)
(* SHA-256 is taken to be free of collisions: a hash is a record of what   *)
(* it covers, the previous hash being named by the row that carries it     *)
(* (ids are unique and every row carries exactly one hash).                *)
(***************************************************************************)
EXTENDS Integers, FiniteSets

CONSTANTS
  Writers,    \* goroutines that record custody events
  NoWriter,   \* a free advisory lock
  Cases,
  NoCase,     \* case field of an idle writer
  Ids,        \* row identifiers (uuid.New); compared by ORDER BY ... id
  Tick,       \* clock units per stored timestamp unit (nanoseconds per microsecond)
  MaxTime,    \* bound on the clock
  MaxEvents   \* bound on the events recorded

NoId == 0

ASSUME CustodyAssumption ==
  /\ NoWriter \notin Writers
  /\ NoCase \notin Cases
  /\ Ids \subseteq Nat \ {NoId}
  /\ Tick \in Nat \ {0}
  /\ MaxTime \in Nat
  /\ MaxEvents \in Nat

VARIABLES
  now,      \* the server's wall clock, in clock units
  rows,     \* committed rows of custody_log
  commits,  \* number of commits so far: the commit order of the rows
  lock,     \* advisory transaction lock of each case
  pc,       \* where each writer is in Insert
  req       \* the Event a writer is inserting

vars == <<now, rows, commits, lock, pc, req>>

------------------------------------------------------------------------------
(* Hashes, rows and the order in which the log is listed.                  *)

Hash      == [id : Ids \cup {NoId}, prev : Ids \cup {NoId}, ts : Nat]
EmptyHash == [id |-> NoId, prev |-> NoId, ts |-> 0]   \* the empty string

\* ComputeLogHash over the fields that can differ between writing and reading
\* a row; the others (actor, action, evidence, case, detail) read back as written.
ComputeLogHash(prev, id, ts) == [id |-> id, prev |-> prev.id, ts |-> ts]

\* A TIMESTAMPTZ column keeps whole microseconds.
Stored(ts) == Tick * (ts \div Tick)

Row == [id : Ids, case : Cases, ts : Nat, hash : Hash, prev : Hash, seq : Nat]

RowsOf(c) == {r \in rows : r.case = c}

\* ORDER BY timestamp, id
Before(q, r) == q.ts < r.ts \/ (q.ts = r.ts /\ q.id < r.id)

IsLatest(q, S) == \A s \in S \ {q} : Before(s, q)

\* SELECT hash_value ... ORDER BY timestamp DESC, id DESC LIMIT 1, as the set
\* of its possible results; no row stands for the empty string.
LastHash(S) ==
  IF S = {} THEN {EmptyHash} ELSE {q.hash : q \in {s \in S : IsLatest(s, S)}}

------------------------------------------------------------------------------
NoEvent == [case |-> NoCase, ts |-> 0, id |-> NoId, prev |-> EmptyHash]

Event == [case : Cases \cup {NoCase}, ts : Nat, id : Ids \cup {NoId}, prev : Hash]

InTx     == {"locked", "linked"}
InFlight == {w \in Writers : pc[w] # "idle"}
UsedIds  == {r.id : r \in rows} \cup {req[w].id : w \in Writers}

Init ==
  /\ now = 0
  /\ rows = {}
  /\ commits = 0
  /\ lock = [c \in Cases |-> NoWriter]
  /\ pc = [w \in Writers |-> "idle"]
  /\ req = [w \in Writers |-> NoEvent]

(* RecordEvidenceEvent / RecordCaseEvent: build the event, time.Now() first. *)
Stamp(w, c) ==
  /\ pc[w] = "idle"
  /\ commits + Cardinality(InFlight) < MaxEvents
  /\ pc' = [pc EXCEPT ![w] = "stamped"]
  /\ req' = [req EXCEPT ![w] = [NoEvent EXCEPT !.case = c, !.ts = now]]
  /\ UNCHANGED <<now, rows, commits, lock>>

(* Seeded bug: a shared lock, which does not keep other writers out.        *)
AcquireSharedLock(w) ==
  /\ pc[w] = "stamped"
  /\ lock' = [lock EXCEPT ![req[w].case] = w]
  /\ pc' = [pc EXCEPT ![w] = "locked"]
  /\ UNCHANGED <<now, rows, commits, req>>

(* Insert: BeginTx and SELECT pg_advisory_xact_lock(first 8 bytes of case). *)
AcquireLock(w) ==
  /\ pc[w] = "stamped"
  /\ lock[req[w].case] = NoWriter
  /\ lock' = [lock EXCEPT ![req[w].case] = w]
  /\ pc' = [pc EXCEPT ![w] = "locked"]
  /\ UNCHANGED <<now, rows, commits, req>>

(* Seeded bug: the last hash of any case (no WHERE case_id).                *)
LinkToLastOfAll(w) ==
  /\ pc[w] = "locked"
  /\ \E p \in LastHash(rows), i \in Ids \ UsedIds :
       req' = [req EXCEPT ![w] = [@ EXCEPT !.id = i, !.prev = p]]
  /\ pc' = [pc EXCEPT ![w] = "linked"]
  /\ UNCHANGED <<now, rows, commits, lock>>

(* Insert: read the last hash of the case, draw the id, set PreviousHash.   *)
LinkToLast(w) ==
  /\ pc[w] = "locked"
  /\ \E p \in LastHash(RowsOf(req[w].case)), i \in Ids \ UsedIds :
       req' = [req EXCEPT ![w] = [@ EXCEPT !.id = i, !.prev = p]]
  /\ pc' = [pc EXCEPT ![w] = "linked"]
  /\ UNCHANGED <<now, rows, commits, lock>>

\* Seeded bugs: the hash computed before PreviousHash is set, and previous_hash
\* left out of the INSERT.
RowOfUnlinkedHash(e) ==
  [id |-> e.id, case |-> e.case, ts |-> Stored(e.ts),
   hash |-> ComputeLogHash(EmptyHash, e.id, e.ts), prev |-> e.prev, seq |-> commits]

RowOfNoPrevious(e) ==
  [id |-> e.id, case |-> e.case, ts |-> Stored(e.ts),
   hash |-> ComputeLogHash(e.prev, e.id, e.ts), prev |-> EmptyHash, seq |-> commits]

\* The row an event becomes; hash_value covers the unrounded stamp.
RowOf(e) ==
  [id |-> e.id, case |-> e.case, ts |-> Stored(e.ts),
   hash |-> ComputeLogHash(e.prev, e.id, e.ts), prev |-> e.prev, seq |-> commits]

\* Seeded bug: a session lock (pg_advisory_lock) outlives the transaction.
ReleaseButLock(w) ==
  /\ pc' = [pc EXCEPT ![w] = "idle"]
  /\ req' = [req EXCEPT ![w] = NoEvent]
  /\ UNCHANGED lock

\* The end of a transaction releases its advisory lock.
Release(w) ==
  /\ lock' = [c \in Cases |-> IF lock[c] = w THEN NoWriter ELSE lock[c]]
  /\ pc' = [pc EXCEPT ![w] = "idle"]
  /\ req' = [req EXCEPT ![w] = NoEvent]

(* Insert: INSERT INTO custody_log and Commit.                              *)
Commit(w) ==
  /\ pc[w] = "linked"
  /\ rows' = rows \cup {RowOf(req[w])}
  /\ commits' = commits + 1
  /\ Release(w)
  /\ UNCHANGED now

(* Any error of Insert (begin, lock, read, insert, commit, cancelled ctx):  *)
(* the deferred Rollback ends the transaction and the caller drops the      *)
(* event.                                                                   *)
Abort(w) ==
  /\ pc[w] # "idle"
  /\ Release(w)
  /\ UNCHANGED <<now, rows, commits>>

(* The server process dies: Postgres rolls every open transaction back.     *)
Crash ==
  /\ InFlight # {}
  /\ lock' = [c \in Cases |-> NoWriter]
  /\ pc' = [w \in Writers |-> "idle"]
  /\ req' = [w \in Writers |-> NoEvent]
  /\ UNCHANGED <<now, rows, commits>>

ClockTick ==
  /\ now < MaxTime
  /\ now' = now + 1
  /\ UNCHANGED <<rows, commits, lock, pc, req>>

Next ==
  \/ \E w \in Writers, c \in Cases : Stamp(w, c)
  \/ \E w \in Writers : AcquireLock(w)
  \/ \E w \in Writers : LinkToLast(w)
  \/ \E w \in Writers : Commit(w)
  \/ \E w \in Writers : Abort(w)
  \/ Crash
  \/ ClockTick

Spec == Init /\ [][Next]_vars

(* Postgres serves the waiters of a lock in the order they came (strong     *)
(* fairness of AcquireLock); a transaction that is not aborted runs on.     *)
Fairness ==
  \A w \in Writers :
    /\ SF_vars(AcquireLock(w))
    /\ WF_vars(LinkToLast(w))
    /\ WF_vars(Commit(w))

FairSpec == Spec /\ Fairness

------------------------------------------------------------------------------
(* What the verifiers compute.  ListAllByCase is one statement, so a        *)
(* verification sees one committed state; it is an operator of that state.  *)

Earlier(r) == {q \in RowsOf(r.case) : Before(q, r)}

\* VerifyCaseChain: hash_value must cover the row as read and the hash of the
\* row listed before it, and previous_hash must be that hash.
Breaks(c) ==
  {r \in RowsOf(c) : \E p \in LastHash(Earlier(r)) :
      r.hash # ComputeLogHash(p, r.id, r.ts) \/ r.prev # p}

\* writeHashChainStatus of the PDF report: starts at the second entry and
\* does not look at previous_hash.
ReportBreaks(c) ==
  {r \in RowsOf(c) :
      /\ Earlier(r) # {}
      /\ \E p \in LastHash(Earlier(r)) : r.hash # ComputeLogHash(p, r.id, r.ts)}

------------------------------------------------------------------------------
(* Properties.                                                              *)

\* Every variable stays in the set it is meant to range over.
TypeOK ==
  /\ now \in Nat
  /\ rows \subseteq Row
  /\ commits \in Nat
  /\ lock \in [Cases -> Writers \cup {NoWriter}]
  /\ pc \in [Writers -> {"idle", "stamped"} \cup InTx]
  /\ req \in [Writers -> Event]
  /\ \A w \in Writers :
       /\ pc[w] # "idle" => req[w].case \in Cases
       /\ pc[w] = "linked" => req[w].id \in Ids

\* What the advisory lock of Insert buys: a row is linked to the row that is
\* latest, by (timestamp, id), among ALL rows of its case committed before it.
\* A writer that reads before another's commit and inserts after it breaks this.
LinksToLatest ==
  \A r \in rows : r.prev \in LastHash({q \in RowsOf(r.case) : q.seq < r.seq})

\* The rows of a case were committed in the order in which they are listed.
InCommitOrder(c) ==
  \A q, r \in RowsOf(c) : q.seq < r.seq => Before(q, r)

\* The stamps of a case survived their storage unrounded.
Exact(c) == \A r \in RowsOf(c) : r.hash.ts = r.ts

\* VerifyCaseChain reports a break only when stamps were committed out of
\* order or lost digits: those two are the only ways an untouched log fails.
BreakNeedsDisorder ==
  \A c \in Cases : InCommitOrder(c) /\ Exact(c) => Breaks(c) = {}

\* Two rows of a case name the same predecessor only when stamps were
\* committed out of order: without disorder the log of a case is a line.
ForkNeedsDisorder ==
  \A q, r \in rows :
    q # r /\ q.case = r.case /\ q.prev = r.prev => ~InCommitOrder(r.case)

\* The PDF report, which skips the first entry and previous_hash, still comes
\* to VerifyCaseChain's verdict on a log whose stamps are exact.
ReportAgrees ==
  \A c \in Cases : Exact(c) => (ReportBreaks(c) = {} <=> Breaks(c) = {})

\* The log as the abstract specification sees it: rows and their hash links.
Log == INSTANCE HashLinkedLog
         WITH entries <- {[id |-> r.id, case |-> r.case, link |-> r.prev.id] : r \in rows}
LogSpec == Log!Spec

\* The strengthening that makes LinksToLatest inductive.  A writer inside its
\* transaction holds the lock of its case, so between its read and its commit no
\* other row of the case appears and the hash it read stays the latest one.
LockHeld == \A w \in Writers : pc[w] \in InTx => lock[req[w].case] = w

LinkPending ==
  \A w \in Writers :
    pc[w] = "linked" => req[w].prev \in LastHash(RowsOf(req[w].case))

\* Identifiers are fresh, also against those of transactions still open.
FreshIds ==
  /\ \A w \in Writers : pc[w] = "linked" => req[w].id \notin {r.id : r \in rows}
  /\ \A v, w \in Writers :
       pc[v] = "linked" /\ pc[w] = "linked" /\ req[v].id = req[w].id => v = w

RowsDistinct ==
  \A q, r \in rows : q.id = r.id \/ q.seq = r.seq => q = r

RowsSealed ==
  \A r \in rows :
    r.seq < commits /\ r.hash.id = r.id /\ r.hash.prev = r.prev.id

ChainInv ==
  /\ TypeOK
  /\ LockHeld
  /\ LinkPending
  /\ FreshIds
  /\ RowsDistinct
  /\ RowsSealed
  /\ LinksToLatest

\* What ReportAgrees needs besides: rows can be listed (every set of them has a
\* latest one), and a case with rows has one that was committed first.
Listable == \A S \in SUBSET rows : S # {} => \E q \in S : IsLatest(q, S)

FirstCommitted ==
  \A c \in Cases : RowsOf(c) # {} =>
    \E f \in RowsOf(c) : \A q \in RowsOf(c) : f.seq <= q.seq

ReportInv == ChainInv /\ Listable /\ FirstCommitted

\* Whoever waits for the lock of a case gets it, or gives up: no writer can
\* die holding it and no case's log stops accepting events.
WaiterServed == \A w \in Writers : pc[w] = "stamped" ~> pc[w] # "stamped"

\* TestChainVerifier_ValidChain: "chain should be valid" after events are
\* recorded through Insert and nothing else touched the log.
ChainVerifies == \A c \in Cases : Breaks(c) = {}
==============================================================================
