-------------------------- MODULE CustodyChainProofs --------------------------
(***************************************************************************)
(* Proofs about CustodyChain, for every number of writers, cases and       *)
(* events and every clock resolution.                                      *)
(***************************************************************************)
EXTENDS CustodyChain, TLAPS

------------------------------------------------------------------------------
(* Facts about the operators.                                              *)

\* Storing a stamp yields a natural number again.
LEMMA StoredNat == ASSUME NEW ts \in Nat PROVE Stored(ts) \in Nat
  BY CustodyAssumption DEF Stored

\* A set of rows has at most one latest row, so the query of Insert has one
\* result.
LEMMA LastHashUnique ==
  ASSUME NEW S, S \subseteq Row, NEW p \in LastHash(S), NEW q \in LastHash(S)
  PROVE  p = q
  <1>1. CASE S = {}
    BY <1>1 DEF LastHash
  <1>2. CASE S # {}
    <2>1. PICK a \in S : IsLatest(a, S) /\ p = a.hash
      BY <1>2 DEF LastHash
    <2>2. PICK b \in S : IsLatest(b, S) /\ q = b.hash
      BY <1>2 DEF LastHash
    <2>3. a.ts \in Nat /\ b.ts \in Nat /\ a.id \in Nat /\ b.id \in Nat
      BY CustodyAssumption DEF Row
    <2>4. a = b
      <3>1. SUFFICES ASSUME a # b PROVE FALSE
        OBVIOUS
      <3>2. Before(a, b) /\ Before(b, a)
        BY <2>1, <2>2, <3>1 DEF IsLatest
      <3>3. QED
        BY <2>3, <3>2 DEF Before
    <2>5. QED
      BY <2>1, <2>2, <2>4
  <1>3. QED
    BY <1>1, <1>2

\* What LastHash returns is a hash.
LEMMA LastHashType ==
  ASSUME NEW S, S \subseteq Row, NEW p \in LastHash(S)
  PROVE  p \in Hash
  BY CustodyAssumption DEF LastHash, Row, EmptyHash, Hash

------------------------------------------------------------------------------
(* Type correctness.                                                       *)

\* The row a well-typed event becomes is well typed.
LEMMA RowOfType ==
  ASSUME NEW e \in Event, e.id \in Ids, e.case \in Cases, commits \in Nat
  PROVE  RowOf(e) \in Row
  <1>1. Stored(e.ts) \in Nat
    BY StoredNat DEF Event
  <1>2. ComputeLogHash(e.prev, e.id, e.ts) \in Hash
    BY DEF ComputeLogHash, Event, Hash
  <1>3. QED
    BY <1>1, <1>2 DEF RowOf, Row, Event

\* The end of a transaction, by commit or rollback, keeps the writers well typed.
LEMMA ReleaseType ==
  ASSUME TypeOK, NEW w \in Writers, Release(w)
  PROVE  /\ lock' \in [Cases -> Writers \cup {NoWriter}]
         /\ pc' \in [Writers -> {"idle", "stamped"} \cup InTx]
         /\ req' \in [Writers -> Event]
         /\ \A v \in Writers : /\ pc'[v] # "idle" => req'[v].case \in Cases
                               /\ pc'[v] = "linked" => req'[v].id \in Ids
  BY CustodyAssumption
  DEF TypeOK, Release, NoEvent, Event, EmptyHash, Hash, InTx

\* The empty log has its type.
LEMMA TypeInit == Init => TypeOK
  BY CustodyAssumption DEF Init, TypeOK, NoEvent, Event, EmptyHash, Hash

\* Every step keeps every variable in its set.
LEMMA TypeStep == TypeOK /\ [Next]_vars => TypeOK'
  <1> SUFFICES ASSUME TypeOK, [Next]_vars PROVE TypeOK'
    OBVIOUS
  <1> USE CustodyAssumption DEF TypeOK, InTx
  <1>1. ASSUME NEW w \in Writers, NEW c \in Cases, Stamp(w, c) PROVE TypeOK'
    BY <1>1 DEF Stamp, NoEvent, Event, EmptyHash, Hash
  <1>2. ASSUME NEW w \in Writers, AcquireLock(w) PROVE TypeOK'
    BY <1>2 DEF AcquireLock
  <1>3. ASSUME NEW w \in Writers, LinkToLast(w) PROVE TypeOK'
    <2>1. PICK p \in LastHash(RowsOf(req[w].case)), i \in Ids :
            req' = [req EXCEPT ![w] = [@ EXCEPT !.id = i, !.prev = p]]
      BY <1>3 DEF LinkToLast
    <2>2. RowsOf(req[w].case) \subseteq Row
      BY DEF RowsOf
    <2>3. p \in Hash
      BY <2>2, LastHashType
    <2>4. [req[w] EXCEPT !.id = i, !.prev = p] \in Event
      BY <2>3 DEF Event
    <2>5. /\ req'[w].case = req[w].case
          /\ req'[w].id = i
          /\ \A v \in Writers \ {w} : req'[v] = req[v]
      BY <2>1 DEF Event
    <2>6. QED
      BY <1>3, <2>1, <2>4, <2>5 DEF LinkToLast
  <1>4. ASSUME NEW w \in Writers, Commit(w) PROVE TypeOK'
    <2>1. RowOf(req[w]) \in Row
      BY <1>4, RowOfType DEF Commit
    <2>2. QED
      BY <1>4, <2>1, ReleaseType DEF Commit
  <1>5. ASSUME NEW w \in Writers, Abort(w) PROVE TypeOK'
    BY <1>5, ReleaseType DEF Abort
  <1>6. CASE Crash
    BY <1>6 DEF Crash, NoEvent, Event, EmptyHash, Hash
  <1>7. CASE ClockTick
    BY <1>7 DEF ClockTick
  <1>8. CASE UNCHANGED vars
    BY <1>8 DEF vars
  <1>9. QED
    BY <1>1, <1>2, <1>3, <1>4, <1>5, <1>6, <1>7, <1>8 DEF Next

\* Every reachable state of the custody log is well typed.
THEOREM TypeCorrect == Spec => []TypeOK
  BY TypeInit, TypeStep, PTL DEF Spec

------------------------------------------------------------------------------
(* The inductive invariant.                                                *)

\* The end of a transaction only takes locks away from the writer that ends it.
LEMMA ReleaseLocks ==
  ASSUME TypeOK, LockHeld, NEW w \in Writers, Release(w)
  PROVE  LockHeld'
  BY CustodyAssumption DEF TypeOK, LockHeld, Release, InTx, Event

\* Committing row n of a case leaves the earlier rows' view of what came before
\* them unchanged: only rows of smaller seq are in that view.
LEMMA ViewStable ==
  ASSUME RowsSealed, NEW n, n.seq = commits, commits \in Nat, rows \subseteq Row,
         rows' = rows \cup {n}, NEW r \in rows
  PROVE  {q \in RowsOf(r.case) : q.seq < r.seq}'
           = {q \in RowsOf(r.case) : q.seq < r.seq}
  BY DEF RowsSealed, RowsOf, Row

\* The strengthening is inductive: between the read under the lock and the commit
\* no other row of the case appears.
LEMMA ChainInvStep == ChainInv /\ [Next]_vars => ChainInv'
  <1> SUFFICES ASSUME ChainInv, [Next]_vars PROVE ChainInv'
    OBVIOUS
  <1> USE CustodyAssumption
  <1>0. TypeOK /\ TypeOK'
    BY TypeStep DEF ChainInv
  <1>1. ASSUME NEW w \in Writers, NEW c \in Cases, Stamp(w, c) PROVE ChainInv'
    <2>1. /\ pc' = [pc EXCEPT ![w] = "stamped"]
          /\ \A v \in Writers \ {w} : req'[v] = req[v]
          /\ UNCHANGED <<rows, commits, lock>>
      BY <1>0, <1>1 DEF Stamp, TypeOK
    <2>2. \A v \in Writers : pc'[v] \in InTx => v # w /\ pc[v] = pc'[v]
      BY <1>0, <2>1 DEF TypeOK, InTx
    <2>3. QED
      BY <1>0, <2>1, <2>2
      DEF ChainInv, LockHeld, LinkPending, FreshIds, RowsDistinct, RowsSealed,
          LinksToLatest, RowsOf, InTx
  <1>2. ASSUME NEW w \in Writers, AcquireLock(w) PROVE ChainInv'
    <2>1. \A v \in Writers : pc'[v] = "linked" => pc[v] = "linked"
      BY <1>0, <1>2 DEF AcquireLock, TypeOK
    <2>2. LockHeld'
      BY <1>0, <1>2 DEF ChainInv, LockHeld, AcquireLock, TypeOK, InTx
    <2>3. QED
      BY <1>0, <1>2, <2>1, <2>2
      DEF AcquireLock, ChainInv, LinkPending, FreshIds, RowsDistinct, RowsSealed,
          LinksToLatest, RowsOf
  <1>3. ASSUME NEW w \in Writers, LinkToLast(w) PROVE ChainInv'
    <2>1. PICK p \in LastHash(RowsOf(req[w].case)), i \in Ids \ UsedIds :
            req' = [req EXCEPT ![w] = [@ EXCEPT !.id = i, !.prev = p]]
      BY <1>3 DEF LinkToLast
    <2>2. /\ req'[w].case = req[w].case
          /\ req'[w].id = i
          /\ req'[w].prev = p
          /\ \A v \in Writers \ {w} : req'[v] = req[v]
      BY <1>0, <2>1 DEF TypeOK, Event
    <2>3. /\ pc[w] = "locked"
          /\ pc' = [pc EXCEPT ![w] = "linked"]
          /\ UNCHANGED <<rows, commits, lock>>
      BY <1>3 DEF LinkToLast
    <2>4. LockHeld'
      BY <1>0, <2>2, <2>3 DEF ChainInv, LockHeld, TypeOK, InTx
    <2>5. LinkPending'
      <3>1. ASSUME NEW v \in Writers, pc'[v] = "linked"
            PROVE  req'[v].prev \in LastHash(RowsOf(req'[v].case))
        <4>1. CASE v = w
          BY <2>1, <2>2, <4>1
        <4>2. CASE v # w
          BY <1>0, <2>2, <2>3, <3>1, <4>2 DEF ChainInv, LinkPending, TypeOK
        <4>3. QED
          BY <4>1, <4>2
      <3>2. QED
        BY <2>3, <3>1 DEF LinkPending, RowsOf
    <2>6. FreshIds'
      BY <1>0, <2>2, <2>3 DEF ChainInv, FreshIds, TypeOK, UsedIds
    <2>7. QED
      BY <1>0, <2>3, <2>4, <2>5, <2>6
      DEF ChainInv, RowsDistinct, RowsSealed, LinksToLatest, RowsOf
  <1>4. ASSUME NEW w \in Writers, Commit(w) PROVE ChainInv'
    <2> DEFINE n == RowOf(req[w])
    <2>1. /\ pc[w] = "linked" /\ req[w].case \in Cases /\ req[w].id \in Ids
          /\ rows' = rows \cup {n} /\ commits' = commits + 1 /\ Release(w)
      BY <1>0, <1>4 DEF Commit, TypeOK
    <2>2. /\ n.seq = commits /\ n.id = req[w].id /\ n.case = req[w].case
          /\ n.prev = req[w].prev
          /\ n.hash.id = n.id /\ n.hash.prev = n.prev.id
      BY DEF RowOf, ComputeLogHash
    <2>3. /\ pc' = [pc EXCEPT ![w] = "idle"]
          /\ \A v \in Writers \ {w} : req'[v] = req[v]
      BY <1>0, <2>1 DEF Release, TypeOK
    <2>4. LockHeld'
      BY <1>0, <2>1, ReleaseLocks DEF ChainInv
    <2>5. RowsSealed'
      BY <1>0, <2>1, <2>2 DEF ChainInv, RowsSealed, TypeOK, Row
    <2>6. RowsDistinct'
      <3>1. \A q \in rows : q.id # n.id /\ q.seq # n.seq
        BY <1>0, <2>1, <2>2 DEF ChainInv, FreshIds, RowsSealed, TypeOK, Row
      <3>2. QED
        BY <2>1, <3>1 DEF ChainInv, RowsDistinct
    <2>7. FreshIds'
      BY <1>0, <2>1, <2>2, <2>3 DEF ChainInv, FreshIds, TypeOK
    <2>8. LinkPending'
      <3> SUFFICES ASSUME NEW v \in Writers, pc'[v] = "linked"
                   PROVE  (req[v].prev \in LastHash(RowsOf(req[v].case)))'
        BY DEF LinkPending
      <3>1. v # w /\ pc[v] = "linked" /\ req'[v] = req[v]
        BY <1>0, <2>3 DEF TypeOK
      <3>2. req[v].case # req[w].case
        BY <2>1, <3>1 DEF ChainInv, LockHeld, InTx
      <3>3. {r \in rows' : r.case = req'[v].case} = {r \in rows : r.case = req[v].case}
        BY <2>1, <2>2, <3>1, <3>2 DEF RowsOf
      <3>4. QED
        BY <3>1, <3>3 DEF ChainInv, LinkPending, RowsOf
    <2>9. LinksToLatest'
      <3> SUFFICES ASSUME NEW r \in rows'
                   PROVE  r.prev \in LastHash({q \in RowsOf(r.case) : q.seq < r.seq}')
        BY DEF LinksToLatest
      <3>1. CASE r \in rows
        BY <1>0, <2>1, <2>2, <3>1, ViewStable DEF ChainInv, LinksToLatest, TypeOK
      <3>2. CASE r = n
        <4>1. {q \in RowsOf(r.case) : q.seq < r.seq}' = RowsOf(req[w].case)
          BY <1>0, <2>1, <2>2, <3>2 DEF RowsOf, ChainInv, RowsSealed, TypeOK, Row
        <4>2. QED
          BY <2>1, <2>2, <3>2, <4>1 DEF ChainInv, LinkPending
      <3>3. QED
        BY <2>1, <3>1, <3>2
    <2>10. QED
      BY <1>0, <2>4, <2>5, <2>6, <2>7, <2>8, <2>9 DEF ChainInv
  <1>5. ASSUME NEW w \in Writers, Abort(w) PROVE ChainInv'
    <2>1. /\ pc' = [pc EXCEPT ![w] = "idle"]
          /\ \A v \in Writers \ {w} : req'[v] = req[v]
          /\ UNCHANGED <<rows, commits>>
      BY <1>0, <1>5 DEF Abort, Release, TypeOK
    <2>2. LockHeld'
      BY <1>0, <1>5, ReleaseLocks DEF Abort, ChainInv
    <2>3. \A v \in Writers : pc'[v] = "linked" => v # w /\ pc[v] = "linked"
      BY <1>0, <2>1 DEF TypeOK
    <2>4. QED
      BY <1>0, <2>1, <2>2, <2>3
      DEF ChainInv, LinkPending, FreshIds, RowsDistinct, RowsSealed,
          LinksToLatest, RowsOf
  <1>6. CASE Crash
    BY <1>0, <1>6
    DEF Crash, ChainInv, LockHeld, LinkPending, FreshIds, RowsDistinct,
        RowsSealed, LinksToLatest, RowsOf, InTx
  <1>7. CASE ClockTick \/ UNCHANGED vars
    BY <1>0, <1>7
    DEF ClockTick, vars, ChainInv, LockHeld, LinkPending, FreshIds,
        RowsDistinct, RowsSealed, LinksToLatest, RowsOf
  <1>8. QED
    BY <1>1, <1>2, <1>3, <1>4, <1>5, <1>6, <1>7 DEF Next

\* The inductive invariant holds in every reachable state.
THEOREM ChainInvariant == Spec => []ChainInv
  <1>1. Init => ChainInv
    BY TypeInit
    DEF Init, ChainInv, LockHeld, LinkPending, FreshIds, RowsDistinct,
        RowsSealed, LinksToLatest, RowsOf, InTx
  <1>2. QED
    BY <1>1, ChainInvStep, PTL DEF Spec

\* Every row is linked to the latest row of its case committed before it.
THEOREM LinkedToLatest == Spec => []LinksToLatest
  <1>1. ChainInv => LinksToLatest
    BY DEF ChainInv
  <1>2. QED
    BY <1>1, ChainInvariant, PTL

------------------------------------------------------------------------------
(* What the links say about forks and about verification.                  *)

\* Of two different rows of a case, the one committed first is listed first or
\* the log is out of order; listing is a strict order.
LEMMA BeforeStrict ==
  ASSUME NEW q \in Row, NEW r \in Row
  PROVE  ~(Before(q, r) /\ Before(r, q)) /\ ~Before(q, q)
  <1>1. q.ts \in Nat /\ r.ts \in Nat /\ q.id \in Nat /\ r.id \in Nat
    BY CustodyAssumption DEF Row
  <1>2. QED
    BY <1>1 DEF Before

\* In a state where every row is linked to the latest, a fork needs disorder.
LEMMA ForkFromDisorder == ChainInv => ForkNeedsDisorder
  <1> SUFFICES ASSUME ChainInv, NEW a \in rows, NEW b \in rows,
                      a # b, a.case = b.case, a.prev = b.prev,
                      InCommitOrder(b.case)
               PROVE  FALSE
    BY DEF ForkNeedsDisorder
  <1>1. rows \subseteq Row /\ RowsSealed /\ RowsDistinct /\ LinksToLatest
    BY DEF ChainInv, TypeOK
  <1>2. ASSUME NEW q \in rows, NEW r \in rows, q.case = r.case, q.prev = r.prev,
               InCommitOrder(r.case), q.seq < r.seq
        PROVE  FALSE
    <2> DEFINE S == {s \in RowsOf(r.case) : s.seq < r.seq}
    <2> DEFINE T == {s \in RowsOf(q.case) : s.seq < q.seq}
    <2>1. q \in S /\ r.prev \in LastHash(S) /\ q.prev \in LastHash(T)
      BY <1>1, <1>2 DEF LinksToLatest, RowsOf
    <2>2. PICK p \in S : IsLatest(p, S) /\ r.prev = p.hash
      BY <2>1 DEF LastHash
    <2>3. r.prev.id = p.id /\ p.id # NoId /\ p \in rows
      BY <1>1, <2>2, CustodyAssumption DEF RowsSealed, RowsOf, Row
    <2>4. PICK t \in T : q.prev = t.hash
      <3>1. q.prev # EmptyHash
        BY <1>2, <2>3 DEF EmptyHash
      <3>2. T # {}
        BY <2>1, <3>1 DEF LastHash
      <3>3. QED
        BY <2>1, <3>2 DEF LastHash
    <2>5. t \in rows /\ t.hash.id = t.id /\ t.seq < q.seq
      BY <1>1, <2>4 DEF RowsSealed, RowsOf
    <2>6. t = p
      BY <1>1, <1>2, <2>2, <2>3, <2>4, <2>5 DEF RowsDistinct
    <2>7. p # q
      BY <1>1, <2>5, <2>6 DEF Row
    <2>8. Before(q, p)
      BY <2>1, <2>2, <2>7 DEF IsLatest
    <2>9. Before(p, q)
      BY <1>2, <2>5, <2>6, <2>2 DEF InCommitOrder, RowsOf
    <2>10. QED
      BY <1>1, <2>3, <2>8, <2>9, BeforeStrict
  <1>3. a.seq < b.seq \/ b.seq < a.seq
    BY <1>1 DEF RowsDistinct, Row
  <1>4. QED
    BY <1>2, <1>3

\* In such a state a break needs disorder or a rounded stamp.
LEMMA BreakFromDisorder == ChainInv => BreakNeedsDisorder
  <1> SUFFICES ASSUME ChainInv, NEW c \in Cases, InCommitOrder(c), Exact(c),
                      NEW r \in RowsOf(c), NEW p \in LastHash(Earlier(r))
               PROVE  r.hash = ComputeLogHash(p, r.id, r.ts) /\ r.prev = p
    BY DEF BreakNeedsDisorder, Breaks
  <1>1. rows \subseteq Row /\ RowsSealed /\ RowsDistinct /\ LinksToLatest
    BY DEF ChainInv, TypeOK
  <1>2. r \in rows /\ r.case = c
    BY DEF RowsOf
  <1> DEFINE S == {q \in RowsOf(r.case) : q.seq < r.seq}
  <1>3. Earlier(r) = S
    <2> SUFFICES ASSUME NEW q \in RowsOf(c) PROVE Before(q, r) <=> q.seq < r.seq
      BY <1>2 DEF Earlier
    <2>1. q \in Row /\ r \in Row /\ q \in rows
      BY <1>1, <1>2 DEF RowsOf
    <2>2. q.seq < r.seq => Before(q, r)
      BY <1>2 DEF InCommitOrder
    <2>3. r.seq < q.seq => Before(r, q)
      BY <1>2 DEF InCommitOrder
    <2>4. q.seq = r.seq => q = r
      BY <1>1, <1>2, <2>1 DEF RowsDistinct
    <2>5. q.seq < r.seq \/ r.seq < q.seq \/ q.seq = r.seq
      BY <2>1 DEF Row
    <2>6. QED
      BY <2>1, <2>2, <2>3, <2>4, <2>5, BeforeStrict
  <1>4. S \subseteq Row
    BY <1>1 DEF RowsOf
  <1>5. r.prev = p
    BY <1>1, <1>2, <1>3, <1>4, LastHashUnique DEF LinksToLatest
  <1>6. r.hash = ComputeLogHash(r.prev, r.id, r.ts)
    BY <1>1, <1>2 DEF RowsSealed, Exact, ComputeLogHash, Row, Hash
  <1>7. QED
    BY <1>5, <1>6

\* Without stamps committed out of order, no two rows of a case name the same
\* predecessor.
THEOREM ForkOnlyByDisorder == Spec => []ForkNeedsDisorder
  BY ChainInvariant, ForkFromDisorder, PTL

\* VerifyCaseChain finds an untouched log intact unless stamps were committed
\* out of order or lost digits in the database.
THEOREM BreakOnlyByDisorder == Spec => []BreakNeedsDisorder
  BY ChainInvariant, BreakFromDisorder, PTL

------------------------------------------------------------------------------
(* The verdict of the PDF report.                                          *)

\* Listing is transitive, and total on rows of different identifiers.
LEMMA BeforeOrders ==
  ASSUME NEW a \in Row, NEW b \in Row, NEW d \in Row
  PROVE  /\ Before(a, b) /\ Before(b, d) => Before(a, d)
         /\ a.id # b.id => Before(a, b) \/ Before(b, a)
  <1>1. /\ a.ts \in Nat /\ b.ts \in Nat /\ d.ts \in Nat
        /\ a.id \in Nat /\ b.id \in Nat /\ d.id \in Nat
    BY CustodyAssumption DEF Row
  <1>2. QED
    BY <1>1 DEF Before

\* A row of a new identifier leaves every set of rows with a latest one: the
\* latest of the others, or the new row.
LEMMA ListableGrows ==
  ASSUME Listable, rows \subseteq Row, NEW n \in Row,
         \A q \in rows : q.id # n.id,
         rows' = rows \cup {n}
  PROVE  Listable'
  <1> SUFFICES ASSUME NEW S \in SUBSET rows', S # {}
               PROVE  \E q \in S : IsLatest(q, S)
    BY DEF Listable, IsLatest, Before
  <1>1. CASE n \notin S
    BY <1>1 DEF Listable
  <1>2. CASE S = {n}
    BY <1>2 DEF IsLatest
  <1>3. CASE n \in S /\ S # {n}
    <2> DEFINE T == S \ {n}
    <2>1. T \in SUBSET rows /\ T # {}
      BY <1>3
    <2>2. PICK q \in T : IsLatest(q, T)
      BY <2>1 DEF Listable
    <2>3. q \in Row /\ q.id # n.id
      BY <2>1, <2>2
    <2>4. CASE Before(n, q)
      BY <2>2, <2>4 DEF IsLatest
    <2>5. CASE Before(q, n)
      <3>1. \A s \in T : Before(s, n)
        BY <2>1, <2>2, <2>3, <2>5, BeforeOrders DEF IsLatest
      <3>2. QED
        BY <1>3, <3>1 DEF IsLatest
    <2>6. QED
      BY <2>3, <2>4, <2>5, BeforeOrders
  <1>4. QED
    BY <1>1, <1>2, <1>3

\* The row being committed comes after every other, so the first one stays.
LEMMA FirstStays ==
  ASSUME FirstCommitted, rows \subseteq Row, NEW n \in Row,
         \A q \in rows : q.seq < n.seq,
         rows' = rows \cup {n}
  PROVE  FirstCommitted'
  <1> SUFFICES ASSUME NEW c \in Cases, RowsOf(c)' # {}
               PROVE  \E f \in RowsOf(c)' : \A q \in RowsOf(c)' : f.seq <= q.seq
    BY DEF FirstCommitted
  <1>1. \A q \in rows : q.seq \in Nat
    BY DEF Row
  <1>2. n.seq \in Nat
    BY DEF Row
  <1>3. CASE RowsOf(c) = {}
    <2>1. \A q \in RowsOf(c)' : q = n
      BY <1>3 DEF RowsOf
    <2>2. QED
      BY <1>2, <2>1
  <1>4. CASE RowsOf(c) # {}
    <2>1. PICK f \in RowsOf(c) : \A q \in RowsOf(c) : f.seq <= q.seq
      BY <1>4 DEF FirstCommitted
    <2>2. f \in rows /\ f \in RowsOf(c)'
      BY DEF RowsOf
    <2>3. \A q \in RowsOf(c)' : q = n \/ q \in RowsOf(c)
      BY DEF RowsOf
    <2>4. f.seq <= n.seq
      BY <1>1, <1>2, <2>2
    <2>5. QED
      BY <2>1, <2>2, <2>3, <2>4
  <1>5. QED
    BY <1>3, <1>4

\* Only a commit adds a row, under an identifier and a number of its own.
LEMMA ReportInvStep == ReportInv /\ [Next]_vars => ReportInv'
  <1> SUFFICES ASSUME ReportInv, [Next]_vars PROVE ReportInv'
    OBVIOUS
  <1>1. ChainInv /\ ChainInv'
    BY ChainInvStep DEF ReportInv
  <1>2. CASE rows' = rows
    BY <1>1, <1>2 DEF ReportInv, Listable, FirstCommitted, RowsOf, IsLatest, Before
  <1>3. CASE rows' # rows
    <2>1. PICK w \in Writers : Commit(w)
      BY <1>3 DEF Next, Stamp, AcquireLock, LinkToLast, Abort, Crash, ClockTick, vars
    <2> DEFINE n == RowOf(req[w])
    <2>2. /\ pc[w] = "linked" /\ rows' = rows \cup {n}
          /\ rows \subseteq Row /\ rows' \subseteq Row
      BY <1>1, <2>1 DEF Commit, ChainInv, TypeOK
    <2>3. n.id = req[w].id /\ n.seq = commits
      BY DEF RowOf
    <2>4. \A q \in rows : q.id # n.id
      BY <1>1, <2>2, <2>3 DEF ChainInv, FreshIds
    <2>5. \A q \in rows : q.seq < n.seq
      BY <1>1, <2>3 DEF ChainInv, RowsSealed
    <2>6. n \in Row
      BY <2>2
    <2>7. Listable'
      BY <2>2, <2>4, <2>6, ListableGrows DEF ReportInv
    <2>8. FirstCommitted'
      BY <2>2, <2>5, <2>6, FirstStays DEF ReportInv
    <2>9. QED
      BY <1>1, <2>7, <2>8 DEF ReportInv
  <1>4. QED
    BY <1>2, <1>3

\* A row the report accepts names the row listed before it: its hash covers the
\* identifier of that row, and a row's link carries one identifier only.
LEMMA AcceptedLinks ==
  ASSUME ChainInv, NEW r \in rows, NEW p \in LastHash(Earlier(r)),
         Earlier(r) # {}, r.hash = ComputeLogHash(p, r.id, r.ts)
  PROVE  r.prev = p
  <1>1. rows \subseteq Row /\ RowsSealed /\ RowsDistinct /\ LinksToLatest
    BY DEF ChainInv, TypeOK
  <1>2. PICK q \in Earlier(r) : p = q.hash
    BY DEF LastHash
  <1>3. q \in rows /\ q.hash.id = q.id
    BY <1>1 DEF Earlier, RowsOf, RowsSealed
  <1>4. r.prev.id = q.id
    BY <1>1, <1>2, <1>3 DEF RowsSealed, ComputeLogHash
  <1>5. q.id # NoId
    BY <1>1, <1>3, CustodyAssumption DEF Row
  <1> DEFINE S == {s \in RowsOf(r.case) : s.seq < r.seq}
  <1>6. r.prev \in LastHash(S)
    BY <1>1 DEF LinksToLatest
  <1>7. S # {}
    BY <1>4, <1>5, <1>6 DEF LastHash, EmptyHash
  <1>8. PICK t \in S : r.prev = t.hash
    BY <1>6, <1>7 DEF LastHash
  <1>9. t \in rows /\ t.hash.id = t.id
    BY <1>1 DEF RowsOf, RowsSealed
  <1>10. t = q
    BY <1>1, <1>3, <1>4, <1>8, <1>9 DEF RowsDistinct
  <1>11. QED
    BY <1>2, <1>8, <1>10

\* The row listed first is the row committed first, or the report has a break:
\* the first committed row covers no identifier, and would be listed after
\* another.
LEMMA FirstListed ==
  ASSUME ReportInv, NEW c \in Cases, ReportBreaks(c) = {},
         NEW r \in RowsOf(c), Earlier(r) = {}
  PROVE  r.prev = EmptyHash
  <1>1. /\ rows \subseteq Row /\ RowsSealed /\ RowsDistinct /\ LinksToLatest
        /\ r \in rows /\ r.case = c
    BY DEF ReportInv, ChainInv, TypeOK, RowsOf
  <1> SUFFICES ASSUME r.prev # EmptyHash PROVE FALSE
    OBVIOUS
  <1>2. PICK t \in RowsOf(c) : t.seq < r.seq
    BY <1>1 DEF LinksToLatest, LastHash
  <1>3. PICK f \in RowsOf(c) : \A q \in RowsOf(c) : f.seq <= q.seq
    BY <1>2 DEF ReportInv, FirstCommitted
  <1>4. f \in rows /\ f.case = c
    BY DEF RowsOf
  <1>5. f.prev = EmptyHash
    <2>1. {q \in RowsOf(f.case) : q.seq < f.seq} = {}
      BY <1>1, <1>3, <1>4 DEF Row, RowsOf
    <2>2. QED
      BY <1>1, <1>4, <2>1 DEF LinksToLatest, LastHash
  <1>6. f # r
    BY <1>5
  <1>7. Before(r, f)
    <2>1. f.id # r.id
      BY <1>1, <1>4, <1>6 DEF RowsDistinct
    <2>2. ~Before(f, r)
      BY <1>1 DEF Earlier
    <2>3. QED
      BY <1>1, <1>4, <2>1, <2>2, BeforeOrders
  <1>8. Earlier(f) # {}
    BY <1>4, <1>7 DEF Earlier
  <1>9. Earlier(f) \in SUBSET rows
    BY DEF Earlier, RowsOf
  <1>10. PICK q \in Earlier(f) : IsLatest(q, Earlier(f))
    BY <1>8, <1>9 DEF ReportInv, Listable
  <1>11. q.hash \in LastHash(Earlier(f))
    BY <1>8, <1>10 DEF LastHash
  <1>12. f.hash = ComputeLogHash(q.hash, f.id, f.ts)
    BY <1>8, <1>11 DEF ReportBreaks
  <1>13. f.hash.prev = q.id
    BY <1>1, <1>9, <1>12 DEF ComputeLogHash, RowsSealed
  <1>14. f.hash.prev = NoId
    BY <1>1, <1>4, <1>5 DEF RowsSealed, EmptyHash
  <1>15. QED
    BY <1>1, <1>9, <1>13, <1>14, CustodyAssumption DEF Row

\* Where the report finds no break, VerifyCaseChain finds none, and conversely.
LEMMA VerdictsAgree == ReportInv => ReportAgrees
  <1> SUFFICES ASSUME ReportInv, NEW c \in Cases, Exact(c)
               PROVE  ReportBreaks(c) = {} <=> Breaks(c) = {}
    BY DEF ReportAgrees
  <1>1. ReportBreaks(c) \subseteq Breaks(c)
    BY DEF ReportBreaks, Breaks
  <1>2. ASSUME ReportBreaks(c) = {},
               NEW r \in RowsOf(c), NEW p \in LastHash(Earlier(r))
        PROVE  r.hash = ComputeLogHash(p, r.id, r.ts) /\ r.prev = p
    <2>1. ChainInv /\ r \in rows
      BY DEF ReportInv, RowsOf
    <2>2. CASE Earlier(r) # {}
      <3>1. r.hash = ComputeLogHash(p, r.id, r.ts)
        BY <1>2, <2>2 DEF ReportBreaks
      <3>2. QED
        BY <2>1, <2>2, <3>1, AcceptedLinks
    <2>3. CASE Earlier(r) = {}
      <3>1. r.prev = EmptyHash /\ p = EmptyHash
        BY <1>2, <2>3, FirstListed DEF LastHash
      <3>2. r.hash \in Hash /\ r.hash.id = r.id /\ r.hash.prev = r.prev.id /\ r.hash.ts = r.ts
        BY <2>1 DEF ChainInv, TypeOK, RowsSealed, Row, Exact
      <3>3. QED
        BY <3>1, <3>2 DEF ComputeLogHash, Hash
    <2>4. QED
      BY <2>2, <2>3
  <1>3. ReportBreaks(c) = {} => Breaks(c) = {}
    BY <1>2 DEF Breaks
  <1>4. QED
    BY <1>1, <1>3

\* On a log whose stamps are exact, the chain status of the PDF report is the
\* verdict of VerifyCaseChain, though the report skips the first entry and never
\* looks at previous_hash.
THEOREM ReportNeverDiffers == Spec => []ReportAgrees
  <1>1. Init => ReportInv
    <2>1. Init => ChainInv
      BY TypeInit
      DEF Init, ChainInv, LockHeld, LinkPending, FreshIds, RowsDistinct,
          RowsSealed, LinksToLatest, RowsOf, InTx
    <2>2. QED
      BY <2>1 DEF Init, ReportInv, Listable, FirstCommitted, RowsOf
  <1>2. QED
    BY <1>1, ReportInvStep, VerdictsAgree, PTL DEF Spec

------------------------------------------------------------------------------
(* Refinement.                                                             *)

EntryOf(r) == [id |-> r.id, case |-> r.case, link |-> r.prev.id]

\* A committed row is an entry the abstract log may append.
LEMMA CommitAppends ==
  ASSUME ChainInv, NEW w \in Writers, Commit(w)
  PROVE  Log!Next
  <1> DEFINE n == RowOf(req[w])
             c == req[w].case
             ents == {EntryOf(r) : r \in rows}
  <1>1. /\ pc[w] = "linked" /\ c \in Cases /\ req[w].id \in Ids
        /\ rows' = rows \cup {n} /\ rows \subseteq Row
    BY DEF Commit, ChainInv, TypeOK
  <1>2. n.id = req[w].id /\ n.case = c /\ n.prev = req[w].prev
    BY DEF RowOf
  <1>3. req[w].id \notin {e.id : e \in ents}
    BY <1>1 DEF ChainInv, FreshIds, EntryOf
  <1>4. req[w].prev.id \in Log!Anchors(c)
    <2>1. req[w].prev \in LastHash(RowsOf(c))
      BY <1>1 DEF ChainInv, LinkPending
    <2>2. CASE RowsOf(c) = {}
      BY <2>1, <2>2 DEF LastHash, EmptyHash, RowsOf, Log!Anchors, Log!EntriesOf
    <2>3. CASE RowsOf(c) # {}
      <3>1. PICK q \in RowsOf(c) : req[w].prev = q.hash
        BY <2>1, <2>3 DEF LastHash
      <3>2. q \in rows /\ q.case = c /\ req[w].prev.id = q.id
        BY <3>1 DEF ChainInv, RowsSealed, RowsOf
      <3>3. EntryOf(q) \in Log!EntriesOf(c) /\ EntryOf(q).id = q.id
        BY <3>2 DEF EntryOf, Log!EntriesOf
      <3>4. QED
        BY <3>2, <3>3 DEF Log!Anchors
    <2>4. QED
      BY <2>2, <2>3
  <1>5. {EntryOf(r) : r \in rows'}
          = ents \cup {[id |-> req[w].id, case |-> c, link |-> req[w].prev.id]}
    BY <1>1, <1>2 DEF EntryOf
  <1>6. PICK k \in Cases, i \in Ids, l \in Log!Anchors(c) :
          k = c /\ i = req[w].id /\ l = req[w].prev.id
    BY <1>1, <1>4
  <1>7. Log!Append(k, i, l)
    BY <1>3, <1>4, <1>5, <1>6 DEF Log!Append, EntryOf
  <1>8. QED
    BY <1>6, <1>7 DEF Log!Next

\* The custody log implements the append-only hash-linked log: every step adds
\* one entry linked to an entry of its case, or changes no entry.
THEOREM ImplementsLog == Spec => LogSpec
  <1>1. Init => Log!Init
    BY DEF Init, Log!Init
  <1>2. ChainInv /\ [Next]_vars
          => [Log!Next]_({[id |-> r.id, case |-> r.case, link |-> r.prev.id] : r \in rows})
    <2> SUFFICES ASSUME ChainInv, [Next]_vars, rows' # rows
                 PROVE  Log!Next
      OBVIOUS
    <2>1. PICK w \in Writers : Commit(w)
      BY DEF Next, Stamp, AcquireLock, LinkToLast, Abort, Crash, ClockTick, vars
    <2>2. QED
      BY <2>1, CommitAppends
  <1>3. QED
    BY <1>1, <1>2, ChainInvariant, PTL DEF Spec, LogSpec, Log!Spec
==============================================================================
