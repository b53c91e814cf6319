------------------------------- MODULE Listings -------------------------------
(***************************************************************************)
(* The four paged listings: the cases of a user (internal/cases), the      *)
(* evidence of a case (internal/evidence), the custody events of an item   *)
(* (internal/custody) and the notifications of a user                      *)
(* (internal/notifications).  A client asks for page after page, each with *)
(* the cursor of the one before, while rows come and go.  A page is two    *)
(* statements: COUNT over the whole listing, then SELECT past the cursor.  *)
(* Rows are numbered in the order of their random ids, which has nothing   *)
(* to do with the order of their times.                                    *)
(***************************************************************************)
EXTENDS Integers, FiniteSets

CONSTANTS
  MaxRows,     \* bound on the rows
  MaxTime,     \* bound on their times
  MaxAsk,      \* bound on the page size a client asks for
  DefaultSize, \* DefaultPageLimit, and its like in the other listings
  MaxSize      \* MaxPageLimit, and its like

ASSUME ListingsAssumption ==
  /\ MaxRows \in Nat /\ MaxTime \in Nat /\ MaxAsk \in Nat
  /\ DefaultSize \in 1..MaxSize /\ MaxSize \in Nat

Rows  == 1..MaxRows
NoRow == 0

VARIABLES
  kind,        \* which listing is read
  time,        \* created_at, or the timestamp of a custody event
  present,     \* the rows that match the listing now
  asked,       \* the client's limit, 0 when it sends none
  at,          \* where the client is
  cursor,      \* the last row of the last page
  total,       \* what COUNT returned, until the page is made
  got,         \* rows on a page so far
  twice,       \* rows on two pages (history)
  throughout,  \* rows that have matched since the client began (history)
  slipped      \* a row came between a COUNT and its SELECT (history)

listing  == <<kind, time, asked>>
reader   == <<at, cursor, total, got, twice>>
listVars == <<listing, reader, present, throughout, slipped>>

Kinds == {"cases", "evidence", "custody", "inbox"}

ListInit ==
  /\ kind \in Kinds
  /\ IF kind = "cases" THEN time = [i \in Rows |-> 1]   \* which nothing reads
                       ELSE time \in [Rows -> 1..MaxTime]
  /\ asked \in 0..MaxAsk
  /\ present \in SUBSET Rows
  /\ at = "count" /\ cursor = NoRow /\ total = 0
  /\ got = {} /\ twice = {}
  /\ throughout = present /\ slipped = FALSE

------------------------------------------------------------------------------
(* The rows come and go (while the client reads, which bounds the model).   *)

Underway == at \in {"count", "select"}

(* A case is created, changes its status or is granted to the user; an item *)
(* is uploaded or edited; an event is recorded; a notification is created.  *)
Enter(i) ==
  /\ Underway
  /\ i \notin present
  /\ present' = present \cup {i}
  /\ slipped' = (slipped \/ at = "select")
  /\ UNCHANGED <<listing, reader, throughout>>

(* A case or an item no longer matches; events and notifications stay.      *)
Leave(i) ==
  /\ Underway
  /\ kind \in {"cases", "evidence"}
  /\ i \in present
  /\ present' = present \ {i}
  /\ throughout' = throughout \ {i}
  /\ UNCHANGED <<listing, reader, slipped>>

------------------------------------------------------------------------------
(* What the SELECTs find, before the LIMIT, and in which order.             *)

Newer(i, j)  == time[i] > time[j] \/ (time[i] = time[j] /\ i > j)
Higher(i, j) == i > j

(* Seeded bug: the row of the cursor is on the next page again.             *)
UpToCursor(i) == cursor = NoRow \/ i <= cursor

\* WHERE id < the id in the cursor.
PastCursor(i) == cursor = NoRow \/ i < cursor

\* Cases: ORDER BY id DESC.
FindAll == [rows |-> {i \in present : PastCursor(i)}, order |-> "id"]

\* Evidence: ORDER BY created_at DESC, id DESC.
FindByCase == [rows |-> {i \in present : PastCursor(i)}, order |-> "time"]

\* Custody events: ORDER BY timestamp DESC, id DESC.
ListByEvidence == [rows |-> {i \in present : PastCursor(i)}, order |-> "time"]

\* Notifications: the cursor is a time and an id, compared as the order is.
ListByUser == [rows |-> {i \in present : cursor = NoRow \/ Newer(cursor, i)}, order |-> "time"]

------------------------------------------------------------------------------
(* The sizes of the pages.                                                  *)

Lesser(m, n) == IF m < n THEN m ELSE n

ClampPagination(limit) ==
  IF limit <= 0 THEN DefaultSize ELSE Lesser(limit, MaxSize)

\* GetCustodyLog takes a limit it does not like for none.
CustodyLimit == IF asked \in 1..MaxSize THEN asked ELSE DefaultSize

\* The handler of the notifications leaves the upper bound to the repository.
InboxLimit == IF asked > 0 THEN asked ELSE DefaultSize

------------------------------------------------------------------------------
(* The client.                                                              *)

(* SELECT COUNT( * ) over the whole listing.                                *)
Count ==
  /\ at = "count"
  /\ total' = Cardinality(present)
  /\ at' = "select"
  /\ UNCHANGED <<listing, present, cursor, got, twice, throughout, slipped>>

\* The first rows found, as many as the LIMIT allows, and the last of them.
Precedes(order, i, j) == IF order = "id" THEN Higher(i, j) ELSE Newer(i, j)
IsPage(page, found, size) ==
  /\ page \subseteq found.rows
  /\ \A i \in page, j \in found.rows : Precedes(found.order, j, i) => j \in page
  /\ Cardinality(page) = Lesser(size, Cardinality(found.rows))
LastOf(found, page) == CHOOSE i \in page : \A j \in page \ {i} : Precedes(found.order, j, i)

\* The client receives a page and goes on if there is more.
Receive(found, page, more) ==
  /\ at = "select"
  /\ got' = got \cup page
  /\ twice' = twice \cup (got \cap page)
  /\ cursor' = IF page = {} THEN cursor ELSE LastOf(found, page)
  /\ at' = IF more THEN "count" ELSE "done"
  /\ total' = 0
  /\ UNCHANGED <<listing, present, throughout, slipped>>

(* Seeded bug: has_more looks at the total alone.                           *)
SelectCasesByTotal ==
  LET limit == ClampPagination(asked) IN
  /\ kind = "cases"
  /\ \E page \in SUBSET FindAll.rows :
       /\ IsPage(page, FindAll, limit)
       /\ Receive(FindAll, page, total > limit)

(* ListCases.                                                               *)
SelectCases ==
  LET limit == ClampPagination(asked) IN
  /\ kind = "cases"
  /\ \E page \in SUBSET FindAll.rows :
       /\ IsPage(page, FindAll, limit)
       /\ Receive(FindAll, page, Cardinality(page) = limit /\ total > limit)

(* Seeded bug: COUNT is of the rows that are left.                          *)
SelectEvidenceOfRest ==
  LET limit == ClampPagination(asked) IN
  /\ kind = "evidence"
  /\ \E page \in SUBSET FindByCase.rows :
       /\ IsPage(page, FindByCase, limit)
       /\ Receive(FindByCase, page, Cardinality(page) = limit /\ total - Cardinality(got) > 2 * limit)

(* List of the evidence service.                                            *)
SelectEvidence ==
  LET limit == ClampPagination(asked) IN
  /\ kind = "evidence"
  /\ \E page \in SUBSET FindByCase.rows :
       /\ IsPage(page, FindByCase, limit)
       /\ Receive(FindByCase, page, Cardinality(page) = limit /\ total > limit)

(* GetCustodyLog says has_more but sends no cursor: a client that wants the *)
(* next page makes one of the id of the last event.                         *)
SelectCustody ==
  /\ kind = "custody"
  /\ \E page \in SUBSET ListByEvidence.rows :
       /\ IsPage(page, ListByEvidence, CustodyLimit)
       /\ Receive(ListByEvidence, page, Cardinality(page) = CustodyLimit)

(* List of the notifications: a page of the size the repository allows, and *)
(* has_more by the size that was asked for.                                 *)
SelectInbox ==
  /\ kind = "inbox"
  /\ \E page \in SUBSET ListByUser.rows :
       /\ IsPage(page, ListByUser, ClampPagination(InboxLimit))
       /\ Receive(ListByUser, page, Cardinality(page) = InboxLimit)

(* A query fails, and the client is told so.                                *)
QueryFails ==
  /\ Underway
  /\ at' = "failed" /\ total' = 0
  /\ UNCHANGED <<listing, present, cursor, got, twice, throughout, slipped>>

Reading == Count \/ SelectCases \/ SelectEvidence \/ SelectCustody \/ SelectInbox

ListNext ==
  \/ Reading \/ QueryFails
  \/ \E i \in Rows : Enter(i) \/ Leave(i)

ListSpec == ListInit /\ [][ListNext]_listVars

\* A client that reads on as long as there is more.
FairListSpec == ListSpec /\ WF_listVars(Reading)

------------------------------------------------------------------------------
(* Properties.                                                              *)

\* The ids of these rows happen to grow with their times.
InOrder(R) == \A i, j \in R : i < j => time[i] <= time[j]

\* The cursor of a listing agrees with its order.
WellKeyed(R) == kind \in {"cases", "inbox"} \/ InOrder(R)

(* No row is on two pages of the cases or of the notifications, whatever    *)
(* comes and goes; of the evidence and the custody events, which are sorted *)
(* by time and cut by id, only if the ids read happen to be in order.       *)
PagesNeverRepeat == WellKeyed(got) => twice = {}

(* A client that has read to the end has seen every row that was there all  *)
(* the time: of the notifications if it asked for no more than a page may   *)
(* have, of cases and evidence if no row came between COUNT and SELECT, and *)
(* of evidence and custody events only if the ids happen to be in order.    *)
PagesCover ==
  /\ at = "done"
  /\ kind = "inbox" => asked <= MaxSize
  /\ kind \in {"cases", "evidence"} => ~ slipped
  /\ WellKeyed(got \cup throughout)
  => throughout \subseteq got

(* What makes the two inductive.                                            *)
ListTypeOK ==
  /\ kind \in Kinds
  /\ time \in [Rows -> Nat]
  /\ asked \in 0..MaxAsk
  /\ at \in {"count", "select", "done", "failed"}
  /\ cursor \in Rows \cup {NoRow} /\ got \subseteq Rows /\ twice \subseteq Rows
  /\ present \subseteq Rows /\ throughout \subseteq present
  /\ total \in Nat /\ slipped \in BOOLEAN

\* The rows a SELECT may find, by the cursor of the listing.
IsPast(i) == cursor = NoRow \/ IF kind = "inbox" THEN Newer(cursor, i) ELSE i < cursor

\* Where the cursor can be trusted, no row of the pages so far is past it.
GotIsBehind == WellKeyed(got) => twice = {} /\ \A i \in got : ~ IsPast(i)

\* Whoever was there all the time and is not on a page yet is past the cursor; one
\* row at a time, for another row may leave and take the disorder with it.
RestIsAhead == \A i \in throughout \ got : at = "done" \/ (WellKeyed(got \cup {i}) => IsPast(i))

\* Unless a row came in between, COUNT has counted all there is.
CountCovers == at = "select" /\ ~ slipped => Cardinality(present) <= total

PagesInv == ListTypeOK /\ GotIsBehind /\ RestIsAhead /\ CountCovers /\ PagesCover

(* A client that reads on comes to an end or is told of an error, also      *)
(* while rows come and go (the cursor of every listing moves one way).      *)
ReadingEnds == <>(~ Underway)

==============================================================================
