---------------------------- MODULE EvidenceVault ----------------------------
(***************************************************************************)
(* The evidence of one case (internal/evidence): Upload, Download and      *)
(* Destroy run in concurrent request goroutines over two stores that share *)
(* no transaction, the table evidence_items and the object store, and over *)
(* the case's status and legal hold, which each call reads once and then   *)
(* trusts.  A goroutine started by Upload adds a thumbnail later.          *)
(*                                                                         *)
(* The case itself belongs to the case service; here it moves as           *)
(* CaseChanges allows, which VaultSystem shows the case service to honour. *)
(***************************************************************************)
EXTENDS Integers, FiniteSets

CONSTANTS
  Requests,     \* request goroutines
  MaxUploads,   \* bound on the evidence numbers drawn
  MaxReads      \* bound on the calls of Destroy and Download that find the row

ASSUME VaultAssumption == MaxUploads \in Nat /\ MaxReads \in Nat

\* One item per storage key; keys are drawn one after the other (uuid.New).
Items  == 1..MaxUploads
NoItem == 0

VARIABLES
  status,     \* cases.status
  hold,       \* cases.legal_hold
  counter,    \* cases.evidence_counter
  keys,       \* number of storage keys drawn
  row,        \* evidence_items: "none", "live" or "destroyed" (destroyed_at)
  number,     \* the number in evidence_items.evidence_number
  thumbKey,   \* rows with a thumbnail_key
  files,      \* evidence objects in the store
  thumbs,     \* thumbnail objects in the store
  thumbJob,   \* the thumbnail goroutine of an item
  destroyed,  \* custody events "evidence_destroyed" of an item
  pc,         \* where each request is
  req,        \* what it holds
  free,       \* what the case allowed since the request read its row (history)
  fault,      \* what went wrong with an item (history)
  reads       \* calls counted against MaxReads

caseState == <<status, hold>>
rowState  == <<counter, keys, row, number, thumbKey>>
objects   == <<files, thumbs>>
control   == <<pc, req, free, reads>>
vars == <<caseState, rowState, objects, thumbJob, destroyed, control, fault>>

Statuses == {"active", "closed", "archived"}

UploadStages   == {"number", "put", "create", "cleanup", "uploaded"}
DestroyStages  == {"status", "hold", "mark", "file", "thumb", "destroyed"}
DownloadStages == {"fetch", "served"}
Stages == {"idle"} \cup UploadStages \cup DestroyStages \cup DownloadStages

\* The stages of a Destroy that has marked its row.
Marked == {"file", "thumb", "destroyed"}

\* The stages in which the two stores disagree about the item.
Halfway == {"create", "cleanup", "file", "thumb"}

NoReq == [item |-> NoItem, num |-> 0, thumbs |-> {}]
Req   == [item : Items \cup {NoItem}, num : Nat, thumbs : SUBSET Items]

NoFree == [hold |-> FALSE, archive |-> FALSE]
Free   == [hold : BOOLEAN, archive : BOOLEAN]

\* "interrupted": a call stopped, or an operation on the object store failed,
\* half way; "unsure": the database committed a change and reported an error.
Faults == {"none", "interrupted", "unsure"}

Worse(f, g) == IF "unsure" \in {f, g} THEN "unsure" ELSE "interrupted"
Blame(i, f) == fault' = [fault EXCEPT ![i] = Worse(@, f)]

Init ==
  /\ status = "active" /\ hold = FALSE
  /\ counter = 0 /\ keys = 0
  /\ row = [i \in Items |-> "none"]
  /\ number = [i \in Items |-> 0]
  /\ thumbKey = {} /\ files = {} /\ thumbs = {}
  /\ thumbJob = [i \in Items |-> "none"]
  /\ destroyed = [i \in Items |-> 0]
  /\ pc = [r \in Requests |-> "idle"]
  /\ req = [r \in Requests |-> NoReq]
  /\ free = [r \in Requests |-> NoFree]
  /\ fault = [i \in Items |-> "none"]
  /\ reads = 0

------------------------------------------------------------------------------
(* The case as the vault sees it.                                           *)

\* What the case allows now: its hold is off, it is not archived.
FreeNow(s, h) == [hold |-> ~h, archive |-> s # "archived"]

\* A request under way remembers what the case allowed since it began.
Remember ==
  free' = [r \in Requests |->
             IF pc[r] \notin DestroyStages THEN free[r]
             ELSE [hold    |-> free[r].hold \/ FreeNow(status', hold').hold,
                   archive |-> free[r].archive \/ FreeNow(status', hold').archive]]

\* The case service moves the case, never back to "active" and never to
\* "archived" without "closed"; the hold may come and go.
CaseChanges ==
  /\ status' \in Statuses /\ hold' \in BOOLEAN
  /\ status' = "active" => status = "active"
  /\ status' = "archived" => status # "active"
  /\ Remember
  /\ UNCHANGED <<rowState, objects, destroyed, thumbJob, pc, req, reads, fault>>

Goto(r, stage) ==
  /\ pc' = [pc EXCEPT ![r] = stage]
  /\ UNCHANGED <<req, free, reads>>

Return(r) ==
  /\ pc' = [pc EXCEPT ![r] = "idle"]
  /\ req' = [req EXCEPT ![r] = NoReq]
  /\ free' = [free EXCEPT ![r] = NoFree]
  /\ UNCHANGED reads

------------------------------------------------------------------------------
(* Upload.                                                                  *)

(* GetStatus; a case that is not active is refused.                         *)
Upload(r) ==
  /\ pc[r] = "idle"
  /\ status = "active"
  /\ counter + Cardinality({q \in Requests : pc[q] = "number"}) < MaxUploads
  /\ Goto(r, "number")
  /\ UNCHANGED <<caseState, rowState, objects, destroyed, thumbJob, fault>>

(* Seeded bug: the counter's transaction is never committed.                *)
NextNumberUncommitted(r) ==
  /\ pc[r] = "number"
  /\ pc' = [pc EXCEPT ![r] = "put"]
  /\ req' = [req EXCEPT ![r] = [@ EXCEPT !.num = counter + 1]]
  /\ UNCHANGED <<caseState, rowState, objects, destroyed, thumbJob, free, reads, fault>>

(* IncrementEvidenceCounter: one UPDATE ... RETURNING in a transaction.     *)
NextNumber(r) ==
  /\ pc[r] = "number"
  /\ counter' = counter + 1
  /\ pc' = [pc EXCEPT ![r] = "put"]
  /\ req' = [req EXCEPT ![r] = [@ EXCEPT !.num = counter']]
  /\ UNCHANGED <<caseState, keys, row, number, thumbKey, objects, destroyed, thumbJob,
                 free, reads, fault>>

(* uuid.New and PutObject.                                                  *)
PutFile(r) ==
  /\ pc[r] = "put"
  /\ keys < MaxUploads
  /\ keys' = keys + 1
  /\ files' = files \cup {keys'}
  /\ pc' = [pc EXCEPT ![r] = "create"]
  /\ req' = [req EXCEPT ![r] = [@ EXCEPT !.item = keys']]
  /\ UNCHANGED <<caseState, counter, row, number, thumbKey, thumbs, destroyed, thumbJob,
                 free, reads, fault>>

(* PutObject reports an error, whether or not the object was stored.        *)
PutFails(r) ==
  /\ pc[r] = "put"
  /\ keys < MaxUploads
  /\ keys' = keys + 1
  /\ files' \in {files, files \cup {keys'}}
  /\ Blame(keys', "interrupted")
  /\ Return(r)
  /\ UNCHANGED <<caseState, counter, row, number, thumbKey, thumbs, destroyed, thumbJob>>

InsertRow(r) ==
  /\ row' = [row EXCEPT ![req[r].item] = "live"]
  /\ number' = [number EXCEPT ![req[r].item] = req[r].num]
  /\ UNCHANGED <<counter, keys, thumbKey>>

(* repo.Create, and the thumbnail goroutine.                                *)
CreateRow(r) ==
  /\ pc[r] = "create"
  /\ InsertRow(r)
  /\ thumbJob' = [thumbJob EXCEPT ![req[r].item] = "generate"]
  /\ Goto(r, "uploaded")
  /\ UNCHANGED <<caseState, objects, destroyed, fault>>

(* repo.Create reports an error, having inserted nothing, or having inserted *)
(* the row (the connection is lost with the answer).                        *)
CreateFails(r) ==
  /\ pc[r] = "create"
  /\ \/ UNCHANGED <<rowState, fault>>
     \/ InsertRow(r) /\ Blame(req[r].item, "unsure")
  /\ Goto(r, "cleanup")
  /\ UNCHANGED <<caseState, objects, destroyed, thumbJob>>

(* Seeded bug: the error path forgets the object.                           *)
CleanupNothing(r) ==
  /\ pc[r] = "cleanup"
  /\ Return(r)
  /\ UNCHANGED <<caseState, rowState, objects, destroyed, thumbJob, fault>>

(* "Cleanup stored file on DB failure"; a failure of the cleanup is logged. *)
Cleanup(r) ==
  /\ pc[r] = "cleanup"
  /\ \/ files' = files \ {req[r].item} /\ UNCHANGED fault
     \/ UNCHANGED files /\ Blame(req[r].item, "interrupted")
  /\ Return(r)
  /\ UNCHANGED <<caseState, rowState, thumbs, destroyed, thumbJob>>

(* Custody event and search index; a failure of either is logged.  Nothing   *)
(* here depends on what they leave behind.                                   *)
RecordUpload(r) ==
  /\ pc[r] = "uploaded"
  /\ Return(r)
  /\ UNCHANGED <<caseState, rowState, objects, destroyed, thumbJob, fault>>

------------------------------------------------------------------------------
(* generateThumbnail.                                                       *)

StoreThumb(i) ==
  /\ thumbJob[i] = "generate"
  /\ thumbs' = thumbs \cup {i}
  /\ thumbJob' = [thumbJob EXCEPT ![i] = "link"]
  /\ UNCHANGED <<caseState, rowState, files, destroyed, control, fault>>

(* UpdateThumbnailKey: UPDATE ... WHERE id = $2, destroyed or not.          *)
LinkThumb(i) ==
  /\ thumbJob[i] = "link"
  /\ thumbKey' = thumbKey \cup {i}
  /\ thumbJob' = [thumbJob EXCEPT ![i] = "none"]
  /\ UNCHANGED <<caseState, counter, keys, row, number, objects, destroyed, control, fault>>

(* No thumbnail for this type of file, or it could not be made or stored.   *)
SkipThumb(i) ==
  /\ thumbJob[i] = "generate"
  /\ thumbJob' = [thumbJob EXCEPT ![i] = "none"]
  /\ \/ UNCHANGED <<thumbs, fault>>
     \/ thumbs' = thumbs \cup {i} /\ Blame(i, "interrupted")
  /\ UNCHANGED <<caseState, rowState, files, destroyed, control>>

(* UpdateThumbnailKey fails: the object stays behind.                       *)
LinkFails(i) ==
  /\ thumbJob[i] = "link"
  /\ thumbJob' = [thumbJob EXCEPT ![i] = "none"]
  /\ Blame(i, "interrupted")
  /\ UNCHANGED <<caseState, rowState, objects, destroyed, control>>

------------------------------------------------------------------------------
(* Destroy.                                                                 *)

(* FindByID; a destroyed row is done already.  The request keeps the row it *)
(* read, and with it whether there was a thumbnail.                         *)
Destroy(r, i) ==
  /\ pc[r] = "idle"
  /\ row[i] = "live"
  /\ reads < MaxReads
  /\ reads' = reads + 1
  /\ pc' = [pc EXCEPT ![r] = "status"]
  /\ req' = [req EXCEPT ![r] = [item |-> i, num |-> 0, thumbs |-> {i} \cap thumbKey]]
  /\ free' = [free EXCEPT ![r] = FreeNow(status, hold)]
  /\ UNCHANGED <<caseState, rowState, objects, destroyed, thumbJob, fault>>

(* GetStatus: "cannot destroy evidence in an archived case".                *)
CheckStatus(r) ==
  /\ pc[r] = "status"
  /\ IF status = "archived" THEN Return(r) ELSE Goto(r, "hold")
  /\ UNCHANGED <<caseState, rowState, objects, destroyed, thumbJob, fault>>

(* Seeded bug: the answer of GetLegalHold is not looked at.                 *)
CheckHoldIgnored(r) ==
  /\ pc[r] = "hold"
  /\ Goto(r, "mark")
  /\ UNCHANGED <<caseState, rowState, objects, destroyed, thumbJob, fault>>

(* GetLegalHold: "cannot destroy evidence under legal hold".                *)
CheckHold(r) ==
  /\ pc[r] = "hold"
  /\ IF hold THEN Return(r) ELSE Goto(r, "mark")
  /\ UNCHANGED <<caseState, rowState, objects, destroyed, thumbJob, fault>>

(* Seeded bugs: no "destroyed_at IS NULL"; a failed UPDATE that is passed over. *)
MarkDestroyedAgain(r) ==
  /\ pc[r] = "mark"
  /\ row' = [row EXCEPT ![req[r].item] = "destroyed"]
  /\ Goto(r, "file")
  /\ UNCHANGED <<caseState, counter, keys, number, thumbKey, objects, destroyed, thumbJob,
                 fault>>

MarkDestroyedUnchecked(r) ==
  /\ pc[r] = "mark"
  /\ \/ row' = [row EXCEPT ![req[r].item] = "destroyed"]
     \/ UNCHANGED row
  /\ Goto(r, "file")
  /\ UNCHANGED <<caseState, counter, keys, number, thumbKey, objects, destroyed, thumbJob,
                 fault>>

(* UPDATE ... WHERE id = $3 AND destroyed_at IS NULL; no row is ErrNotFound. *)
MarkDestroyed(r) ==
  /\ pc[r] = "mark"
  /\ \/ /\ row[req[r].item] = "live"
        /\ row' = [row EXCEPT ![req[r].item] = "destroyed"]
        /\ \/ Goto(r, "file") /\ UNCHANGED fault
           \/ Return(r) /\ Blame(req[r].item, "unsure")  \* the answer is lost
     \/ /\ row[req[r].item] # "live"
        /\ Return(r)
        /\ UNCHANGED <<row, fault>>
  /\ UNCHANGED <<caseState, counter, keys, number, thumbKey, objects, destroyed, thumbJob>>

(* DeleteObject(storage key); a failure is logged ("orphaned").             *)
DeleteFile(r) ==
  /\ pc[r] = "file"
  /\ \/ files' = files \ {req[r].item} /\ UNCHANGED fault
     \/ UNCHANGED files /\ Blame(req[r].item, "interrupted")
  /\ Goto(r, "thumb")
  /\ UNCHANGED <<caseState, rowState, thumbs, destroyed, thumbJob>>

(* DeleteObject(thumbnail key), if the row had one when it was read.        *)
DeleteThumb(r) ==
  /\ pc[r] = "thumb"
  /\ \/ thumbs' = thumbs \ req[r].thumbs /\ UNCHANGED fault
     \/ req[r].thumbs # {} /\ UNCHANGED thumbs /\ Blame(req[r].item, "interrupted")
  /\ Goto(r, "destroyed")
  /\ UNCHANGED <<caseState, rowState, files, destroyed, thumbJob>>

RecordDestroyed(r) ==
  /\ pc[r] = "destroyed"
  /\ \/ destroyed' = [destroyed EXCEPT ![req[r].item] = @ + 1]
     \/ UNCHANGED destroyed
  /\ Return(r)
  /\ UNCHANGED <<caseState, rowState, objects, thumbJob, fault>>

------------------------------------------------------------------------------
(* Download.                                                                *)

(* FindByID: "evidence has been destroyed".                                 *)
Download(r, i) ==
  /\ pc[r] = "idle"
  /\ row[i] = "live"
  /\ reads < MaxReads
  /\ reads' = reads + 1
  /\ pc' = [pc EXCEPT ![r] = "fetch"]
  /\ req' = [req EXCEPT ![r] = [@ EXCEPT !.item = i]]
  /\ UNCHANGED <<caseState, rowState, objects, destroyed, thumbJob, free, fault>>

(* GetObject: an object that is not there is an error.                      *)
Fetch(r) ==
  /\ pc[r] = "fetch"
  /\ IF req[r].item \in files THEN Goto(r, "served") ELSE Return(r)
  /\ UNCHANGED <<caseState, rowState, objects, destroyed, thumbJob, fault>>

Served(r) ==
  /\ pc[r] = "served"
  /\ Return(r)
  /\ UNCHANGED <<caseState, rowState, objects, destroyed, thumbJob, fault>>

------------------------------------------------------------------------------
(* A read or the counter's transaction fails, or a reason is missing: the    *)
(* call returns with nothing done.  The counter may have been committed.     *)
Refuse(r) ==
  /\ pc[r] \in {"number", "status", "hold", "mark", "fetch"}
  /\ \/ UNCHANGED counter
     \/ pc[r] = "number" /\ counter' = counter + 1
  /\ Return(r)
  /\ UNCHANGED <<caseState, keys, row, number, thumbKey, objects, destroyed, thumbJob, fault>>

(* The process dies, and with it requests and thumbnail goroutines.         *)
Crash ==
  /\ fault' = [i \in Items |->
                 IF \/ \E r \in Requests : req[r].item = i /\ pc[r] \in Halfway
                    \/ thumbJob[i] = "link"
                 THEN Worse(fault[i], "interrupted") ELSE fault[i]]
  /\ thumbJob' = [i \in Items |-> "none"]
  /\ pc' = [r \in Requests |-> "idle"]
  /\ req' = [r \in Requests |-> NoReq]
  /\ free' = [r \in Requests |-> NoFree]
  /\ UNCHANGED <<caseState, rowState, objects, destroyed, reads>>

RequestStep(r) ==
  \/ Upload(r) \/ NextNumber(r) \/ PutFile(r) \/ PutFails(r)
  \/ CreateRow(r) \/ CreateFails(r) \/ Cleanup(r) \/ RecordUpload(r)
  \/ \E i \in Items : Destroy(r, i)
  \/ CheckStatus(r) \/ CheckHold(r) \/ MarkDestroyed(r)
  \/ DeleteFile(r) \/ DeleteThumb(r) \/ RecordDestroyed(r)
  \/ \E i \in Items : Download(r, i)
  \/ Fetch(r) \/ Served(r) \/ Refuse(r)

ThumbStep(i) == StoreThumb(i) \/ LinkThumb(i) \/ SkipThumb(i) \/ LinkFails(i)

VaultNext ==
  \/ \E r \in Requests : RequestStep(r)
  \/ \E i \in Items : ThumbStep(i)
  \/ Crash

Next == VaultNext \/ CaseChanges

Spec == Init /\ [][Next]_vars

------------------------------------------------------------------------------
(* Properties.                                                              *)

\* Every variable stays in the set it is meant to range over.
TypeOK ==
  /\ status \in Statuses /\ hold \in BOOLEAN
  /\ counter \in Nat /\ keys \in 0..MaxUploads
  /\ row \in [Items -> {"none", "live", "destroyed"}]
  /\ number \in [Items -> Nat]
  /\ thumbKey \subseteq Items /\ files \subseteq Items /\ thumbs \subseteq Items
  /\ thumbJob \in [Items -> {"none", "generate", "link"}]
  /\ destroyed \in [Items -> Nat]
  /\ pc \in [Requests -> Stages]
  /\ req \in [Requests -> Req]
  /\ free \in [Requests -> Free]
  /\ fault \in [Items -> Faults]
  /\ reads \in Nat
  /\ \A r \in Requests :
       pc[r] \notin {"idle", "number", "put"} => req[r].item \in Items

\* Whatever crashes and failures come between the two stores, a row that is not
\* destroyed points at objects that exist: its file, unless the database lied
\* about the insert and Cleanup took the file away, and its thumbnail.
LiveRowsResolve ==
  \A i \in Items : row[i] = "live" =>
    /\ fault[i] # "unsure" => i \in files
    /\ i \in thumbKey => i \in thumbs

BusyWith(i) ==
  {r \in Requests : req[r].item = i /\ pc[r] \in UploadStages \cup Marked}

\* When nobody is creating or destroying an item and nothing went wrong with it,
\* its file exists exactly if its row is live: no object is left behind by the
\* error paths of Upload or by two Destroys of one item.
NoOrphans ==
  \A i \in Items :
    BusyWith(i) = {} /\ fault[i] = "none" => (i \in files <=> row[i] = "live")

\* No two items of a case carry the same evidence number, and none carries a
\* number the counter has not reached.
UniqueNumbers ==
  \A i, j \in Items : row[i] # "none" =>
    /\ number[i] \in 1..counter
    /\ row[j] # "none" /\ number[i] = number[j] => i = j

Destroying(i) == {r \in Requests : pc[r] \in Marked /\ req[r].item = i}

\* Two Destroys of one item may both pass their checks; only one marks the row,
\* deletes the file and writes the custody event.
DestroyedOnce ==
  \A i \in Items :
    /\ destroyed[i] <= 1
    /\ destroyed[i] = 1 => row[i] = "destroyed"
    /\ \A r \in Destroying(i) : /\ row[i] = "destroyed" /\ destroyed[i] = 0
                               /\ Destroying(i) = {r}

\* A legal hold or an archived case protects an item from every Destroy that
\* begins under it: a row is destroyed only by a call during which the hold was
\* off at some moment and the case not archived at some moment.
HoldOutlastsDestroy ==
  [][\A i \in Items : row[i] = "live" /\ row'[i] = "destroyed" =>
       \E r \in Requests : /\ pc[r] = "mark" /\ req[r].item = i
                           /\ free[r].hold /\ free[r].archive]_vars

==============================================================================
