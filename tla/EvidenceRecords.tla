---------------------------- MODULE EvidenceRecords ----------------------------
(***************************************************************************)
(* The records of a case's evidence (internal/evidence): what Upload,      *)
(* UploadNewVersion and UpdateMetadata leave in the table evidence_items,  *)
(* in the custody log and in the search index.  Each call writes the three *)
(* one after the other, with no transaction around them, and goes on when  *)
(* the custody log, the index or the marking of the older versions fails.  *)
(* The checks, the number and the stored object of an upload are in        *)
(* EvidenceVault; here an upload starts with its INSERT.                   *)
(***************************************************************************)
EXTENDS Integers, FiniteSets

CONSTANTS
  Requests,    \* request goroutines
  MaxItems,    \* bound on the rows inserted
  MaxExtras    \* bound on the calls of UpdateMetadata, the items destroyed and
               \* the steps that fail, together

ASSUME RecordsAssumption == MaxItems \in Nat /\ MaxExtras \in Nat

Items  == 1..MaxItems
NoItem == 0
Texts  == 0..MaxExtras   \* a description: 0 as uploaded, n after UPDATE n
NoText == -1

VARIABLES
  row,       \* evidence_items
  files,     \* evidence objects in the store
  log,       \* custody_log, the events of these calls
  index,     \* the description in the search document of an item
  updates,   \* calls of UpdateMetadata so far
  pc,        \* where each request is
  req,       \* what it holds
  faults,    \* steps that failed so far (history)
  lost,      \* events whose insert failed or was never reached (history)
  stale,     \* items whose indexing overlapped or failed (history)
  muddled,   \* items whose versioning overlapped or failed (history)
  branched   \* items versioned while they were not current (history)

history == <<faults, lost, stale, muddled, branched>>
recordVars == <<row, files, log, index, updates, pc, req, history>>

NoRow == [state |-> "none", current |-> FALSE, version |-> 0,
          parent |-> NoItem, text |-> 0]
Row   == [state : {"none", "live", "destroyed"}, current : BOOLEAN, version : Nat,
          parent : Items \cup {NoItem}, text : Texts]

Actions == {"evidence_uploaded", "metadata_updated", "new_version_uploaded"}
Event   == [action : Actions, item : Items, text : Texts]

NoReq == [op |-> "none", item |-> NoItem, root |-> NoItem, version |-> 0, text |-> 0]
Req   == [op : {"none", "upload", "version", "update", "touch"}, item : Items \cup {NoItem},
          root : Items \cup {NoItem}, version : Nat, text : Texts]

Stages == {"idle", "create", "record", "index", "mark", "fields", "note"}

RecordsInit ==
  /\ row = [i \in Items |-> NoRow]
  /\ files = {} /\ log = {}
  /\ index = [i \in Items |-> NoText]
  /\ updates = 0
  /\ pc = [r \in Requests |-> "idle"]
  /\ req = [r \in Requests |-> NoReq]
  /\ faults = 0 /\ lost = {} /\ stale = {} /\ muddled = {} /\ branched = {}

------------------------------------------------------------------------------
(* What the calls read.                                                     *)

Exists(i) == row[i].state # "none"
Used      == {i \in Items : Exists(i)}

\* The item that UploadNewVersion and FindVersionHistory take for the root.
RootId(i) == IF row[i].parent = NoItem THEN i ELSE row[i].parent

\* FindVersionHistory, and the rows MarkPreviousVersions updates.
Versions(root) == {i \in Items : Exists(i) /\ (i = root \/ row[i].parent = root)}

\* A request of UploadNewVersion between its read of the parent and its return.
Versioning == {r \in Requests : req[r].op = "version"}

\* A request that will still write the search document of the item.
Indexing(i) == {r \in Requests : pc[r] \in {"record", "index"} /\ req[r].item = i}

EventOf(q) ==
  [action |-> IF q.op \in {"update", "touch"} THEN "metadata_updated" ELSE "evidence_uploaded",
   item   |-> q.item,
   text   |-> IF q.op = "update" THEN q.text ELSE 0]

NewVersionEvent(q) == [action |-> "new_version_uploaded", item |-> q.item, text |-> 0]

\* The events a request has still to write.
Owed(r) ==
  (IF pc[r] = "record" THEN {EventOf(req[r])} ELSE {})
  \cup (IF req[r].op = "version" /\ pc[r] \in {"record", "index", "mark", "fields", "note"}
        THEN {NewVersionEvent(req[r])} ELSE {})

Goto(r, stage, q) ==
  /\ pc' = [pc EXCEPT ![r] = stage]
  /\ req' = [req EXCEPT ![r] = q]

Return(r) == Goto(r, "idle", NoReq)

\* One more extra is within the bound.
Spare == updates + faults + Cardinality({i \in Items : row[i].state = "destroyed"}) < MaxExtras

\* A step fails, or it does not.
Fault   == Spare /\ faults' = faults + 1
NoFault == UNCHANGED faults

------------------------------------------------------------------------------
(* Upload and UploadNewVersion.                                             *)

\* The object is stored, the row inserted: current, version 1, no parent.
Insert(r, q) ==
  LET i == Cardinality(Used) + 1 IN
  /\ i \in Items
  /\ row' = [row EXCEPT ![i] = [NoRow EXCEPT !.state = "live", !.current = TRUE,
                                             !.version = 1]]
  /\ files' = files \cup {i}
  /\ Goto(r, "record", [q EXCEPT !.item = i])

(* Upload, up to the row.                                                   *)
Upload(r) ==
  /\ pc[r] = "idle"
  /\ Insert(r, [NoReq EXCEPT !.op = "upload"])
  /\ UNCHANGED <<log, index, updates, history>>

(* FindByID reads the parent, which must not be destroyed: its root and its *)
(* version are what the new row will be given.                              *)
UploadNewVersion(r, p) ==
  /\ pc[r] = "idle"
  /\ row[p].state = "live"
  /\ Goto(r, "create", [NoReq EXCEPT !.op = "version", !.root = RootId(p),
                                     !.version = row[p].version + 1])
  /\ muddled' = muddled \cup
       UNION {{RootId(p), req[q].root} :
              q \in {q \in Versioning : {p, RootId(p)} \cap {req[q].item, req[q].root} # {}}}
  /\ branched' = IF row[p].current THEN branched ELSE branched \cup {RootId(p)}
  /\ UNCHANGED <<row, files, log, index, updates, faults, lost, stale>>

(* The upload of the new version, up to the row.                            *)
CreateVersion(r) ==
  /\ pc[r] = "create"
  /\ Insert(r, req[r])
  /\ UNCHANGED <<log, index, updates, history>>

(* The upload of the new version is refused or fails.                       *)
UploadFails(r) ==
  /\ pc[r] = "create"
  /\ Return(r)
  /\ UNCHANGED <<row, files, log, index, updates, history>>

(* Seeded bug: only the first version is marked.                            *)
MarkFirstVersion(r) ==
  /\ pc[r] = "mark"
  /\ row' = [row EXCEPT ![req[r].root].current = FALSE]
  /\ NoFault
  /\ Goto(r, "fields", req[r])
  /\ UNCHANGED <<files, log, index, updates, lost, stale, muddled, branched>>

(* MarkPreviousVersions on the root read at the start; an error is logged.  *)
MarkPreviousVersions(r) ==
  /\ pc[r] = "mark"
  /\ \/ /\ row' = [i \in Items |-> IF i \in Versions(req[r].root)
                                   THEN [row[i] EXCEPT !.current = FALSE] ELSE row[i]]
        /\ NoFault /\ UNCHANGED muddled
     \/ /\ Fault
        /\ muddled' = muddled \cup {req[r].root, req[r].item}
        /\ UNCHANGED row
  /\ Goto(r, "fields", req[r])
  /\ UNCHANGED <<files, log, index, updates, lost, stale, branched>>

(* setVersionFields: parent, version and is_current in one UPDATE; an error *)
(* is logged.                                                               *)
UpdateVersionFields(r) ==
  /\ pc[r] = "fields"
  /\ \/ /\ row' = [row EXCEPT ![req[r].item] =
                     [@ EXCEPT !.parent = req[r].root, !.version = req[r].version,
                               !.current = TRUE]]
        /\ NoFault /\ UNCHANGED muddled
     \/ /\ Fault
        /\ muddled' = muddled \cup {req[r].root, req[r].item}
        /\ UNCHANGED row
  /\ Goto(r, "note", req[r])
  /\ UNCHANGED <<files, log, index, updates, lost, stale, branched>>

(* The event new_version_uploaded, and the read of the result.              *)
RecordVersion(r) ==
  /\ pc[r] = "note"
  /\ \/ log' = log \cup {NewVersionEvent(req[r])} /\ NoFault /\ UNCHANGED lost
     \/ Fault /\ lost' = lost \cup {NewVersionEvent(req[r])} /\ UNCHANGED log
  /\ Return(r)
  /\ UNCHANGED <<row, files, index, updates, stale, muddled, branched>>

------------------------------------------------------------------------------
(* UpdateMetadata.                                                          *)

(* Seeded bug: the document is made from the row as it was before.          *)
UpdateThenIndexOld(r, i) ==
  /\ pc[r] = "idle"
  /\ row[i].state = "live"
  /\ Spare
  /\ updates' = updates + 1
  /\ row' = [row EXCEPT ![i].text = updates']
  /\ Goto(r, "record", [NoReq EXCEPT !.op = "update", !.item = i, !.text = row[i].text])
  /\ stale' = IF Indexing(i) = {} THEN stale ELSE stale \cup {i}
  /\ UNCHANGED <<files, log, index, faults, lost, muddled, branched>>

(* UPDATE ... WHERE destroyed_at IS NULL RETURNING the row.                 *)
UpdateMetadata(r, i) ==
  /\ pc[r] = "idle"
  /\ row[i].state = "live"
  /\ Spare
  /\ updates' = updates + 1
  /\ row' = [row EXCEPT ![i].text = updates']
  /\ Goto(r, "record", [NoReq EXCEPT !.op = "update", !.item = i, !.text = updates'])
  /\ stale' = IF Indexing(i) = {} THEN stale ELSE stale \cup {i}
  /\ UNCHANGED <<files, log, index, faults, lost, muddled, branched>>

(* An update that names no field reads the row by FindByID, destroyed or    *)
(* not, and is recorded and indexed all the same.                           *)
TouchMetadata(r, i) ==
  /\ pc[r] = "idle"
  /\ Exists(i)
  /\ Spare
  /\ updates' = updates + 1
  /\ Goto(r, "record", [NoReq EXCEPT !.op = "touch", !.item = i, !.text = row[i].text])
  /\ stale' = IF Indexing(i) = {} THEN stale ELSE stale \cup {i}
  /\ UNCHANGED <<row, files, log, index, faults, lost, muddled, branched>>

------------------------------------------------------------------------------
(* What Upload and UpdateMetadata share.                                    *)

(* recordCustodyEvent: an error is logged, the call goes on.                *)
RecordEvent(r) ==
  /\ pc[r] = "record"
  /\ \/ log' = log \cup {EventOf(req[r])} /\ NoFault /\ UNCHANGED lost
     \/ Fault /\ lost' = lost \cup {EventOf(req[r])} /\ UNCHANGED log
  /\ Goto(r, "index", req[r])
  /\ UNCHANGED <<row, files, index, updates, stale, muddled, branched>>

(* indexEvidence replaces the whole document by the row the call holds; an  *)
(* error is logged.                                                         *)
IndexEvidence(r) ==
  /\ pc[r] = "index"
  /\ \/ index' = [index EXCEPT ![req[r].item] = req[r].text] /\ NoFault /\ UNCHANGED stale
     \/ Fault /\ stale' = stale \cup {req[r].item} /\ UNCHANGED index
  /\ IF req[r].op = "version" THEN Goto(r, "mark", req[r]) ELSE Return(r)
  /\ UNCHANGED <<row, files, log, updates, lost, muddled, branched>>

(* The process stops, or the goroutine panics, in the middle of a call.     *)
Interrupted(r) ==
  /\ pc[r] \notin {"idle", "create"}
  /\ Fault
  /\ Return(r)
  /\ lost' = lost \cup Owed(r)
  /\ stale' = IF pc[r] \in {"record", "index"} THEN stale \cup {req[r].item} ELSE stale
  /\ muddled' = IF r \in Versioning /\ pc[r] # "note"
                THEN muddled \cup {req[r].root, req[r].item} ELSE muddled
  /\ UNCHANGED <<row, files, log, index, updates, branched>>

------------------------------------------------------------------------------
(* Destroy, which EvidenceVault has in full: the row is marked, later the   *)
(* object goes.  It leaves is_current and the search document alone.        *)
MarkDestroyed(i) ==
  /\ row[i].state = "live"
  /\ Spare
  /\ row' = [row EXCEPT ![i].state = "destroyed"]
  /\ UNCHANGED <<files, log, index, updates, pc, req, history>>

DeleteFile(i) ==
  /\ row[i].state = "destroyed"
  /\ i \in files
  /\ files' = files \ {i}
  /\ UNCHANGED <<row, log, index, updates, pc, req, history>>

RequestStep(r) ==
  \/ Upload(r) \/ CreateVersion(r) \/ UploadFails(r)
  \/ RecordEvent(r) \/ IndexEvidence(r)
  \/ MarkPreviousVersions(r) \/ UpdateVersionFields(r) \/ RecordVersion(r)
  \/ Interrupted(r)
  \/ \E i \in Items : UploadNewVersion(r, i) \/ UpdateMetadata(r, i) \/ TouchMetadata(r, i)

RecordsNext ==
  \/ \E r \in Requests : RequestStep(r)
  \/ \E i \in Items : MarkDestroyed(i) \/ DeleteFile(i)

RecordsSpec == RecordsInit /\ [][RecordsNext]_recordVars

------------------------------------------------------------------------------
(* Properties.                                                              *)

RecordsTypeOK ==
  /\ row \in [Items -> Row]
  /\ files \in SUBSET Items
  /\ log \in SUBSET Event
  /\ index \in [Items -> Texts \cup {NoText}]
  /\ updates \in Texts /\ faults \in Nat
  /\ pc \in [Requests -> Stages]
  /\ req \in [Requests -> Req]
  /\ lost \in SUBSET Event
  /\ stale \in SUBSET Items /\ muddled \in SUBSET Items /\ branched \in SUBSET Items

\* A family is a first version and what was uploaded, however indirectly, as a
\* new version of it.
HoldsVersions(S) == \A i \in Used : row[i].parent \in S => i \in S
Family(root) == {i \in Used : \A S \in SUBSET Used : root \in S /\ HoldsVersions(S) => i \in S}

\* The families no versioning is working on, none overlapped on and none failed on.
Settled ==
  {root \in Used : /\ row[root].parent = NoItem
                   /\ Family(root) \cap muddled = {}
                   /\ \A r \in Versioning : {req[r].item, req[r].root} \cap Family(root) = {}}

(* Of every such family exactly one member is current, so the exports and   *)
(* the verification, which read only current rows, neither drop the item    *)
(* nor count it twice; GetVersionHistory of any member lists the family;    *)
(* and as long as each new version was uploaded to the current one, the     *)
(* members are numbered 1, 2, ... and the current one comes last            *)
(* (UploadNewVersion, MarkPreviousVersions, UpdateVersionFields).           *)
FamiliesStayWhole ==
  \A root \in Settled :
    LET F == Family(root) IN
    /\ \E i \in F : /\ \A j \in F : row[j].current <=> j = i
                    /\ root \notin branched => row[i].version = Cardinality(F)
    /\ \A i \in F : Versions(RootId(i)) = F
    /\ root \notin branched => {row[i].version : i \in F} = 1..Cardinality(F)

(* The search document of an item holds the item's description unless a     *)
(* call on the item is under way, an index call failed, or two calls on it  *)
(* overlapped and indexed in the other order than they wrote                *)
(* (UpdateMetadata, indexEvidence); Destroy leaves the document where it is.*)
IndexKeepsUp ==
  \A i \in Used : Indexing(i) = {} /\ i \notin stale => index[i] = row[i].text

------------------------------------------------------------------------------
(* Why IndexKeepsUp holds.                                                  *)

\* Rows are numbered as they are inserted.
Dense == \E n \in 0..MaxItems : Used = 1..n

\* A request that has inserted or updated a row holds that row.
RequestsHold ==
  \A r \in Requests :
    /\ pc[r] \notin {"idle", "create"} => req[r].item \in Used
    /\ pc[r] \in {"create", "mark", "fields", "note"} => req[r].op = "version"
    /\ pc[r] = "create" => req[r].text = 0
    /\ req[r].op = "version" => req[r].root \in Items

\* Of an item nobody overlapped on, one request at most will write the document,
\* and what it will write is in the row.
OneIndexes ==
  \A i \in Used \ stale :
    /\ \A r, s \in Indexing(i) : r = s
    /\ \A r \in Indexing(i) : req[r].text = row[i].text

RecordsInv == RecordsTypeOK /\ Dense /\ RequestsHold /\ OneIndexes /\ IndexKeepsUp


------------------------------------------------------------------------------
(* Why FamiliesStayWhole holds.                                             *)

\* A parent is a first version, unless versionings of it overlapped.
IsFirst(p) == p \in Used /\ (row[p].parent = NoItem \/ p \in muddled)

\* What a versioning holds: a root that is a first version, and a row of its own
\* that has no parent yet and that nothing calls its parent, unless they overlapped.
Links ==
  /\ \A i \in Used : row[i].parent # NoItem => IsFirst(row[i].parent)
  /\ \A r \in Versioning : pc[r] # "idle" /\ IsFirst(req[r].root)
  /\ \A r \in Versioning : pc[r] = "create" => req[r].item = NoItem
  /\ \A r \in Versioning : pc[r] # "create" =>
       LET n == req[r].item IN
       /\ n # req[r].root
       /\ \A i \in Used : row[i].parent = n => n \in muddled
       /\ \A q \in Versioning : req[q].root = n => n \in muddled
       /\ \A q \in Versioning : req[q].item = n => q = r
       /\ pc[r] # "note" => row[n].parent = NoItem
       /\ pc[r] = "note" => row[n].parent = req[r].root \/ n \in muddled

\* First versions of families on which nothing overlapped or failed, apart from
\* rows that are still to become versions of another item.
Clean ==
  {g \in Used : /\ row[g].parent = NoItem
                /\ Versions(g) \cap muddled = {}
                /\ \A r \in Versioning : req[r].item # g}

Numbered(g) ==
  g \notin branched => {row[i].version : i \in Versions(g)} = 1..Cardinality(Versions(g))

CurrentLast(g) ==
  \E i \in Versions(g) :
    /\ \A j \in Versions(g) : row[j].current <=> j = i
    /\ g \notin branched => row[i].version = Cardinality(Versions(g))

\* One versioning at most works on such a family: it holds the next number, and
\* between its two UPDATEs no member is current.
CleanFamilies ==
  \A g \in Clean :
    /\ Numbered(g)
    /\ (\A r \in Versioning : req[r].root = g => pc[r] # "fields") => CurrentLast(g)
    /\ \A r \in Versioning : req[r].root = g =>
         /\ \A q \in Versioning : req[q].root = g => q = r
         /\ pc[r] # "note" /\ g \notin branched => req[r].version = Cardinality(Versions(g)) + 1
         /\ pc[r] = "fields" => \A j \in Versions(g) : ~ row[j].current

FamiliesInv == RecordsInv /\ Links /\ CleanFamilies

==============================================================================
