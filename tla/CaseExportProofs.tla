--------------------------- MODULE CaseExportProofs ---------------------------
(***************************************************************************)
(* Proofs about EvidenceRecords and CaseExport for any number of requests, *)
(* items, updates, destroys and failures.  The heart is RowsAccounted: at  *)
(* every moment the events of what a row shows are in the custody log,     *)
(* lost, or still owed by a request, and an event never leaves these three.*)
(***************************************************************************)
EXTENDS CaseExport, FiniteSetTheorems, TLAPS

\* The bound on the extras leaves room for one more.
LEMMA SpareText == ASSUME RecordsTypeOK, Spare PROVE updates + 1 \in Texts
<1> DEFINE D == {i \in Items : row[i].state = "destroyed"}
<1>1. IsFiniteSet(Items)
  BY FS_Interval, RecordsAssumption DEF Items
<1>2. IsFiniteSet(D)
  BY <1>1, FS_Subset
<1>3. Cardinality(D) \in Nat
  BY <1>2, FS_CardinalityType
<1>4. updates + faults + Cardinality(D) < MaxExtras
  BY DEF Spare
<1> HIDE DEF D
<1>5. QED
  BY <1>3, <1>4, RecordsAssumption DEF RecordsTypeOK, Texts

\* An item that is inserted is new.
LEMMA InsertedIsNew ==
  ASSUME Dense PROVE Cardinality(Used) + 1 \notin Used
<1>1. PICK n \in 0..MaxItems : Used = 1..n
  BY DEF Dense
<1>2. Cardinality(Used) = n
  BY <1>1, FS_Interval, RecordsAssumption
<1>3. QED
  BY <1>1, <1>2, RecordsAssumption

LEMMA RecordsInitInv == RecordsInit => RecordsInv
<1> SUFFICES ASSUME RecordsInit PROVE RecordsInv
  OBVIOUS
<1> USE DEF RecordsInit, NoRow, NoReq
<1>1. RecordsTypeOK
  BY RecordsAssumption DEF RecordsTypeOK, Row, Req, Texts, NoText, NoItem, Stages
<1>2. Used = {}
  BY DEF Used, Exists
<1>3. Dense
  BY <1>2, RecordsAssumption DEF Dense
<1>4. RequestsHold /\ OneIndexes /\ IndexKeepsUp
  BY <1>2 DEF RequestsHold, OneIndexes, IndexKeepsUp
<1>5. QED
  BY <1>1, <1>3, <1>4 DEF RecordsInv

LEMMA NoReqTyped == NoReq \in Req
BY RecordsAssumption DEF NoReq, Req, Texts

LEMMA GotoTyped ==
  ASSUME RecordsTypeOK, NEW r \in Requests, NEW stage \in Stages, NEW q \in Req,
         Goto(r, stage, q)
  PROVE  pc' \in [Requests -> Stages] /\ req' \in [Requests -> Req]
BY DEF RecordsTypeOK, Goto

\* The events of a request are events.
LEMMA OwedTyped ==
  ASSUME RecordsTypeOK, RequestsHold, NEW r \in Requests PROVE Owed(r) \subseteq Event
<1>1. pc[r] \notin {"idle", "create"} => req[r].item \in Items /\ req[r].text \in Texts
  BY DEF RequestsHold, RecordsTypeOK, Used, Req
<1>2. 0 \in Texts
  BY RecordsAssumption DEF Texts
<1>3. pc[r] = "record" => EventOf(req[r]) \in Event
  BY <1>1, <1>2 DEF EventOf, Event, Actions
<1>4. pc[r] \notin {"idle", "create"} => NewVersionEvent(req[r]) \in Event
  BY <1>1, <1>2 DEF NewVersionEvent, Event, Actions
<1>5. QED
  BY <1>3, <1>4 DEF Owed

\* Every step of the records keeps every variable in its set.
LEMMA RecordsTypeStep == RecordsInv /\ [RecordsNext]_recordVars => RecordsTypeOK'
<1> SUFFICES ASSUME RecordsInv, [RecordsNext]_recordVars PROVE RecordsTypeOK'
  OBVIOUS
<1>0. RecordsTypeOK /\ RequestsHold
  BY DEF RecordsInv
<1> USE <1>0 DEF history
<1>a. NoReq \in Req /\ \A r \in Requests : req[r] \in Req
  BY NoReqTyped DEF RecordsTypeOK
<1>b. ASSUME NEW r \in Requests, Insert(r, NoReq) \/ Insert(r, [NoReq EXCEPT !.op = "upload"])
                                 \/ Insert(r, req[r])
      PROVE  /\ row' \in [Items -> Row] /\ files' \in SUBSET Items
             /\ pc' \in [Requests -> Stages] /\ req' \in [Requests -> Req]
  <2>1. PICK q \in Req : Insert(r, q)
    <3>1. [NoReq EXCEPT !.op = "upload"] \in Req
      BY NoReqTyped DEF Req
    <3>2. QED
      BY <1>a, <1>b, <3>1
  <2> DEFINE i == Cardinality(Used) + 1
  <2>2. i \in Items
    BY <2>1 DEF Insert
  <2>3. [q EXCEPT !.item = i] \in Req
    BY <2>2 DEF Req
  <2>4. [NoRow EXCEPT !.state = "live", !.current = TRUE, !.version = 1] \in Row
    <3>1. NoRow \in Row
      BY RecordsAssumption DEF NoRow, Row, Texts
    <3>2. ASSUME NEW x \in Row
          PROVE  [x EXCEPT !.state = "live", !.current = TRUE, !.version = 1] \in Row
      BY DEF Row
    <3>3. QED
      BY <3>1, <3>2
  <2>5. Goto(r, "record", [q EXCEPT !.item = i])
    BY <2>1 DEF Insert
  <2>6. pc' \in [Requests -> Stages] /\ req' \in [Requests -> Req]
    BY <2>3, <2>5, GotoTyped DEF Stages
  <2>7. row' \in [Items -> Row] /\ files' \in SUBSET Items
    BY <2>1, <2>2, <2>4 DEF Insert, RecordsTypeOK
  <2>8. QED
    BY <2>6, <2>7
<1>c. ASSUME NEW r \in Requests, Return(r)
      PROVE  pc' \in [Requests -> Stages] /\ req' \in [Requests -> Req]
  BY <1>a, <1>c, GotoTyped DEF Return, Stages
<1>d. ASSUME NEW r \in Requests, NEW stage \in Stages, Goto(r, stage, req[r])
      PROVE  pc' \in [Requests -> Stages] /\ req' \in [Requests -> Req]
  BY <1>a, <1>d, GotoTyped
<1>e. Fault \/ NoFault => faults' \in Nat
  BY DEF Fault, NoFault, RecordsTypeOK
<1>f. \A r \in Requests : Owed(r) \subseteq Event
  BY OwedTyped
<1>1. ASSUME NEW r \in Requests, Upload(r) PROVE RecordsTypeOK'
  BY <1>1, <1>b DEF Upload, RecordsTypeOK
<1>2. ASSUME NEW r \in Requests, CreateVersion(r) PROVE RecordsTypeOK'
  BY <1>2, <1>b DEF CreateVersion, RecordsTypeOK
<1>3. ASSUME NEW r \in Requests, NEW p \in Items, UploadNewVersion(r, p) PROVE RecordsTypeOK'
  <2>1. RootId(p) \in Items /\ row[p].version + 1 \in Nat
    BY DEF RootId, RecordsTypeOK, Row
  <2>2. [NoReq EXCEPT !.op = "version", !.root = RootId(p), !.version = row[p].version + 1] \in Req
    BY <2>1, <1>a DEF Req
  <2>3. pc' \in [Requests -> Stages] /\ req' \in [Requests -> Req]
    BY <2>2, <1>3, GotoTyped DEF UploadNewVersion, Stages
  <2>4. \A q \in Versioning : {RootId(p), req[q].root} \subseteq Items
    BY <2>1 DEF Versioning, RequestsHold
  <2>5. muddled' \in SUBSET Items
    BY <1>3, <2>4 DEF UploadNewVersion, RecordsTypeOK
  <2>6. branched' \in SUBSET Items
    BY <1>3, <2>1 DEF UploadNewVersion, RecordsTypeOK
  <2>7. QED
    BY <1>3, <2>3, <2>5, <2>6 DEF UploadNewVersion, RecordsTypeOK
<1>4. ASSUME NEW r \in Requests, UploadFails(r) PROVE RecordsTypeOK'
  BY <1>4, <1>c DEF UploadFails, RecordsTypeOK
<1>5. ASSUME NEW r \in Requests, RecordEvent(r) PROVE RecordsTypeOK'
  <2>1. EventOf(req[r]) \in Event /\ Goto(r, "index", req[r])
    BY <1>5, <1>f DEF RecordEvent, Owed
  <2>2. pc' \in [Requests -> Stages] /\ req' \in [Requests -> Req]
    BY <2>1, <1>d DEF Stages
  <2>3. log' \in SUBSET Event /\ lost' \in SUBSET Event /\ faults' \in Nat
    BY <1>5, <2>1, <1>e DEF RecordEvent, RecordsTypeOK
  <2>4. QED
    BY <1>5, <2>2, <2>3 DEF RecordEvent, RecordsTypeOK
<1>6. ASSUME NEW r \in Requests, IndexEvidence(r) PROVE RecordsTypeOK'
  <2>1. req[r].item \in Items /\ req[r].text \in Texts
    BY <1>6, <1>a DEF IndexEvidence, RequestsHold, Used, Req
  <2>2. pc' \in [Requests -> Stages] /\ req' \in [Requests -> Req]
    BY <1>6, <1>c, <1>d DEF IndexEvidence, Stages
  <2>3. index' \in [Items -> Texts \cup {NoText}] /\ stale' \in SUBSET Items /\ faults' \in Nat
    BY <1>6, <2>1, <1>e DEF IndexEvidence, RecordsTypeOK
  <2>4. QED
    BY <1>6, <2>2, <2>3 DEF IndexEvidence, RecordsTypeOK
<1>7. ASSUME NEW r \in Requests, MarkPreviousVersions(r) \/ UpdateVersionFields(r)
      PROVE  RecordsTypeOK'
  <2>1. req[r].item \in Items /\ req[r].root \in Items /\ req[r].version \in Nat
    BY <1>7, <1>a DEF MarkPreviousVersions, UpdateVersionFields, RequestsHold, Used, Req
  <2>2. pc' \in [Requests -> Stages] /\ req' \in [Requests -> Req]
    BY <1>7, <1>d DEF MarkPreviousVersions, UpdateVersionFields, Stages
  <2>3. row' \in [Items -> Row]
    <3>1. ASSUME NEW x \in Row
          PROVE  /\ [x EXCEPT !.current = FALSE] \in Row
                 /\ [x EXCEPT !.parent = req[r].root, !.version = req[r].version,
                              !.current = TRUE] \in Row
      BY <2>1 DEF Row
    <3>2. CASE MarkPreviousVersions(r)
      BY <3>1, <3>2 DEF MarkPreviousVersions, RecordsTypeOK
    <3>3. CASE UpdateVersionFields(r)
      <4> DEFINE new == [row[req[r].item] EXCEPT !.parent = req[r].root,
                            !.version = req[r].version, !.current = TRUE]
      <4>1. new \in Row
        BY <2>1, <3>1 DEF RecordsTypeOK
      <4>2. row' = [row EXCEPT ![req[r].item] = new] \/ row' = row
        BY <3>3 DEF UpdateVersionFields
      <4> HIDE DEF new
      <4>3. QED
        BY <4>1, <4>2 DEF RecordsTypeOK
    <3>4. QED
      BY <1>7, <3>2, <3>3
  <2>4. muddled' \in SUBSET Items /\ faults' \in Nat
    BY <1>7, <2>1, <1>e DEF MarkPreviousVersions, UpdateVersionFields, RecordsTypeOK
  <2>5. QED
    BY <1>7, <2>2, <2>3, <2>4 DEF MarkPreviousVersions, UpdateVersionFields, RecordsTypeOK
<1>8. ASSUME NEW r \in Requests, RecordVersion(r) PROVE RecordsTypeOK'
  <2>1. NewVersionEvent(req[r]) \in Event /\ Return(r)
    BY <1>8, <1>f DEF RecordVersion, Owed, RequestsHold
  <2>2. log' \in SUBSET Event /\ lost' \in SUBSET Event /\ faults' \in Nat
    BY <1>8, <2>1, <1>e DEF RecordVersion, RecordsTypeOK
  <2>3. QED
    BY <1>8, <2>1, <2>2, <1>c DEF RecordVersion, RecordsTypeOK
<1>9. ASSUME NEW r \in Requests, Interrupted(r) PROVE RecordsTypeOK'
  <2>1. req[r].item \in Items
    BY <1>9 DEF Interrupted, RequestsHold, Used
  <2>2. r \in Versioning => req[r].root \in Items
    BY DEF Versioning, RequestsHold
  <2>3. lost' \in SUBSET Event /\ stale' \in SUBSET Items /\ muddled' \in SUBSET Items
    BY <1>9, <1>f, <2>1, <2>2 DEF Interrupted, RecordsTypeOK
  <2>4. QED
    BY <1>9, <2>3, <1>c, <1>e DEF Interrupted, RecordsTypeOK
<1>10. ASSUME NEW r \in Requests, NEW i \in Items, UpdateMetadata(r, i) \/ TouchMetadata(r, i)
       PROVE  RecordsTypeOK'
  <2>1. updates' \in Texts
    BY <1>10, SpareText DEF UpdateMetadata, TouchMetadata
  <2>2. /\ [NoReq EXCEPT !.op = "update", !.item = i, !.text = updates'] \in Req
        /\ [NoReq EXCEPT !.op = "touch", !.item = i, !.text = row[i].text] \in Req
    BY <1>a, <2>1 DEF Req, RecordsTypeOK, Row
  <2>3. pc' \in [Requests -> Stages] /\ req' \in [Requests -> Req]
    BY <1>10, <2>2, GotoTyped DEF UpdateMetadata, TouchMetadata, Stages
  <2>4. row' \in [Items -> Row] /\ stale' \in SUBSET Items
    BY <1>10, <2>1 DEF UpdateMetadata, TouchMetadata, RecordsTypeOK, Row
  <2>5. QED
    BY <1>10, <2>1, <2>3, <2>4 DEF UpdateMetadata, TouchMetadata, RecordsTypeOK
<1>11. ASSUME NEW i \in Items, MarkDestroyed(i) \/ DeleteFile(i) PROVE RecordsTypeOK'
  BY <1>11 DEF MarkDestroyed, DeleteFile, RecordsTypeOK, Row
<1>12. CASE UNCHANGED recordVars
  BY <1>12 DEF recordVars, RecordsTypeOK
<1>13. QED
  BY <1>1, <1>2, <1>3, <1>4, <1>5, <1>6, <1>7, <1>8, <1>9, <1>10, <1>11, <1>12
     DEF RecordsNext, RequestStep

\* An upload takes the next number.
LEMMA InsertNext ==
  ASSUME RecordsTypeOK, NEW r \in Requests, NEW q, Insert(r, q)
  PROVE  LET i == Cardinality(Used) + 1 IN
         /\ i \in Items /\ Used' = Used \cup {i}
         /\ row'[i].text = 0 /\ row'[i].version = 1
         /\ row'[i].parent = NoItem /\ row'[i].current
         /\ \A j \in Items \ {i} : row'[j] = row[j]
         /\ pc' = [pc EXCEPT ![r] = "record"]
         /\ req' = [req EXCEPT ![r] = [q EXCEPT !.item = i]]
<1> DEFINE i == Cardinality(Used) + 1
           new == [NoRow EXCEPT !.state = "live", !.current = TRUE, !.version = 1]
<1>1. i \in Items /\ row' = [row EXCEPT ![i] = new]
  BY DEF Insert
<1>2. /\ new.state = "live" /\ new.text = 0 /\ new.version = 1
      /\ new.parent = NoItem /\ new.current
  BY DEF NoRow
<1> HIDE DEF i, new
<1>3. row'[i] = new /\ \A j \in Items \ {i} : row'[j] = row[j]
  BY <1>1 DEF RecordsTypeOK
<1>4. Used' = Used \cup {i}
  BY <1>1, <1>2, <1>3 DEF Used, Exists
<1>5. pc' = [pc EXCEPT ![r] = "record"] /\ req' = [req EXCEPT ![r] = [q EXCEPT !.item = i]]
  BY DEF Insert, Goto, i
<1>6. QED
  BY <1>1, <1>2, <1>3, <1>4, <1>5 DEF i

\* Versioning changes neither the state nor the description of a row, and the
\* number only of the row it has inserted.
LEMMA VersioningRows ==
  ASSUME RecordsTypeOK, NEW r \in Requests, MarkPreviousVersions(r) \/ UpdateVersionFields(r),
         NEW j \in Items
  PROVE  /\ row'[j].state = row[j].state /\ row'[j].text = row[j].text
         /\ \/ row'[j].version = row[j].version
            \/ pc[r] = "fields" /\ j = req[r].item /\ row'[j].version = req[r].version
<1>1. CASE MarkPreviousVersions(r)
  BY <1>1 DEF MarkPreviousVersions, RecordsTypeOK, Row
<1>2. CASE UpdateVersionFields(r)
  <2> DEFINE i   == req[r].item
             new == [row[i] EXCEPT !.parent = req[r].root, !.version = req[r].version,
                                   !.current = TRUE]
  <2>1. row[j] \in Row
    BY DEF RecordsTypeOK
  <2>2. row' = [row EXCEPT ![i] = new] \/ row' = row
    BY <1>2 DEF UpdateVersionFields
  <2>3. j = i => new.state = row[j].state /\ new.text = row[j].text /\ new.version = req[r].version
    BY <2>1 DEF Row
  <2> HIDE DEF new
  <2>4. QED
    BY <1>2, <2>2, <2>3 DEF RecordsTypeOK, UpdateVersionFields
<1>3. QED
  BY <1>1, <1>2

\* Every other step leaves the rows that there are.
LEMMA UsedElse ==
  ASSUME RecordsTypeOK, RequestsHold, [RecordsNext]_recordVars,
         \A r \in Requests : ~ Upload(r) /\ ~ CreateVersion(r)
  PROVE  Used' = Used
<1> USE DEF RecordsTypeOK, Row, Used, Exists, history
<1>1. ASSUME NEW r \in Requests, RecordEvent(r) \/ IndexEvidence(r) \/ UploadFails(r)
                                 \/ RecordVersion(r) \/ Interrupted(r)
      PROVE  row' = row
  BY <1>1 DEF RecordEvent, IndexEvidence, UploadFails, RecordVersion, Interrupted
<1>2. ASSUME NEW r \in Requests, MarkPreviousVersions(r) \/ UpdateVersionFields(r)
      PROVE  Used' = Used
  BY <1>2, VersioningRows
<1>3. ASSUME NEW r \in Requests, NEW i \in Items,
             UploadNewVersion(r, i) \/ UpdateMetadata(r, i) \/ TouchMetadata(r, i)
      PROVE  Used' = Used
  BY <1>3 DEF UploadNewVersion, UpdateMetadata, TouchMetadata
<1>4. ASSUME NEW i \in Items, MarkDestroyed(i) \/ DeleteFile(i) PROVE Used' = Used
  BY <1>4 DEF MarkDestroyed, DeleteFile
<1>5. QED
  BY <1>1, <1>2, <1>3, <1>4 DEF RecordsNext, RequestStep, recordVars

LEMMA UsedGrows ==
  ASSUME RecordsTypeOK, RequestsHold, [RecordsNext]_recordVars PROVE Used \subseteq Used'
BY InsertNext, UsedElse DEF Upload, CreateVersion

LEMMA DenseStep ==
  ASSUME RecordsTypeOK, RequestsHold, Dense, [RecordsNext]_recordVars PROVE Dense'
<1>1. PICK n \in 0..MaxItems : Used = 1..n
  BY DEF Dense
<1>2. Cardinality(Used) = n
  BY <1>1, FS_Interval, RecordsAssumption
<1>3. CASE \E r \in Requests : Upload(r) \/ CreateVersion(r)
  <2>1. n + 1 \in Items /\ Used' = Used \cup {n + 1}
    BY <1>2, <1>3, InsertNext DEF Upload, CreateVersion
  <2>2. Used' = 1..(n + 1) /\ n + 1 \in 0..MaxItems
    BY <1>1, <2>1, RecordsAssumption DEF Items
  <2>3. QED
    BY <2>2 DEF Dense
<1>4. CASE ~ \E r \in Requests : Upload(r) \/ CreateVersion(r)
  <2>1. Used' = Used
    BY <1>4, UsedElse
  <2>2. QED
    BY <1>1, <2>1 DEF Dense
<1>5. QED
  BY <1>3, <1>4

LEMMA RequestsHoldStep ==
  ASSUME RecordsTypeOK, RequestsHold, [RecordsNext]_recordVars PROVE RequestsHold'
<1>0. Used \subseteq Used'
  BY UsedGrows
<1> DEFINE Holds(s) ==
      /\ pc[s] \notin {"idle", "create"} => req[s].item \in Used
      /\ pc[s] \in {"create", "mark", "fields", "note"} => req[s].op = "version"
      /\ pc[s] = "create" => req[s].text = 0
      /\ req[s].op = "version" => req[s].root \in Items
<1>1. SUFFICES ASSUME NEW s \in Requests PROVE Holds(s)'
  BY DEF RequestsHold
<1>2. Holds(s)
  BY DEF RequestsHold
<1>3. CASE pc'[s] = pc[s] /\ req'[s] = req[s]
  BY <1>0, <1>2, <1>3
<1> USE DEF RecordsTypeOK, Goto, Return, NoReq
<1>4. ASSUME NEW r \in Requests, NEW q \in Req, Insert(r, q), q.op = "version" => q.root \in Items
      PROVE  Holds(s)'
  <2> DEFINE i == Cardinality(Used) + 1
  <2>1. /\ i \in Used' /\ pc' = [pc EXCEPT ![r] = "record"]
        /\ req' = [req EXCEPT ![r] = [q EXCEPT !.item = i]]
    BY <1>4, InsertNext
  <2> HIDE DEF i
  <2>2. CASE s = r
    BY <1>4, <2>1, <2>2 DEF Req
  <2>3. CASE s # r
    BY <1>3, <2>1, <2>3
  <2>4. QED
    BY <2>2, <2>3
<1>5. ASSUME NEW r \in Requests, Upload(r) \/ CreateVersion(r) PROVE Holds(s)'
  <2>1. [NoReq EXCEPT !.op = "upload"] \in Req
    BY NoReqTyped DEF Req
  <2>2. CASE Upload(r)
    BY <1>4, <2>1, <2>2 DEF Upload
  <2>3. CASE CreateVersion(r)
    BY <1>4, <2>3 DEF CreateVersion, RequestsHold
  <2>4. QED
    BY <1>5, <2>2, <2>3
<1>6. ASSUME NEW r \in Requests, NEW p \in Items, UploadNewVersion(r, p) PROVE Holds(s)'
  BY <1>3, <1>6 DEF UploadNewVersion, RootId, Row
<1>7. ASSUME NEW r \in Requests, UploadFails(r) \/ RecordVersion(r) \/ Interrupted(r) PROVE Holds(s)'
  BY <1>3, <1>7 DEF UploadFails, RecordVersion, Interrupted
<1>8. ASSUME NEW r \in Requests, RecordEvent(r) \/ IndexEvidence(r) PROVE Holds(s)'
  BY <1>0, <1>2, <1>3, <1>8 DEF RecordEvent, IndexEvidence
<1>9. ASSUME NEW r \in Requests, MarkPreviousVersions(r) \/ UpdateVersionFields(r) PROVE Holds(s)'
  BY <1>0, <1>2, <1>3, <1>9 DEF MarkPreviousVersions, UpdateVersionFields
<1>10. ASSUME NEW r \in Requests, NEW i \in Items, UpdateMetadata(r, i) \/ TouchMetadata(r, i)
       PROVE  Holds(s)'
  <2>1. i \in Used
    BY <1>10 DEF UpdateMetadata, TouchMetadata, Used, Exists
  <2>2. /\ pc' = [pc EXCEPT ![r] = "record"]
        /\ req'[r].item = i /\ req'[r].op # "version"
        /\ s # r => req'[s] = req[s]
    BY <1>10 DEF UpdateMetadata, TouchMetadata
  <2>3. QED
    BY <1>0, <1>3, <2>1, <2>2
<1>11. ASSUME NEW i \in Items, MarkDestroyed(i) \/ DeleteFile(i) PROVE Holds(s)'
  BY <1>3, <1>11 DEF MarkDestroyed, DeleteFile
<1>12. CASE UNCHANGED recordVars
  BY <1>3, <1>12 DEF recordVars
<1>13. QED
  BY <1>5, <1>6, <1>7, <1>8, <1>9, <1>10, <1>11, <1>12 DEF RecordsNext, RequestStep

IndexInv == OneIndexes /\ IndexKeepsUp

\* UpdateMetadata: the request holds the description that is in the row, or that
\* it has just put there.
LEMMA MetadataWrites ==
  ASSUME RecordsTypeOK, NEW r \in Requests, NEW j \in Items,
         UpdateMetadata(r, j) \/ TouchMetadata(r, j)
  PROVE  /\ \A s \in Requests \ {r} : pc'[s] = pc[s] /\ req'[s] = req[s]
         /\ pc[r] = "idle" /\ pc'[r] = "record" /\ req'[r].item = j
         /\ req'[r].text = row'[j].text
         /\ \/ req'[r].op = "update"
            \/ req'[r].op = "touch" /\ row' = row
         /\ row'[j].state = row[j].state /\ row'[j].version = row[j].version
         /\ \A i \in Items \ {j} : row'[i] = row[i]
         /\ UNCHANGED <<log, lost, index>> /\ stale \subseteq stale'
<1> USE DEF RecordsTypeOK, Goto, NoReq
<1>1. CASE UpdateMetadata(r, j)
  <2> DEFINE new == [row[j] EXCEPT !.text = updates']
             q   == [NoReq EXCEPT !.op = "update", !.item = j, !.text = updates']
  <2>1. row' = [row EXCEPT ![j] = new] /\ req' = [req EXCEPT ![r] = q]
    BY <1>1 DEF UpdateMetadata
  <2>2. new.text = updates' /\ new.state = row[j].state /\ new.version = row[j].version
    BY DEF Row
  <2>3. q.item = j /\ q.op = "update" /\ q.text = updates'
    OBVIOUS
  <2> HIDE DEF new, q
  <2>4. row'[j] = new /\ req'[r] = q /\ \A i \in Items \ {j} : row'[i] = row[i]
    BY <2>1
  <2>5. QED
    BY <1>1, <2>1, <2>2, <2>3, <2>4 DEF UpdateMetadata
<1>2. CASE TouchMetadata(r, j)
  BY <1>2 DEF TouchMetadata
<1>3. QED
  BY <1>1, <1>2

\* The document of an item follows the row, or a request that will write it does.
LEMMA IndexStep ==
  ASSUME RecordsTypeOK, RequestsHold, Dense, IndexInv, [RecordsNext]_recordVars PROVE IndexInv'
<1> DEFINE Follows(i) ==
      i \notin stale =>
        /\ \A r, s \in Indexing(i) : r = s
        /\ \A r \in Indexing(i) : req[r].text = row[i].text
        /\ Indexing(i) = {} => index[i] = row[i].text
<1>1. SUFFICES ASSUME NEW i \in Used' PROVE Follows(i)'
  BY DEF IndexInv, OneIndexes, IndexKeepsUp
<1>2. i \in Items /\ (i \in Used => Follows(i))
  BY DEF Used, IndexInv, OneIndexes, IndexKeepsUp
<1>3. \A s \in Requests : s \in Indexing(i) => i \in Used
  BY DEF Indexing, RequestsHold
<1> USE DEF RecordsTypeOK, Goto, Return, NoReq, history
<1>4. ASSUME NEW r \in Requests, NEW q \in Req, Insert(r, q), pc[r] \in {"idle", "create"},
             UNCHANGED <<stale, index>>, q.text = 0
      PROVE  Follows(i)'
  <2> DEFINE n == Cardinality(Used) + 1
  <2>1. /\ n \in Items /\ Used' = Used \cup {n} /\ row'[n].text = 0
        /\ \A j \in Items \ {n} : row'[j] = row[j]
        /\ pc' = [pc EXCEPT ![r] = "record"]
        /\ req' = [req EXCEPT ![r] = [q EXCEPT !.item = n]]
    BY <1>4, InsertNext
  <2>2. n \notin Used
    BY InsertedIsNew
  <2> HIDE DEF n
  <2>3. req'[r].item = n /\ req'[r].text = 0
    BY <1>4, <2>1 DEF Req
  <2>4. CASE i = n
    <3>1. Indexing(i) = {}
      BY <1>3, <2>2, <2>4 DEF Indexing
    <3>2. Indexing(i)' = {r}
      BY <2>1, <2>3, <2>4, <3>1 DEF Indexing
    <3>3. QED
      BY <2>1, <2>3, <2>4, <3>2
  <2>5. CASE i # n
    <3>1. Indexing(i)' = Indexing(i) /\ r \notin Indexing(i)
      BY <1>4, <2>1, <2>3, <2>5 DEF Indexing
    <3>2. QED
      BY <1>2, <1>4, <2>1, <2>5, <3>1 DEF Indexing
  <2>6. QED
    BY <2>4, <2>5
<1>5. ASSUME NEW r \in Requests, Upload(r) \/ CreateVersion(r) PROVE Follows(i)'
  <2>1. [NoReq EXCEPT !.op = "upload"] \in Req /\ [NoReq EXCEPT !.op = "upload"].text = 0
    BY NoReqTyped DEF Req
  <2>2. CASE Upload(r)
    BY <1>4, <2>1, <2>2 DEF Upload
  <2>3. CASE CreateVersion(r)
    BY <1>4, <2>3 DEF CreateVersion, RequestsHold
  <2>4. QED
    BY <1>5, <2>2, <2>3
<1>6. CASE \A r \in Requests : ~ Upload(r) /\ ~ CreateVersion(r)
  <2>1. i \in Used /\ Follows(i)
    BY <1>2, <1>6, UsedElse
  <2>2. ASSUME Indexing(i)' = Indexing(i), \A s \in Indexing(i) : req'[s].text = req[s].text,
               row'[i].text = row[i].text, index'[i] = index[i], stale \subseteq stale'
        PROVE  Follows(i)'
    BY <2>1, <2>2
  <2>3. ASSUME NEW r \in Requests, NEW p \in Items, UploadNewVersion(r, p) PROVE Follows(i)'
    BY <2>2, <2>3 DEF UploadNewVersion, Indexing
  <2>4. ASSUME NEW r \in Requests, UploadFails(r) \/ RecordVersion(r) PROVE Follows(i)'
    BY <2>2, <2>4 DEF UploadFails, RecordVersion, Indexing
  <2>5. ASSUME NEW r \in Requests, RecordEvent(r) PROVE Follows(i)'
    BY <2>2, <2>5 DEF RecordEvent, Indexing
  <2>6. ASSUME NEW r \in Requests, MarkPreviousVersions(r) \/ UpdateVersionFields(r)
        PROVE  Follows(i)'
    <3>1. row'[i].text = row[i].text
      BY <1>2, <2>6, VersioningRows
    <3>2. Indexing(i)' = Indexing(i) /\ req' = req /\ UNCHANGED <<index, stale>>
      BY <2>6 DEF MarkPreviousVersions, UpdateVersionFields, Indexing
    <3>3. QED
      BY <2>2, <3>1, <3>2
  <2>7. ASSUME NEW r \in Requests, IndexEvidence(r) PROVE Follows(i)'
    <3>1. \A s \in Requests \ {r} : pc'[s] = pc[s] /\ req'[s] = req[s]
      BY <2>7 DEF IndexEvidence
    <3>2. pc'[r] \notin {"record", "index"} /\ pc[r] = "index" /\ row' = row
          /\ stale \subseteq stale'
      BY <2>7 DEF IndexEvidence
    <3>3. CASE req[r].item = i
      <4>1. r \in Indexing(i)
        BY <3>2, <3>3 DEF Indexing
      <4>2. i \notin stale => Indexing(i) = {r} /\ req[r].text = row[i].text
        BY <2>1, <4>1
      <4>3. i \notin stale' => Indexing(i)' = {}
        BY <3>1, <3>2, <4>2 DEF Indexing
      <4>4. i \notin stale' => index'[i] = req[r].text
        BY <1>2, <2>7, <3>3 DEF IndexEvidence
      <4>5. QED
        BY <3>2, <4>2, <4>3, <4>4
    <3>4. CASE req[r].item # i
      <4>1. Indexing(i)' = Indexing(i) /\ r \notin Indexing(i)
        BY <3>1, <3>2, <3>4 DEF Indexing
      <4>2. index'[i] = index[i]
        BY <1>2, <2>7, <3>4 DEF IndexEvidence
      <4>3. QED
        BY <2>2, <3>1, <3>2, <4>1, <4>2 DEF Indexing
    <3>5. QED
      BY <3>3, <3>4
  <2>8. ASSUME NEW r \in Requests, Interrupted(r) PROVE Follows(i)'
    <3>1. /\ \A s \in Requests \ {r} : pc'[s] = pc[s] /\ req'[s] = req[s]
          /\ pc'[r] = "idle" /\ UNCHANGED <<row, index>> /\ stale \subseteq stale'
      BY <2>8 DEF Interrupted
    <3>2. CASE r \in Indexing(i)
      BY <2>8, <3>2 DEF Interrupted, Indexing
    <3>3. CASE r \notin Indexing(i)
      <4>1. Indexing(i)' = Indexing(i)
        BY <3>1, <3>3 DEF Indexing
      <4>2. QED
        BY <2>2, <3>1, <3>3, <4>1 DEF Indexing
    <3>4. QED
      BY <3>2, <3>3
  <2>9. ASSUME NEW r \in Requests, NEW j \in Items, UpdateMetadata(r, j) \/ TouchMetadata(r, j)
        PROVE  Follows(i)'
    <3>1. /\ \A s \in Requests \ {r} : pc'[s] = pc[s] /\ req'[s] = req[s]
          /\ pc[r] = "idle" /\ pc'[r] = "record" /\ req'[r].item = j
          /\ index' = index /\ stale \subseteq stale'
          /\ req'[r].text = row'[j].text
          /\ i # j => row'[i] = row[i]
      BY <1>2, <2>9, MetadataWrites
    <3>2. CASE i = j
      <4>1. i \notin stale' => Indexing(i) = {}
        BY <2>9, <3>2 DEF UpdateMetadata, TouchMetadata
      <4>2. i \notin stale' => Indexing(i)' = {r}
        BY <3>1, <3>2, <4>1 DEF Indexing
      <4>3. QED
        BY <3>1, <3>2, <4>2
    <3>3. CASE i # j
      <4>1. Indexing(i)' = Indexing(i) /\ r \notin Indexing(i)
        BY <3>1, <3>3 DEF Indexing
      <4>2. QED
        BY <2>2, <3>1, <3>3, <4>1 DEF Indexing
    <3>4. QED
      BY <3>2, <3>3
  <2>10. ASSUME NEW j \in Items, MarkDestroyed(j) \/ DeleteFile(j) PROVE Follows(i)'
    <3>1. row'[i].text = row[i].text /\ UNCHANGED <<pc, req, index, stale>>
      BY <1>2, <2>10 DEF MarkDestroyed, DeleteFile, Row
    <3>2. QED
      BY <2>2, <3>1 DEF Indexing
  <2>11. CASE UNCHANGED recordVars
    BY <2>2, <2>11 DEF recordVars, Indexing
  <2>12. QED
    BY <1>6, <2>3, <2>4, <2>5, <2>6, <2>7, <2>8, <2>9, <2>10, <2>11
       DEF RecordsNext, RequestStep
<1>7. QED
  BY <1>5, <1>6

LEMMA RecordsStep == RecordsInv /\ [RecordsNext]_recordVars => RecordsInv'
BY RecordsTypeStep, DenseStep, RequestsHoldStep, IndexStep DEF RecordsInv, IndexInv

(* The records keep RecordsInv.                                             *)
THEOREM RecordsInvariant == RecordsSpec => []RecordsInv
BY RecordsInitInv, RecordsStep, PTL DEF RecordsSpec

(* For any number of requests, items and failures: a search document no     *)
(* call is working on, whose calls did not overlap or fail, holds the       *)
(* item's description (IndexKeepsUp).                                       *)
THEOREM IndexAlwaysKeepsUp == RecordsSpec => []IndexKeepsUp
<1>1. RecordsInv => IndexKeepsUp
  BY DEF RecordsInv
<1>2. QED
  BY <1>1, RecordsInvariant, PTL

------------------------------------------------------------------------------
(* Families.  A step either leaves what makes a family of the rows there    *)
(* are, or is an insert, the marking or the numbering of one versioning.    *)

\* The step leaves the parents, the numbers and the marks of the rows in S.
KeepsRows(S) ==
  \A i \in S : /\ row'[i].parent = row[i].parent
               /\ row'[i].version = row[i].version
               /\ row'[i].current = row[i].current

MarksGrow == muddled \subseteq muddled' /\ branched \subseteq branched'

\* The request is at the same point of its versioning, or an UPDATE of it failed.
GoesOn(s) ==
  /\ req'[s] = req[s]
  /\ \/ pc'[s] = pc[s]
     \/ {pc[s], pc'[s]} \subseteq {"record", "index", "mark"}
     \/ /\ <<pc[s], pc'[s]>> \in {<<"mark", "fields">>, <<"fields", "note">>}
        /\ {req[s].root, req[s].item} \subseteq muddled'

LEMMA VersionsFinite ==
  ASSUME NEW g PROVE IsFiniteSet(Versions(g)) /\ Cardinality(Versions(g)) \in Nat
<1>1. IsFiniteSet(Items)
  BY FS_Interval, RecordsAssumption DEF Items
<1>2. IsFiniteSet(Versions(g))
  BY <1>1, FS_Subset DEF Versions
<1>3. QED
  BY <1>2, FS_CardinalityType

LEMMA SameVersions ==
  ASSUME Used' = Used, KeepsRows(Used), NEW g PROVE Versions(g)' = Versions(g)
<1>1. Versions(g) = {i \in Used : i = g \/ row[i].parent = g}
  BY DEF Versions, Used
<1>2. Versions(g)' = {i \in Used' : i = g \/ row'[i].parent = g}
  BY DEF Versions, Used, Exists
<1>3. QED
  BY <1>1, <1>2 DEF KeepsRows

LEMMA FamilyKept ==
  ASSUME NEW g, Versions(g)' = Versions(g), KeepsRows(Versions(g)), branched \subseteq branched'
  PROVE  (Numbered(g) => Numbered(g)') /\ (CurrentLast(g) => CurrentLast(g)')
<1>1. {row'[i].version : i \in Versions(g)'} = {row[i].version : i \in Versions(g)}
  BY DEF KeepsRows
<1>2. Numbered(g) => Numbered(g)'
  BY <1>1 DEF Numbered
<1>3. CurrentLast(g) => CurrentLast(g)'
  BY DEF CurrentLast, KeepsRows
<1>4. QED
  BY <1>2, <1>3

\* A versioning is in none of the items of a clean family but through its root.
LEMMA OutOfFamily ==
  ASSUME RecordsTypeOK, Links, NEW g \in Clean, NEW p, IsFirst(p), p # g
  PROVE  Versions(g) \cap Versions(p) = {}
<1>1. SUFFICES ASSUME NEW i \in Versions(g), i \in Versions(p) PROVE FALSE
  OBVIOUS
<1>2. row[g].parent = NoItem /\ g \in Items /\ p \in Items /\ NoItem \notin Items
  BY DEF Clean, IsFirst, Used, Items, NoItem
<1>3. i # g
  BY <1>1, <1>2 DEF Versions
<1>4. row[i].parent = g
  BY <1>3 DEF Versions
<1>5. i = p
  BY <1>1, <1>4 DEF Versions
<1>6. i \in muddled
  BY <1>2, <1>4, <1>5 DEF IsFirst
<1>7. QED
  BY <1>6 DEF Clean

LEMMA LinksInit == RecordsInit => Links /\ CleanFamilies
BY DEF RecordsInit, NoRow, NoReq, Links, CleanFamilies, Clean, Used, Exists, Versioning

\* What every step that writes no parent, number or mark keeps.
LEMMA StillStep ==
  ASSUME RecordsTypeOK, RequestsHold, Links, CleanFamilies,
         Used' = Used, KeepsRows(Used), MarksGrow, Versioning' \subseteq Versioning,
         \A s \in Versioning' : GoesOn(s),
         \A s \in Versioning \ Versioning' :
            pc[s] \in {"create", "note"} \/ {req[s].root, req[s].item} \subseteq muddled'
  PROVE  Links' /\ CleanFamilies'
<1> USE DEF MarksGrow
<1>1. NoItem \notin Used /\ \A s \in Versioning : req[s].root # NoItem
  BY DEF Links, IsFirst, Used, Items, NoItem
<1>2. Links'
  <2>1. (\A i \in Used : row[i].parent # NoItem => IsFirst(row[i].parent))'
    <3>1. ASSUME NEW i \in Used, row'[i].parent # NoItem PROVE IsFirst(row[i].parent)'
      <4>1. row'[i].parent = row[i].parent /\ IsFirst(row[i].parent)
        BY <3>1 DEF KeepsRows, Links
      <4>2. PICK p : p = row[i].parent
        OBVIOUS
      <4>3. p \in Used /\ (row'[p].parent = NoItem \/ p \in muddled')
        BY <4>1, <4>2 DEF IsFirst, KeepsRows
      <4>4. QED
        BY <4>1, <4>2, <4>3 DEF IsFirst
    <3>2. QED
      BY <3>1
  <2>2. ASSUME NEW r \in Versioning'
        PROVE  /\ pc'[r] # "idle" /\ IsFirst(req[r].root)' /\ req'[r] = req[r]
               /\ pc'[r] = "create" <=> pc[r] = "create"
    <3>1. r \in Versioning /\ GoesOn(r)
      BY <2>2
    <3>2. pc[r] # "idle" /\ IsFirst(req[r].root)
      BY <3>1 DEF Links
    <3>3. req[r].root \in Used /\ (row[req[r].root].parent = NoItem \/ req[r].root \in muddled)
      BY <3>2 DEF IsFirst
    <3>4. req'[r] = req[r]
      BY <3>1 DEF GoesOn
    <3>5. IsFirst(req[r].root)'
      BY <3>3, <3>4 DEF IsFirst, KeepsRows
    <3>6. QED
      BY <3>1, <3>2, <3>4, <3>5 DEF GoesOn
  <2>3. ASSUME NEW r \in Versioning', pc'[r] = "create" PROVE req'[r].item = NoItem
    BY <2>2, <2>3 DEF Links
  <2>4. ASSUME NEW r \in Versioning', pc'[r] # "create"
        PROVE  LET n == req'[r].item IN
               /\ n # req'[r].root
               /\ \A i \in Used' : row'[i].parent = n => n \in muddled'
               /\ \A q \in Versioning' : req'[q].root = n => n \in muddled'
               /\ \A q \in Versioning' : req'[q].item = n => q = r
               /\ pc'[r] # "note" => row'[n].parent = NoItem
               /\ pc'[r] = "note" => row'[n].parent = req'[r].root \/ n \in muddled'
    <3> DEFINE n == req[r].item
    <3>1. r \in Versioning /\ pc[r] # "create" /\ req'[r] = req[r]
      BY <2>2, <2>4
    <3>2. n \in Used
      BY <3>1, <2>2 DEF RequestsHold, Links, Versioning
    <3>3. row'[n].parent = row[n].parent
      BY <3>2 DEF KeepsRows
    <3>4. pc'[r] # "note" => pc[r] # "note"
      BY <2>4 DEF GoesOn
    <3>5. pc'[r] = "note" => pc[r] = "note" \/ n \in muddled'
      BY <2>4 DEF GoesOn
    <3>6. \A i \in Used' : row'[i].parent = n => n \in muddled'
      BY <3>1 DEF Links, KeepsRows
    <3>7. \A q \in Versioning' : q \in Versioning /\ req'[q] = req[q]
      BY <2>2
    <3>8. n # req[r].root /\ (pc[r] # "note" => row[n].parent = NoItem)
          /\ (pc[r] = "note" => row[n].parent = req[r].root \/ n \in muddled)
          /\ \A q \in Versioning : /\ req[q].root = n => n \in muddled
                                   /\ req[q].item = n => q = r
      BY <3>1 DEF Links
    <3> HIDE DEF n
    <3>9. QED
      BY <3>1, <3>3, <3>4, <3>5, <3>6, <3>7, <3>8 DEF n
  <2>5. QED
    BY <2>1, <2>2, <2>3, <2>4 DEF Links
<1>3. ASSUME NEW g \in Clean' PROVE g \in Clean
  <2>1. /\ g \in Used /\ row[g].parent = NoItem /\ g \in Versions(g)
        /\ Versions(g) \cap muddled = {} /\ g \notin muddled'
    <3>1. g \in Used /\ row'[g].parent = NoItem /\ Versions(g)' \cap muddled' = {}
      BY <1>3 DEF Clean
    <3>2. g \in Versions(g)
      BY <3>1 DEF Versions, Used
    <3>3. QED
      BY <3>1, <3>2, SameVersions DEF KeepsRows
  <2>2. ASSUME NEW r \in Versioning, req[r].item = g PROVE FALSE
    <3>1. r \notin Versioning'
      BY <1>3, <2>2 DEF Clean, GoesOn
    <3>2. pc[r] \in {"create", "note"}
      BY <2>1, <2>2, <3>1
    <3>3. pc[r] # "create"
      BY <1>1, <2>1, <2>2 DEF Links
    <3>4. row[g].parent = req[r].root \/ g \in muddled
      BY <2>2, <3>2, <3>3 DEF Links
    <3>5. QED
      BY <1>1, <2>1, <2>2, <3>4
  <2>3. QED
    BY <2>1, <2>2 DEF Clean
<1>4. ASSUME NEW g \in Clean'
      PROVE  /\ Numbered(g)'
             /\ (\A r \in Versioning' : req'[r].root = g => pc'[r] # "fields") => CurrentLast(g)'
             /\ \A r \in Versioning' : req'[r].root = g =>
                  /\ \A q \in Versioning' : req'[q].root = g => q = r
                  /\ pc'[r] # "note" /\ g \notin branched' =>
                        req'[r].version = Cardinality(Versions(g)') + 1
                  /\ pc'[r] = "fields" => \A j \in Versions(g)' : ~ row'[j].current
  <2>1. Versions(g)' = Versions(g) /\ KeepsRows(Versions(g)) /\ g \in Clean
    BY <1>3, <1>4, SameVersions DEF KeepsRows, Versions, Used
  <2>2. g \notin muddled'
    <3>1. g \in Versions(g) /\ Versions(g)' \cap muddled' = {}
      BY <1>4, <2>1 DEF Clean, Versions, Used
    <3>2. QED
      BY <2>1, <3>1
  <2>3. Numbered(g) /\ Numbered(g)'
    BY <2>1, FamilyKept DEF CleanFamilies
  <2>4. ASSUME NEW r \in Versioning, req[r].root = g
        PROVE  r \in Versioning' => req'[r] = req[r] /\ (pc'[r] = "fields" <=> pc[r] = "fields")
                                    /\ (pc'[r] = "note" <=> pc[r] = "note")
    BY <2>2, <2>4 DEF GoesOn
  <2>5. ASSUME \A r \in Versioning' : req'[r].root = g => pc'[r] # "fields" PROVE CurrentLast(g)'
    <3>1. ASSUME NEW r \in Versioning, req[r].root = g, pc[r] = "fields" PROVE FALSE
      BY <2>2, <2>4, <2>5, <3>1
    <3>2. CurrentLast(g)
      BY <2>1, <3>1 DEF CleanFamilies
    <3>3. QED
      BY <2>1, <3>2, FamilyKept
  <2>6. ASSUME NEW r \in Versioning', req'[r].root = g
        PROVE  /\ \A q \in Versioning' : req'[q].root = g => q = r
               /\ pc'[r] # "note" /\ g \notin branched' =>
                     req'[r].version = Cardinality(Versions(g)') + 1
               /\ pc'[r] = "fields" => \A j \in Versions(g)' : ~ row'[j].current
    <3>1. r \in Versioning /\ req[r].root = g /\ req'[r] = req[r]
          /\ (pc'[r] = "fields" <=> pc[r] = "fields") /\ (pc'[r] = "note" <=> pc[r] = "note")
      BY <2>4, <2>6 DEF GoesOn
    <3>2. /\ \A q \in Versioning : req[q].root = g => q = r
          /\ pc[r] # "note" /\ g \notin branched => req[r].version = Cardinality(Versions(g)) + 1
          /\ pc[r] = "fields" => \A j \in Versions(g) : ~ row[j].current
      BY <2>1, <3>1 DEF CleanFamilies
    <3>3. \A q \in Versioning' : req'[q].root = g => q = r
      BY <3>2 DEF GoesOn
    <3>4. QED
      BY <2>1, <3>1, <3>2, <3>3 DEF KeepsRows
  <2>7. QED
    BY <2>3, <2>5, <2>6
<1>5. CleanFamilies'
  BY <1>4 DEF CleanFamilies
<1>6. QED
  BY <1>2, <1>5

\* A versioning starts: it takes the next number of a family nobody works on.
LEMMA StartStep ==
  ASSUME RecordsTypeOK, RequestsHold, Links, CleanFamilies,
         NEW r \in Requests, NEW p \in Items, UploadNewVersion(r, p)
  PROVE  Links' /\ CleanFamilies'
<1> DEFINE root == RootId(p)
<1>1. /\ row' = row /\ Used' = Used /\ KeepsRows(Used) /\ MarksGrow /\ p \in Used
      /\ r \notin Versioning
  BY DEF UploadNewVersion, KeepsRows, MarksGrow, Used, Exists, Links
<1>2. /\ \A s \in Requests \ {r} : pc'[s] = pc[s] /\ req'[s] = req[s]
      /\ pc'[r] = "create" /\ req'[r].op = "version" /\ req'[r].item = NoItem
      /\ req'[r].root = root /\ req'[r].version = row[p].version + 1
  BY DEF UploadNewVersion, Goto, RecordsTypeOK, NoReq
<1>3. Versioning' = Versioning \cup {r}
  BY <1>1, <1>2 DEF Versioning
<1>4. \A s \in Versioning : s # r /\ pc'[s] = pc[s] /\ req'[s] = req[s]
  BY <1>1, <1>2 DEF Versioning
<1>5. IsFirst(root)
  BY <1>1 DEF RootId, Links, IsFirst
<1>6. \A q \in Versioning : req[q].root = root \/ req[q].item = root => root \in muddled'
  <2>1. SUFFICES ASSUME NEW q \in Versioning, req[q].root = root \/ req[q].item = root
                 PROVE  root \in muddled'
    OBVIOUS
  <2> DEFINE Over == {v \in Versioning : {p, root} \cap {req[v].item, req[v].root} # {}}
  <2>2. muddled' = muddled \cup UNION {{root, req[v].root} : v \in Over}
    BY DEF UploadNewVersion
  <2>3. q \in Over
    BY <2>1
  <2> HIDE DEF Over, root
  <2>4. QED
    BY <2>2, <2>3
<1>7. NoItem \notin Used /\ root \in Used /\ p \in Versions(root)
  BY <1>1, <1>5 DEF Used, Items, NoItem, IsFirst, Versions, RootId
<1>8. root \notin branched' => row[p].current
  BY DEF UploadNewVersion, root
<1> HIDE DEF root
<1>9. Links'
  <2>1. (\A i \in Used : row[i].parent # NoItem => IsFirst(row[i].parent))'
    BY <1>1 DEF Links, IsFirst, MarksGrow
  <2>2. (\A s \in Versioning : pc[s] # "idle" /\ IsFirst(req[s].root))'
    <3>1. ASSUME NEW s \in Versioning PROVE pc'[s] # "idle" /\ IsFirst(req[s].root)'
      BY <1>1, <1>4, <3>1 DEF Links, IsFirst, MarksGrow
    <3>2. pc'[r] # "idle" /\ IsFirst(req[r].root)'
      BY <1>1, <1>2, <1>5 DEF IsFirst, MarksGrow
    <3>3. QED
      BY <1>3, <3>1, <3>2
  <2>3. \A s \in Versioning' : pc'[s] = "create" => req'[s].item = NoItem
    BY <1>2, <1>3, <1>4 DEF Links
  <2>4. ASSUME NEW s \in Versioning', pc'[s] # "create"
        PROVE  LET n == req'[s].item IN
               /\ n # req'[s].root
               /\ \A i \in Used' : row'[i].parent = n => n \in muddled'
               /\ \A q \in Versioning' : req'[q].root = n => n \in muddled'
               /\ \A q \in Versioning' : req'[q].item = n => q = s
               /\ pc'[s] # "note" => row'[n].parent = NoItem
               /\ pc'[s] = "note" => row'[n].parent = req'[s].root \/ n \in muddled'
    <3> DEFINE n == req[s].item
    <3>1. s \in Versioning /\ pc'[s] = pc[s] /\ req'[s] = req[s]
      BY <1>2, <1>3, <1>4, <2>4
    <3>2. n # NoItem
      BY <1>7, <2>4, <3>1 DEF RequestsHold, Links, Versioning
    <3>3. n # req[s].root /\ (pc[s] # "note" => row[n].parent = NoItem)
          /\ (pc[s] = "note" => row[n].parent = req[s].root \/ n \in muddled)
          /\ (\A i \in Used : row[i].parent = n => n \in muddled)
          /\ \A q \in Versioning : /\ req[q].root = n => n \in muddled
                                   /\ req[q].item = n => q = s
      BY <2>4, <3>1 DEF Links
    <3>4. root = n => n \in muddled'
      BY <1>6, <3>1
    <3> HIDE DEF n
    <3>5. \A q \in Versioning' : /\ req'[q].root = n => n \in muddled'
                                 /\ req'[q].item = n => q = s
      BY <1>1, <1>2, <1>3, <1>4, <3>2, <3>3, <3>4 DEF MarksGrow
    <3>6. QED
      BY <1>1, <3>1, <3>3, <3>5 DEF n, MarksGrow
  <2>5. QED
    BY <2>1, <2>2, <2>3, <2>4 DEF Links
<1>10. ASSUME NEW g \in Clean'
       PROVE  /\ Numbered(g)'
              /\ (\A s \in Versioning' : req'[s].root = g => pc'[s] # "fields") => CurrentLast(g)'
              /\ \A s \in Versioning' : req'[s].root = g =>
                   /\ \A q \in Versioning' : req'[q].root = g => q = s
                   /\ pc'[s] # "note" /\ g \notin branched' =>
                         req'[s].version = Cardinality(Versions(g)') + 1
                   /\ pc'[s] = "fields" => \A j \in Versions(g)' : ~ row'[j].current
  <2>1. Versions(g)' = Versions(g) /\ KeepsRows(Versions(g)) /\ g \notin muddled'
    BY <1>1, <1>10, SameVersions DEF KeepsRows, Versions, Used, Clean
  <2>2. g \in Clean
    BY <1>1, <1>3, <1>4, <1>10, <2>1 DEF Clean, MarksGrow
  <2>3. Numbered(g) /\ Numbered(g)'
    BY <1>1, <2>1, <2>2, FamilyKept DEF CleanFamilies, MarksGrow
  <2>4. ASSUME \A s \in Versioning : req[s].root = g => pc[s] # "fields"
        PROVE  CurrentLast(g) /\ CurrentLast(g)'
    BY <1>1, <2>1, <2>2, <2>4, FamilyKept DEF CleanFamilies, MarksGrow
  <2>5. (\A s \in Versioning' : req'[s].root = g => pc'[s] # "fields") => CurrentLast(g)'
    BY <1>3, <1>4, <2>4
  <2>6. g = root => \A q \in Versioning : req[q].root # g
    BY <1>6, <2>1
  <2>7. ASSUME NEW s \in Versioning', req'[s].root = g
        PROVE  /\ \A q \in Versioning' : req'[q].root = g => q = s
               /\ pc'[s] # "note" /\ g \notin branched' =>
                     req'[s].version = Cardinality(Versions(g)') + 1
               /\ pc'[s] = "fields" => \A j \in Versions(g)' : ~ row'[j].current
    <3>1. CASE s = r
      <4>1. g = root /\ pc'[s] = "create" /\ \A q \in Versioning' : req'[q].root = g => q = s
        BY <1>2, <1>3, <1>4, <2>6, <2>7, <3>1
      <4>2. CurrentLast(g)
        BY <2>4, <2>6, <4>1
      <4>3. g \notin branched' => row[p].current /\ row[p].version = Cardinality(Versions(g))
        BY <1>1, <1>7, <1>8, <4>1, <4>2 DEF CurrentLast, MarksGrow
      <4>4. QED
        BY <1>2, <2>1, <3>1, <4>1, <4>3
    <3>2. CASE s # r
      <4>1. s \in Versioning /\ req[s].root = g /\ g # root /\ pc'[s] = pc[s] /\ req'[s] = req[s]
        BY <1>3, <1>4, <2>6, <2>7, <3>2
      <4>2. /\ \A q \in Versioning : req[q].root = g => q = s
            /\ pc[s] # "note" /\ g \notin branched => req[s].version = Cardinality(Versions(g)) + 1
            /\ pc[s] = "fields" => \A j \in Versions(g) : ~ row[j].current
        BY <2>2, <4>1 DEF CleanFamilies
      <4>3. \A q \in Versioning' : req'[q].root = g => q = s
        BY <1>2, <1>3, <1>4, <4>1, <4>2
      <4>4. QED
        BY <1>1, <2>1, <4>1, <4>2, <4>3 DEF MarksGrow
    <3>3. QED
      BY <3>1, <3>2
  <2>8. QED
    BY <2>3, <2>5, <2>7
<1>11. CleanFamilies'
  BY <1>10 DEF CleanFamilies
<1>12. QED
  BY <1>9, <1>11

\* An insert makes a family of its own.
LEMMA InsertStep ==
  ASSUME RecordsTypeOK, Dense, RequestsHold, Links, CleanFamilies,
         NEW r \in Requests, Upload(r) \/ CreateVersion(r)
  PROVE  Links' /\ CleanFamilies'
<1> DEFINE n == Cardinality(Used) + 1
<1>1. /\ n \in Items /\ Used' = Used \cup {n}
      /\ row'[n].version = 1 /\ row'[n].parent = NoItem /\ row'[n].current
      /\ \A j \in Items \ {n} : row'[j] = row[j]
      /\ pc'[r] = "record" /\ req'[r].item = n
      /\ req'[r].op = "version" => pc[r] = "create" /\ r \in Versioning
                                   /\ req'[r].root = req[r].root
                                   /\ req'[r].version = req[r].version
      /\ \A s \in Requests \ {r} : pc'[s] = pc[s] /\ req'[s] = req[s]
  <2>1. CASE Upload(r)
    <3> DEFINE q == [NoReq EXCEPT !.op = "upload"]
    <3>1. Insert(r, q)
      BY <2>1 DEF Upload
    <3>2. [q EXCEPT !.item = n].item = n /\ [q EXCEPT !.item = n].op = "upload"
      BY DEF NoReq
    <3> HIDE DEF q
    <3>3. /\ n \in Items /\ Used' = Used \cup {n}
          /\ row'[n].version = 1 /\ row'[n].parent = NoItem /\ row'[n].current
          /\ \A j \in Items \ {n} : row'[j] = row[j]
          /\ pc' = [pc EXCEPT ![r] = "record"] /\ req' = [req EXCEPT ![r] = [q EXCEPT !.item = n]]
      BY <3>1, InsertNext
    <3> HIDE DEF n
    <3>4. QED
      BY <3>2, <3>3 DEF RecordsTypeOK
  <2>2. CASE CreateVersion(r)
    <3>1. Insert(r, req[r]) /\ pc[r] = "create" /\ r \in Versioning
      BY <2>2 DEF CreateVersion, RequestsHold, Versioning
    <3> DEFINE q == [req[r] EXCEPT !.item = n]
    <3>2. q.item = n /\ q.root = req[r].root /\ q.version = req[r].version
      BY DEF RecordsTypeOK, Req
    <3>3. /\ n \in Items /\ Used' = Used \cup {n}
          /\ row'[n].version = 1 /\ row'[n].parent = NoItem /\ row'[n].current
          /\ \A j \in Items \ {n} : row'[j] = row[j]
          /\ pc' = [pc EXCEPT ![r] = "record"] /\ req' = [req EXCEPT ![r] = q]
      BY <3>1, InsertNext
    <3> HIDE DEF q, n
    <3>4. QED
      BY <3>1, <3>2, <3>3 DEF RecordsTypeOK
  <2>3. QED
    BY <2>1, <2>2
<1>2. n \notin Used /\ NoItem \notin Used
  BY InsertedIsNew DEF Used, Items, NoItem
<1> HIDE DEF n
<1>3. UNCHANGED <<muddled, branched>>
  BY DEF Upload, CreateVersion, history
<1>4. KeepsRows(Used) /\ MarksGrow
  BY <1>1, <1>2, <1>3 DEF KeepsRows, MarksGrow, Used
<1>5. /\ \A s \in Versioning' : s \in Versioning /\ req'[s].root = req[s].root
                                /\ req'[s].version = req[s].version
      /\ \A s \in Versioning' \ {r} : pc'[s] = pc[s] /\ req'[s] = req[s]
      /\ r \in Versioning' => pc[r] = "create"
      /\ Versioning \subseteq Versioning'
  <2>1. ASSUME NEW s \in Versioning' PROVE s \in Requests /\ req'[s].op = "version"
    BY DEF Versioning
  <2>2. ASSUME r \in Versioning PROVE r \in Versioning'
    <3>1. pc[r] # "idle" /\ req[r].op = "version"
      BY <2>2 DEF Links, Versioning
    <3>2. CreateVersion(r)
      BY <3>1 DEF Upload
    <3>3. req'[r] = [req[r] EXCEPT !.item = Cardinality(Used) + 1]
      BY <3>2, InsertNext DEF CreateVersion, RecordsTypeOK
    <3>4. QED
      BY <3>1, <3>3 DEF Versioning, RecordsTypeOK, Req
  <2>3. QED
    BY <1>1, <2>1, <2>2 DEF Versioning
<1>6. \A x : IsFirst(x) => x \in Used /\ IsFirst(x)' /\ x # n
  BY <1>1, <1>2, <1>3, <1>4 DEF IsFirst, KeepsRows
<1>7. \A s \in Versioning : /\ req[s].item # n /\ req[s].root # n
                            /\ pc[s] # "create" => req[s].item \in Used
  <2>1. ASSUME NEW s \in Versioning PROVE /\ req[s].item # n /\ req[s].root # n
                                          /\ pc[s] # "create" => req[s].item \in Used
    <3>1. req[s].root # n
      BY <1>6 DEF Links
    <3>2. pc[s] # "create" => req[s].item \in Used
      BY DEF Links, RequestsHold, Versioning
    <3>3. pc[s] = "create" => req[s].item = NoItem
      BY DEF Links
    <3>4. n # NoItem
      BY <1>1 DEF Items, NoItem
    <3>5. QED
      BY <1>2, <3>1, <3>2, <3>3, <3>4
  <2>2. QED
    BY <2>1
<1>8. \A i \in Used : row[i].parent # n
  BY <1>1, <1>6 DEF Links, Items, NoItem
<1>9. Links'
  <2>1. (\A i \in Used : row[i].parent # NoItem => IsFirst(row[i].parent))'
    <3>1. ASSUME NEW i \in Used', row'[i].parent # NoItem PROVE IsFirst(row[i].parent)'
      <4>1. i \in Used /\ row'[i].parent = row[i].parent /\ IsFirst(row[i].parent)
        BY <1>1, <1>4, <3>1 DEF Links, KeepsRows
      <4>2. QED
        BY <1>1, <1>3, <1>4, <4>1 DEF IsFirst, KeepsRows
    <3>2. QED
      BY <3>1
  <2>2. (\A s \in Versioning : pc[s] # "idle" /\ IsFirst(req[s].root))'
    <3>1. ASSUME NEW s \in Versioning' PROVE pc'[s] # "idle" /\ IsFirst(req[s].root)'
      <4>1. s \in Versioning /\ req'[s].root = req[s].root /\ pc[s] # "idle" /\ IsFirst(req[s].root)
        BY <1>5 DEF Links
      <4>2. pc'[s] # "idle"
        BY <1>1, <1>5, <4>1
      <4>3. QED
        BY <1>1, <1>3, <1>4, <4>1, <4>2 DEF IsFirst, KeepsRows
    <3>2. QED
      BY <3>1
  <2>3. \A s \in Versioning' : pc'[s] = "create" => req'[s].item = NoItem
    BY <1>1, <1>5 DEF Links
  <2>4. ASSUME NEW s \in Versioning', pc'[s] # "create"
        PROVE  LET m == req'[s].item IN
               /\ m # req'[s].root
               /\ \A i \in Used' : row'[i].parent = m => m \in muddled'
               /\ \A q \in Versioning' : req'[q].root = m => m \in muddled'
               /\ \A q \in Versioning' : req'[q].item = m => q = s
               /\ pc'[s] # "note" => row'[m].parent = NoItem
               /\ pc'[s] = "note" => row'[m].parent = req'[s].root \/ m \in muddled'
    <3>1. CASE s = r
      <4>1. /\ req'[s].item = n /\ pc'[s] # "note" /\ n # req'[s].root /\ row'[n].parent = NoItem
            /\ n # NoItem
        BY <1>1, <1>5, <1>7, <3>1 DEF Items, NoItem
      <4>2. \A i \in Used' : row'[i].parent # n
        BY <1>1, <1>4, <1>8, <4>1 DEF KeepsRows
      <4>3. \A q \in Versioning' : req'[q].root # n /\ (req'[q].item = n => q = s)
        BY <1>5, <1>7, <3>1
      <4>4. QED
        BY <4>1, <4>2, <4>3
    <3>2. CASE s # r
      <4> DEFINE m == req[s].item
      <4>1. s \in Versioning /\ pc[s] = pc'[s] /\ req'[s] = req[s] /\ m # n /\ m \in Used
        BY <1>5, <1>7, <2>4, <3>2
      <4>2. m # req[s].root /\ (pc[s] # "note" => row[m].parent = NoItem)
            /\ (pc[s] = "note" => row[m].parent = req[s].root \/ m \in muddled)
            /\ (\A i \in Used : row[i].parent = m => m \in muddled)
            /\ \A q \in Versioning : /\ req[q].root = m => m \in muddled
                                     /\ req[q].item = m => q = s
        BY <2>4, <4>1 DEF Links
      <4> HIDE DEF m
      <4>3. m # NoItem /\ row'[m].parent = row[m].parent
        BY <1>2, <1>4, <4>1 DEF KeepsRows
      <4>4. \A i \in Used' : row'[i].parent = m => m \in muddled'
        BY <1>1, <1>3, <1>4, <4>2, <4>3 DEF KeepsRows
      <4>5. \A q \in Versioning' : /\ req'[q].root = m => m \in muddled'
                                   /\ req'[q].item = m => q = s
        BY <1>1, <1>3, <1>5, <4>1, <4>2
      <4>6. QED
        BY <1>3, <4>1, <4>2, <4>3, <4>4, <4>5 DEF m
    <3>3. QED
      BY <3>1, <3>2
  <2>5. QED
    BY <2>1, <2>2, <2>3, <2>4 DEF Links
<1>10. ASSUME NEW g \in Used' PROVE Versions(g)' = IF g = n THEN {n} ELSE Versions(g)
  <2>1. Versions(g) = {i \in Used : i = g \/ row[i].parent = g}
    BY DEF Versions, Used
  <2>2. Versions(g)' = {i \in Used' : i = g \/ row'[i].parent = g}
    BY DEF Versions, Used, Exists
  <2>3. n # NoItem /\ g # NoItem
    BY <1>1, <1>2, <1>10 DEF Items, NoItem
  <2>4. CASE g = n
    BY <1>1, <1>4, <1>8, <2>2, <2>3, <2>4 DEF KeepsRows
  <2>5. CASE g # n
    BY <1>1, <1>4, <2>1, <2>2, <2>3, <2>5 DEF KeepsRows
  <2>6. QED
    BY <2>4, <2>5
<1>11. ASSUME NEW g \in Clean'
       PROVE  /\ Numbered(g)'
              /\ (\A s \in Versioning' : req'[s].root = g => pc'[s] # "fields") => CurrentLast(g)'
              /\ \A s \in Versioning' : req'[s].root = g =>
                   /\ \A q \in Versioning' : req'[q].root = g => q = s
                   /\ pc'[s] # "note" /\ g \notin branched' =>
                         req'[s].version = Cardinality(Versions(g)') + 1
                   /\ pc'[s] = "fields" => \A j \in Versions(g)' : ~ row'[j].current
  <2>0. g \in Used' /\ row'[g].parent = NoItem
    BY <1>11 DEF Clean
  <2>1. CASE g = n
    <3>1. Versions(g)' = {n} /\ Cardinality({n}) = 1
      BY <1>10, <2>0, <2>1, FS_Singleton
    <3>2. Numbered(g)'
      BY <1>1, <3>1 DEF Numbered
    <3>3. CurrentLast(g)'
      BY <1>1, <3>1 DEF CurrentLast
    <3>4. \A s \in Versioning' : req'[s].root # g
      BY <1>5, <1>7, <2>1
    <3>5. QED
      BY <3>2, <3>3, <3>4
  <2>2. CASE g # n
    <3>1. Versions(g)' = Versions(g) /\ KeepsRows(Versions(g)) /\ g \in Used
      BY <1>1, <1>4, <1>10, <2>0, <2>2 DEF KeepsRows, Versions, Used
    <3>2. g \in Clean
      <4>1. \A s \in Versioning : req[s].item # g
        <5>1. ASSUME NEW s \in Versioning, req[s].item = g PROVE FALSE
          <6>1. s # r
            BY <1>2, <1>5, <3>1, <5>1 DEF Links
          <6>2. req'[s].item = g
            BY <1>5, <5>1, <6>1
          <6>3. QED
            BY <1>5, <1>11, <5>1, <6>2 DEF Clean
        <5>2. QED
          BY <5>1
      <4>2. row[g].parent = NoItem /\ Versions(g) \cap muddled = {}
        BY <1>3, <1>4, <1>11, <3>1 DEF Clean, KeepsRows
      <4>3. QED
        BY <3>1, <4>1, <4>2 DEF Clean
    <3>3. Numbered(g) /\ Numbered(g)'
      BY <1>3, <3>1, <3>2, FamilyKept DEF CleanFamilies
    <3>4. ASSUME \A s \in Versioning' : req'[s].root = g => pc'[s] # "fields" PROVE CurrentLast(g)'
      <4>1. ASSUME NEW s \in Versioning, req[s].root = g PROVE pc[s] # "fields"
        BY <1>5, <3>4, <4>1
      <4>2. CurrentLast(g)
        BY <3>2, <4>1 DEF CleanFamilies
      <4>3. QED
        BY <1>3, <3>1, <4>2, FamilyKept
    <3>5. ASSUME NEW s \in Versioning', req'[s].root = g
          PROVE  /\ \A q \in Versioning' : req'[q].root = g => q = s
                 /\ pc'[s] # "note" /\ g \notin branched' =>
                       req'[s].version = Cardinality(Versions(g)') + 1
                 /\ pc'[s] = "fields" => \A j \in Versions(g)' : ~ row'[j].current
      <4>1. /\ s \in Versioning /\ req[s].root = g /\ req'[s].version = req[s].version
            /\ pc'[s] = "fields" => pc[s] = "fields"
            /\ pc'[s] # "note" => pc[s] # "note"
        BY <1>1, <1>5, <3>5
      <4>2. /\ \A q \in Versioning : req[q].root = g => q = s
            /\ pc[s] # "note" /\ g \notin branched => req[s].version = Cardinality(Versions(g)) + 1
            /\ pc[s] = "fields" => \A j \in Versions(g) : ~ row[j].current
        BY <3>2, <4>1 DEF CleanFamilies
      <4>3. \A q \in Versioning' : req'[q].root = g => q = s
        BY <1>5, <4>2
      <4>4. QED
        BY <1>3, <3>1, <4>1, <4>2, <4>3 DEF KeepsRows
    <3>6. QED
      BY <3>3, <3>4, <3>5
  <2>3. QED
    BY <2>1, <2>2
<1>12. CleanFamilies'
  BY <1>11 DEF CleanFamilies
<1>13. QED
  BY <1>9, <1>12

\* MarkPreviousVersions leaves no member of the family current, and of no other.
LEMMA MarkStep ==
  ASSUME RecordsTypeOK, RequestsHold, Links, CleanFamilies, NEW r \in Requests,
         MarkPreviousVersions(r), UNCHANGED muddled,
         row' = [i \in Items |-> IF i \in Versions(req[r].root)
                                 THEN [row[i] EXCEPT !.current = FALSE] ELSE row[i]]
  PROVE  Links' /\ CleanFamilies'
<1> DEFINE root == req[r].root
<1>1. ASSUME NEW i \in Items
      PROVE  /\ row'[i].parent = row[i].parent /\ row'[i].version = row[i].version
             /\ row'[i].state = row[i].state
             /\ row'[i].current = IF i \in Versions(root) THEN FALSE ELSE row[i].current
  BY DEF RecordsTypeOK, Row
<1>2. /\ r \in Versioning /\ pc[r] = "mark" /\ pc'[r] = "fields" /\ req' = req
      /\ \A s \in Requests \ {r} : pc'[s] = pc[s]
      /\ UNCHANGED branched
  BY DEF MarkPreviousVersions, Goto, RequestsHold, RecordsTypeOK, Versioning
<1>3. Versioning' = Versioning /\ Used' = Used /\ Used \subseteq Items
  BY <1>1, <1>2 DEF Versioning, Used, Exists
<1>4. \A s \in Versioning : pc'[s] = IF s = r THEN "fields" ELSE pc[s]
  BY <1>2 DEF Versioning
<1>5. ASSUME NEW g PROVE Versions(g)' = Versions(g)
  <2>1. Versions(g) = {i \in Used : i = g \/ row[i].parent = g}
    BY DEF Versions, Used
  <2>2. Versions(g)' = {i \in Used' : i = g \/ row'[i].parent = g}
    BY DEF Versions, Used, Exists
  <2>3. QED
    BY <1>1, <1>3, <2>1, <2>2
<1>6. Links'
  <2>1. (\A i \in Used : row[i].parent # NoItem => IsFirst(row[i].parent))'
    BY <1>1, <1>3 DEF Links, IsFirst
  <2>2. (\A s \in Versioning : pc[s] # "idle" /\ IsFirst(req[s].root))'
    BY <1>1, <1>2, <1>3, <1>4 DEF Links, IsFirst
  <2>3. (\A s \in Versioning : pc[s] = "create" => req[s].item = NoItem)'
    BY <1>2, <1>3, <1>4 DEF Links
  <2>4. ASSUME NEW s \in Versioning', pc'[s] # "create"
        PROVE  LET m == req'[s].item IN
               /\ m # req'[s].root
               /\ \A i \in Used' : row'[i].parent = m => m \in muddled'
               /\ \A q \in Versioning' : req'[q].root = m => m \in muddled'
               /\ \A q \in Versioning' : req'[q].item = m => q = s
               /\ pc'[s] # "note" => row'[m].parent = NoItem
               /\ pc'[s] = "note" => row'[m].parent = req'[s].root \/ m \in muddled'
    <3> DEFINE m == req[s].item
    <3>1. s \in Versioning /\ pc[s] # "create" /\ (pc'[s] = "note" <=> pc[s] = "note")
      BY <1>2, <1>3, <1>4, <2>4
    <3>2. m \in Used
      BY <3>1 DEF Links, RequestsHold, Versioning
    <3>3. row'[m].parent = row[m].parent
      BY <1>1, <1>3, <3>2
    <3>4. m # req[s].root /\ (pc[s] # "note" => row[m].parent = NoItem)
          /\ (pc[s] = "note" => row[m].parent = req[s].root \/ m \in muddled)
          /\ (\A i \in Used : row[i].parent = m => m \in muddled)
          /\ \A q \in Versioning : /\ req[q].root = m => m \in muddled
                                   /\ req[q].item = m => q = s
      BY <3>1 DEF Links
    <3> HIDE DEF m
    <3>5. \A i \in Used' : row'[i].parent = m => m \in muddled'
      BY <1>1, <1>3, <3>4
    <3>6. QED
      BY <1>2, <1>3, <3>1, <3>3, <3>4, <3>5 DEF m
  <2>5. QED
    BY <2>1, <2>2, <2>3, <2>4 DEF Links
<1>7. ASSUME NEW g \in Clean'
      PROVE  /\ Numbered(g)'
             /\ (\A s \in Versioning' : req'[s].root = g => pc'[s] # "fields") => CurrentLast(g)'
             /\ \A s \in Versioning' : req'[s].root = g =>
                  /\ \A q \in Versioning' : req'[q].root = g => q = s
                  /\ pc'[s] # "note" /\ g \notin branched' =>
                        req'[s].version = Cardinality(Versions(g)') + 1
                  /\ pc'[s] = "fields" => \A j \in Versions(g)' : ~ row'[j].current
  <2>1. Versions(g)' = Versions(g) /\ g \in Clean
    <3>1. g \in Used' /\ row'[g].parent = NoItem /\ Versions(g)' \cap muddled' = {}
          /\ \A s \in Versioning' : req'[s].item # g
      BY <1>7 DEF Clean
    <3>2. g \in Used /\ row[g].parent = NoItem
      BY <1>1, <1>3, <3>1
    <3>3. QED
      BY <1>2, <1>3, <1>5, <3>1, <3>2 DEF Clean
  <2>2. Versions(g) \subseteq Items
    BY DEF Versions
  <2>3. {row'[i].version : i \in Versions(g)} = {row[i].version : i \in Versions(g)}
    BY <1>1, <2>2
  <2>4. Numbered(g)'
    BY <1>2, <2>1, <2>3 DEF CleanFamilies, Numbered
  <2>5. ASSUME \A s \in Versioning' : req'[s].root = g => pc'[s] # "fields" PROVE CurrentLast(g)'
    <3>1. g # root /\ \A s \in Versioning : req[s].root = g => pc[s] # "fields"
      BY <1>2, <1>3, <1>4, <2>5
    <3>2. Versions(g) \cap Versions(root) = {}
      BY <1>2, <2>1, <3>1, OutOfFamily DEF Links
    <3>3. KeepsRows(Versions(g))
      BY <1>1, <2>2, <3>2 DEF KeepsRows
    <3>4. CurrentLast(g)
      BY <2>1, <3>1 DEF CleanFamilies
    <3>5. QED
      BY <1>2, <2>1, <3>3, <3>4, FamilyKept
  <2>6. ASSUME NEW s \in Versioning', req'[s].root = g
        PROVE  /\ \A q \in Versioning' : req'[q].root = g => q = s
               /\ pc'[s] # "note" /\ g \notin branched' =>
                     req'[s].version = Cardinality(Versions(g)') + 1
               /\ pc'[s] = "fields" => \A j \in Versions(g)' : ~ row'[j].current
    <3>1. s \in Versioning /\ req[s].root = g
      BY <1>2, <1>3, <2>6
    <3>2. /\ \A q \in Versioning : req[q].root = g => q = s
          /\ pc[s] # "note" /\ g \notin branched => req[s].version = Cardinality(Versions(g)) + 1
          /\ pc[s] = "fields" => \A j \in Versions(g) : ~ row[j].current
      BY <2>1, <3>1 DEF CleanFamilies
    <3>3. pc'[s] # "note" => pc[s] # "note"
      BY <1>4, <1>2, <3>1
    <3>4. ASSUME pc'[s] = "fields", NEW j \in Versions(g) PROVE ~ row'[j].current
      <4>1. CASE s = r
        BY <1>1, <2>2, <3>1, <4>1
      <4>2. CASE s # r
        BY <1>1, <1>4, <2>2, <3>1, <3>2, <3>4, <4>2
      <4>3. QED
        BY <4>1, <4>2
    <3>5. QED
      BY <1>2, <1>3, <2>1, <3>2, <3>3, <3>4
  <2>7. QED
    BY <2>4, <2>5, <2>6
<1>8. CleanFamilies'
  BY <1>7 DEF CleanFamilies
<1>9. QED
  BY <1>6, <1>8

\* UpdateVersionFields makes the new row the last of the family.
LEMMA FieldsStep ==
  ASSUME RecordsTypeOK, RequestsHold, Links, CleanFamilies, NEW r \in Requests,
         UpdateVersionFields(r), UNCHANGED muddled,
         row' = [row EXCEPT ![req[r].item] =
                   [@ EXCEPT !.parent = req[r].root, !.version = req[r].version,
                             !.current = TRUE]]
  PROVE  Links' /\ CleanFamilies'
<1> DEFINE root == req[r].root
           n    == req[r].item
<1>1. /\ r \in Versioning /\ pc[r] = "fields" /\ pc'[r] = "note" /\ req' = req
      /\ \A s \in Requests \ {r} : pc'[s] = pc[s]
      /\ UNCHANGED branched
  BY DEF UpdateVersionFields, Goto, RequestsHold, RecordsTypeOK, Versioning
<1>2. n \in Used /\ n \in Items /\ n # NoItem
  BY <1>1 DEF RequestsHold, Used, Items, NoItem
<1>3. /\ row'[n].parent = root /\ row'[n].version = req[r].version /\ row'[n].current
      /\ row'[n].state = row[n].state
      /\ \A i \in Items \ {n} : row'[i] = row[i]
  <2> DEFINE new == [row[n] EXCEPT !.parent = root, !.version = req[r].version, !.current = TRUE]
  <2>1. row' = [row EXCEPT ![n] = new]
    OBVIOUS
  <2>2. new.parent = root /\ new.version = req[r].version /\ new.current
        /\ new.state = row[n].state
    BY <1>2 DEF RecordsTypeOK, Row
  <2> HIDE DEF new, n, root
  <2>3. QED
    BY <1>2, <2>1, <2>2 DEF RecordsTypeOK
<1>4. IsFirst(root) /\ n # root /\ row[n].parent = NoItem /\ root # NoItem
      /\ (\A i \in Used : row[i].parent = n => n \in muddled)
      /\ \A q \in Versioning : /\ req[q].root = n => n \in muddled
                               /\ req[q].item = n => q = r
  BY <1>1 DEF Links, RequestsHold, Versioning, Items, NoItem
<1>5. Versioning' = Versioning /\ Used' = Used /\ Used \subseteq Items
  BY <1>1, <1>2, <1>3 DEF Versioning, Used, Exists
<1>6. \A s \in Versioning : pc'[s] = IF s = r THEN "note" ELSE pc[s]
  BY <1>1 DEF Versioning
<1> HIDE DEF n
<1>7. \A x : IsFirst(x) /\ (x = n => n \in muddled) =>
         x \in Used /\ (row'[x].parent = NoItem \/ x \in muddled')
  BY <1>3, <1>5 DEF IsFirst
<1>8. Links'
  <2>1. (\A i \in Used : row[i].parent # NoItem => IsFirst(row[i].parent))'
    <3>1. ASSUME NEW i \in Used, row'[i].parent # NoItem PROVE IsFirst(row[i].parent)'
      <4>1. PICK p : p = row'[i].parent
        OBVIOUS
      <4>2. IsFirst(p) /\ (p = n => n \in muddled)
        <5>1. CASE i = n
          BY <1>3, <1>4, <4>1, <5>1
        <5>2. CASE i # n
          BY <1>3, <1>4, <1>5, <3>1, <4>1, <5>2 DEF Links
        <5>3. QED
          BY <5>1, <5>2
      <4>3. p \in Used' /\ (row'[p].parent = NoItem \/ p \in muddled')
        BY <1>5, <1>7, <4>2
      <4>4. QED
        BY <4>1, <4>3 DEF IsFirst
    <3>2. QED
      BY <1>5, <3>1
  <2>2. (\A s \in Versioning : pc[s] # "idle" /\ IsFirst(req[s].root))'
    <3>1. ASSUME NEW s \in Versioning PROVE pc'[s] # "idle" /\ IsFirst(req[s].root)'
      <4>1. pc[s] # "idle" /\ IsFirst(req[s].root) /\ (req[s].root = n => n \in muddled)
        BY <1>4 DEF Links
      <4>2. req[s].root \in Used' /\ (row'[req[s].root].parent = NoItem
                                      \/ req[s].root \in muddled')
        BY <1>5, <1>7, <4>1
      <4>3. QED
        BY <1>1, <1>6, <4>1, <4>2 DEF IsFirst
    <3>2. QED
      BY <1>5, <3>1
  <2>3. (\A s \in Versioning : pc[s] = "create" => req[s].item = NoItem)'
    BY <1>1, <1>5, <1>6 DEF Links
  <2>4. ASSUME NEW s \in Versioning', pc'[s] # "create"
        PROVE  LET m == req'[s].item IN
               /\ m # req'[s].root
               /\ \A i \in Used' : row'[i].parent = m => m \in muddled'
               /\ \A q \in Versioning' : req'[q].root = m => m \in muddled'
               /\ \A q \in Versioning' : req'[q].item = m => q = s
               /\ pc'[s] # "note" => row'[m].parent = NoItem
               /\ pc'[s] = "note" => row'[m].parent = req'[s].root \/ m \in muddled'
    <3> DEFINE m == req[s].item
    <3>1. s \in Versioning /\ pc[s] # "create"
      BY <1>1, <1>5, <1>6, <2>4
    <3>2. m \in Used
      BY <3>1 DEF Links, RequestsHold, Versioning
    <3>3. m # req[s].root /\ (pc[s] # "note" => row[m].parent = NoItem)
          /\ (pc[s] = "note" => row[m].parent = req[s].root \/ m \in muddled)
          /\ (\A i \in Used : row[i].parent = m => m \in muddled)
          /\ \A q \in Versioning : /\ req[q].root = m => m \in muddled
                                   /\ req[q].item = m => q = s
      BY <3>1 DEF Links
    <3> HIDE DEF m
    <3>4. \A i \in Used' : row'[i].parent = m => m \in muddled'
      <4>1. ASSUME NEW i \in Used, row'[i].parent = m PROVE m \in muddled
        <5>1. CASE i = n
          BY <1>1, <1>3, <3>3, <4>1, <5>1
        <5>2. CASE i # n
          BY <1>3, <1>5, <3>3, <4>1, <5>2
        <5>3. QED
          BY <5>1, <5>2
      <4>2. QED
        BY <1>5, <4>1
    <3>5. CASE s = r
      BY <1>1, <1>3, <1>5, <3>3, <3>4, <3>5 DEF m, n
    <3>6. CASE s # r
      <4>1. m # n /\ pc'[s] = pc[s]
        BY <1>4, <1>6, <3>1, <3>6 DEF m
      <4>2. row'[m].parent = row[m].parent
        BY <1>3, <1>5, <3>2, <4>1
      <4>3. QED
        BY <1>1, <1>5, <3>3, <3>4, <4>1, <4>2 DEF m
    <3>7. QED
      BY <3>5, <3>6
  <2>5. QED
    BY <2>1, <2>2, <2>3, <2>4 DEF Links
<1>9. ASSUME NEW g \in Clean'
      PROVE  /\ g \in Clean /\ g # n
             /\ Versions(g)' = IF g = root THEN Versions(g) \cup {n} ELSE Versions(g)
             /\ n \notin Versions(g)
             /\ \A i \in Versions(g) : row'[i] = row[i]
  <2>1. /\ g \in Used' /\ row'[g].parent = NoItem /\ Versions(g)' \cap muddled' = {}
        /\ \A s \in Versioning' : req'[s].item # g
    BY <1>9 DEF Clean
  <2>2. g \in Used /\ g # n /\ g # NoItem /\ row[g].parent = NoItem
    BY <1>3, <1>4, <1>5, <2>1 DEF Items, NoItem
  <2>3. Versions(g) = {i \in Used : i = g \/ row[i].parent = g}
    BY DEF Versions, Used
  <2>4. Versions(g)' = {i \in Used' : i = g \/ row'[i].parent = g}
    BY DEF Versions, Used, Exists
  <2>5. n \notin Versions(g)
    BY <1>4, <2>2, <2>3
  <2>6. \A i \in Versions(g) : row'[i] = row[i]
    BY <1>3, <1>5, <2>3, <2>5
  <2>7. Versions(g)' = IF g = root THEN Versions(g) \cup {n} ELSE Versions(g)
    <3>1. \A i \in Used \ {n} : row'[i] = row[i]
      BY <1>3, <1>5
    <3>2. \A i \in Used \ {n} : i \in Versions(g)' <=> i \in Versions(g)
      BY <1>5, <2>3, <2>4, <3>1
    <3>3. n \in Versions(g)' <=> g = root
      BY <1>2, <1>3, <1>5, <2>2, <2>4
    <3>4. Versions(g) \subseteq Used /\ Versions(g)' \subseteq Used
      BY <1>5, <2>3, <2>4
    <3> HIDE DEF root
    <3>5. QED
      BY <1>2, <2>5, <3>2, <3>3, <3>4
  <2>8. g \in Clean
    BY <1>1, <1>5, <2>1, <2>2, <2>7 DEF Clean
  <2>9. QED
    BY <2>2, <2>5, <2>6, <2>7, <2>8
<1>10. ASSUME NEW g \in Clean'
       PROVE  /\ Numbered(g)'
              /\ (\A s \in Versioning' : req'[s].root = g => pc'[s] # "fields") => CurrentLast(g)'
              /\ \A s \in Versioning' : req'[s].root = g =>
                   /\ \A q \in Versioning' : req'[q].root = g => q = s
                   /\ pc'[s] # "note" /\ g \notin branched' =>
                         req'[s].version = Cardinality(Versions(g)') + 1
                   /\ pc'[s] = "fields" => \A j \in Versions(g)' : ~ row'[j].current
  <2>1. /\ Numbered(g)
        /\ (\A s \in Versioning : req[s].root = g => pc[s] # "fields") => CurrentLast(g)
        /\ \A s \in Versioning : req[s].root = g =>
             /\ \A q \in Versioning : req[q].root = g => q = s
             /\ pc[s] # "note" /\ g \notin branched => req[s].version = Cardinality(Versions(g)) + 1
             /\ pc[s] = "fields" => \A j \in Versions(g) : ~ row[j].current
    BY <1>9, <1>10 DEF CleanFamilies
  <2>2. CASE g = root
    <3>1. /\ Versions(g)' = Versions(g) \cup {n} /\ n \notin Versions(g)
          /\ \A i \in Versions(g) : row'[i] = row[i]
      BY <1>9, <1>10, <2>2
    <3>2. Cardinality(Versions(g)') = Cardinality(Versions(g)) + 1
          /\ Cardinality(Versions(g)) \in Nat
      BY <3>1, VersionsFinite, FS_AddElement
    <3>3. /\ \A q \in Versioning : req[q].root = g => q = r
          /\ g \notin branched => row'[n].version = Cardinality(Versions(g)) + 1
          /\ \A j \in Versions(g) : ~ row'[j].current
      BY <1>1, <1>3, <2>1, <2>2, <3>1
    <3>4. Numbered(g)'
      <4>1. SUFFICES ASSUME g \notin branched
                     PROVE  {row'[i].version : i \in Versions(g)'} = 1..Cardinality(Versions(g)')
        BY <1>1 DEF Numbered
      <4>2. {row'[i].version : i \in Versions(g)'}
            = {row[i].version : i \in Versions(g)} \cup {row'[n].version}
        BY <3>1
      <4>3. {row[i].version : i \in Versions(g)} = 1..Cardinality(Versions(g))
        BY <2>1, <4>1 DEF Numbered
      <4>4. QED
        BY <3>2, <3>3, <4>1, <4>2, <4>3
    <3>5. CurrentLast(g)'
      <4>1. n \in Versions(g)' /\ (\A j \in Versions(g)' : row'[j].current <=> j = n)
        BY <1>3, <3>1, <3>3
      <4>2. g \notin branched' => row'[n].version = Cardinality(Versions(g)')
        BY <1>1, <3>2, <3>3
      <4>3. QED
        BY <4>1, <4>2 DEF CurrentLast
    <3>6. \A s \in Versioning' : req'[s].root = g => s = r /\ pc'[s] = "note"
      BY <1>1, <1>5, <3>3
    <3>7. QED
      BY <3>4, <3>5, <3>6
  <2>3. CASE g # root
    <3>1. Versions(g)' = Versions(g) /\ KeepsRows(Versions(g))
      BY <1>9, <1>10, <2>3 DEF KeepsRows
    <3>2. Numbered(g)' /\ (CurrentLast(g) => CurrentLast(g)')
      BY <1>1, <2>1, <3>1, FamilyKept
    <3>3. \A s \in Versioning' : req'[s].root = g => s \in Versioning /\ req[s] = req'[s] /\ pc'[s] = pc[s]
      BY <1>1, <1>5, <1>6, <2>3
    <3>4. \A s \in Versioning : req[s].root = g => s \in Versioning' /\ pc'[s] = pc[s]
      BY <1>5, <1>6, <2>3
    <3>5. ASSUME NEW s \in Versioning', req'[s].root = g
          PROVE  /\ \A q \in Versioning' : req'[q].root = g => q = s
                 /\ pc'[s] # "note" /\ g \notin branched' =>
                       req'[s].version = Cardinality(Versions(g)') + 1
                 /\ pc'[s] = "fields" => \A j \in Versions(g)' : ~ row'[j].current
      <4>1. s \in Versioning /\ req[s] = req'[s] /\ req[s].root = g /\ pc'[s] = pc[s]
        BY <3>3, <3>5
      <4>2. \A q \in Versioning' : req'[q].root = g => q = s
        BY <1>1, <1>5, <2>1, <4>1
      <4>3. pc'[s] # "note" /\ g \notin branched' =>
               req'[s].version = Cardinality(Versions(g)') + 1
        BY <1>1, <2>1, <3>1, <4>1
      <4>4. pc'[s] = "fields" => \A j \in Versions(g)' : ~ row'[j].current
        BY <2>1, <3>1, <4>1 DEF KeepsRows
      <4>5. QED
        BY <4>2, <4>3, <4>4
    <3>6. (\A s \in Versioning' : req'[s].root = g => pc'[s] # "fields") => CurrentLast(g)'
      BY <1>1, <2>1, <3>2, <3>4
    <3>7. QED
      BY <3>2, <3>5, <3>6
  <2>4. QED
    BY <2>2, <2>3
<1>11. CleanFamilies'
  BY <1>10 DEF CleanFamilies
<1>12. QED
  BY <1>8, <1>11

LEMMA FamiliesStep == FamiliesInv /\ [RecordsNext]_recordVars => FamiliesInv'
<1> SUFFICES ASSUME FamiliesInv, [RecordsNext]_recordVars PROVE FamiliesInv'
  OBVIOUS
<1>0. /\ RecordsInv' /\ RecordsTypeOK /\ Dense /\ RequestsHold /\ Links /\ CleanFamilies
  BY RecordsStep DEF FamiliesInv, RecordsInv
<1> SUFFICES Links' /\ CleanFamilies'
  BY <1>0 DEF FamiliesInv
<1> DEFINE Still == /\ Used' = Used /\ KeepsRows(Used) /\ MarksGrow
                    /\ Versioning' \subseteq Versioning
                    /\ \A s \in Versioning' : GoesOn(s)
                    /\ \A s \in Versioning \ Versioning' :
                         pc[s] \in {"create", "note"} \/ {req[s].root, req[s].item} \subseteq muddled'
<1>1. Still => Links' /\ CleanFamilies'
  BY <1>0, StillStep
<1>2. row' = row => Used' = Used /\ KeepsRows(Used)
  BY DEF Used, Exists, KeepsRows
<1>3. ASSUME NEW r \in Requests, NEW stage \in Stages, NEW q, Goto(r, stage, q)
      PROVE  /\ pc'[r] = stage /\ req'[r] = q
             /\ \A s \in Requests \ {r} : pc'[s] = pc[s] /\ req'[s] = req[s]
  BY <1>0, <1>3 DEF RecordsTypeOK, Goto
<1>4. ASSUME NEW r \in Requests, NEW stage \in Stages, Goto(r, stage, req[r]),
             \/ {pc[r], stage} \subseteq {"record", "index", "mark"}
             \/ /\ <<pc[r], stage>> \in {<<"mark", "fields">>, <<"fields", "note">>}
                /\ {req[r].root, req[r].item} \subseteq muddled'
      PROVE  Versioning' = Versioning /\ \A s \in Versioning' : GoesOn(s)
  <2>1. pc'[r] = stage /\ req'[r] = req[r]
        /\ \A s \in Requests \ {r} : pc'[s] = pc[s] /\ req'[s] = req[s]
    BY <1>3, <1>4
  <2>2. \A s \in Requests : req'[s] = req[s] /\ GoesOn(s)
    BY <1>4, <2>1 DEF GoesOn
  <2>3. QED
    BY <2>2 DEF Versioning
<1>5. ASSUME NEW r \in Requests, Return(r)
      PROVE  Versioning' = Versioning \ {r} /\ \A s \in Versioning' : GoesOn(s)
  <2>1. req'[r].op = "none" /\ \A s \in Requests \ {r} : pc'[s] = pc[s] /\ req'[s] = req[s]
    BY <1>3, <1>5 DEF Return, Stages, NoReq
  <2>2. Versioning' = Versioning \ {r}
    BY <2>1 DEF Versioning
  <2>3. QED
    BY <2>1, <2>2 DEF GoesOn, Versioning
<1>6. ASSUME NEW r \in Requests, Upload(r) \/ CreateVersion(r) PROVE Links' /\ CleanFamilies'
  BY <1>0, <1>6, InsertStep
<1>7. ASSUME NEW r \in Requests, NEW p \in Items, UploadNewVersion(r, p)
      PROVE  Links' /\ CleanFamilies'
  BY <1>0, <1>7, StartStep
<1>8. ASSUME NEW r \in Requests, UploadFails(r) \/ RecordVersion(r) PROVE Still
  BY <1>2, <1>5, <1>8 DEF UploadFails, RecordVersion, MarksGrow, history
<1>9. ASSUME NEW r \in Requests, Interrupted(r) PROVE Still
  <2>1. Return(r) /\ MarksGrow /\ row' = row
        /\ (r \in Versioning /\ pc[r] # "note" => {req[r].root, req[r].item} \subseteq muddled')
    BY <1>9 DEF Interrupted, MarksGrow
  <2>2. QED
    BY <1>2, <1>5, <2>1
<1>10. ASSUME NEW r \in Requests, RecordEvent(r) PROVE Still
  <2>1. Goto(r, "index", req[r]) /\ pc[r] = "record" /\ row' = row /\ MarksGrow
    BY <1>10 DEF RecordEvent, MarksGrow
  <2>2. QED
    BY <1>2, <1>4, <2>1 DEF Stages
<1>11. ASSUME NEW r \in Requests, IndexEvidence(r) PROVE Still
  <2>1. pc[r] = "index" /\ row' = row /\ MarksGrow
    BY <1>11 DEF IndexEvidence, MarksGrow
  <2>2. CASE req[r].op = "version"
    <3>1. Goto(r, "mark", req[r])
      BY <1>11, <2>2 DEF IndexEvidence
    <3>2. QED
      BY <1>2, <1>4, <2>1, <3>1 DEF Stages
  <2>3. CASE req[r].op # "version"
    <3>1. Return(r) /\ r \notin Versioning
      BY <1>11, <2>3 DEF IndexEvidence, Versioning
    <3>2. QED
      BY <1>2, <1>5, <2>1, <3>1
  <2>4. QED
    BY <2>2, <2>3
<1>12. ASSUME NEW r \in Requests, MarkPreviousVersions(r) PROVE Links' /\ CleanFamilies'
  <2>1. CASE UNCHANGED muddled /\
             row' = [i \in Items |-> IF i \in Versions(req[r].root)
                                     THEN [row[i] EXCEPT !.current = FALSE] ELSE row[i]]
    BY <1>0, <1>12, <2>1, MarkStep
  <2>2. CASE row' = row /\ muddled' = muddled \cup {req[r].root, req[r].item}
    <3>1. Goto(r, "fields", req[r]) /\ pc[r] = "mark" /\ MarksGrow
      BY <1>12, <2>2 DEF MarkPreviousVersions, MarksGrow
    <3>2. Still
      BY <1>2, <1>4, <2>2, <3>1 DEF Stages
    <3>3. QED
      BY <1>1, <3>2
  <2>3. QED
    BY <1>12, <2>1, <2>2 DEF MarkPreviousVersions
<1>13. ASSUME NEW r \in Requests, UpdateVersionFields(r) PROVE Links' /\ CleanFamilies'
  <2>1. CASE UNCHANGED muddled /\
             row' = [row EXCEPT ![req[r].item] =
                       [@ EXCEPT !.parent = req[r].root, !.version = req[r].version,
                                 !.current = TRUE]]
    BY <1>0, <1>13, <2>1, FieldsStep
  <2>2. CASE row' = row /\ muddled' = muddled \cup {req[r].root, req[r].item}
    <3>1. Goto(r, "note", req[r]) /\ pc[r] = "fields" /\ MarksGrow
      BY <1>13, <2>2 DEF UpdateVersionFields, MarksGrow
    <3>2. Still
      BY <1>2, <1>4, <2>2, <3>1 DEF Stages
    <3>3. QED
      BY <1>1, <3>2
  <2>3. QED
    BY <1>13, <2>1, <2>2 DEF UpdateVersionFields
<1>14. ASSUME NEW r \in Requests, NEW i \in Items, UpdateMetadata(r, i) \/ TouchMetadata(r, i)
       PROVE  Still
  <2>1. /\ pc[r] = "idle" /\ req'[r].op # "version"
        /\ \A s \in Requests \ {r} : pc'[s] = pc[s] /\ req'[s] = req[s]
    BY <1>0, <1>14, MetadataWrites
  <2>2. r \notin Versioning
    BY <1>0, <2>1 DEF Links
  <2>3. Versioning' = Versioning /\ \A s \in Versioning' : GoesOn(s)
    BY <2>1, <2>2 DEF Versioning, GoesOn
  <2>4. KeepsRows(Used) /\ Used' = Used /\ MarksGrow
    BY <1>0, <1>14 DEF UpdateMetadata, TouchMetadata, RecordsTypeOK, Row, KeepsRows, Used, Exists,
                       MarksGrow
  <2>5. QED
    BY <2>3, <2>4
<1>15. ASSUME NEW i \in Items, MarkDestroyed(i) \/ DeleteFile(i) PROVE Still
  <2>1. KeepsRows(Used) /\ Used' = Used
    BY <1>0, <1>15 DEF MarkDestroyed, DeleteFile, RecordsTypeOK, Row, KeepsRows, Used, Exists
  <2>2. UNCHANGED <<pc, req, muddled, branched>>
    BY <1>15 DEF MarkDestroyed, DeleteFile, history
  <2>3. QED
    BY <2>1, <2>2 DEF MarksGrow, Versioning, GoesOn
<1>16. CASE UNCHANGED recordVars
  BY <1>1, <1>2, <1>16 DEF recordVars, history, MarksGrow, Versioning, GoesOn
<1> HIDE DEF Still
<1>17. QED
  BY <1>1, <1>6, <1>7, <1>8, <1>9, <1>10, <1>11, <1>12, <1>13, <1>14, <1>15, <1>16
     DEF RecordsNext, RequestStep

\* A settled family is the versions of its root, and clean.
LEMMA SettledIsClean ==
  ASSUME RecordsTypeOK, Links, NEW root \in Settled
  PROVE  /\ Family(root) = Versions(root) /\ root \in Clean
         /\ \A i \in Versions(root) : RootId(i) = root
         /\ \A r \in Versioning : req[r].root # root
<1>1. /\ root \in Used /\ row[root].parent = NoItem /\ Family(root) \cap muddled = {}
      /\ \A r \in Versioning : {req[r].item, req[r].root} \cap Family(root) = {}
  BY DEF Settled
<1>2. /\ Versions(root) \subseteq Used /\ root \in Versions(root)
      /\ \A i \in Versions(root) : i = root \/ row[i].parent = root
      /\ NoItem \notin Used
  BY <1>1 DEF Versions, Used, Items, NoItem
<1>3. Versions(root) \subseteq Family(root)
  BY <1>2 DEF Family, HoldsVersions
<1>4. HoldsVersions(Versions(root))
  <2>1. SUFFICES ASSUME NEW i \in Used, row[i].parent \in Versions(root)
                 PROVE  i \in Versions(root)
    BY DEF HoldsVersions
  <2>2. CASE row[i].parent = root
    BY <2>1, <2>2 DEF Versions, Used
  <2>3. CASE row[i].parent # root
    <3> DEFINE p == row[i].parent
    <3>1. row[p].parent = root /\ p # NoItem /\ root # NoItem
      BY <1>1, <1>2, <2>1, <2>3
    <3>2. IsFirst(p)
      BY <3>1 DEF Links
    <3>3. p \in muddled
      BY <3>1, <3>2 DEF IsFirst
    <3>4. QED
      BY <1>1, <1>3, <2>1, <3>3
  <2>4. QED
    BY <2>2, <2>3
<1>5. Family(root) \subseteq Versions(root)
  BY <1>2, <1>4 DEF Family
<1>6. Family(root) = Versions(root)
  BY <1>3, <1>5
<1>7. root \in Clean /\ \A r \in Versioning : req[r].root # root
  BY <1>1, <1>2, <1>6 DEF Clean
<1>8. \A i \in Versions(root) : RootId(i) = root
  BY <1>1, <1>2 DEF RootId
<1>9. QED
  BY <1>6, <1>7, <1>8

(* For any number of requests, items and failures, and however uploads of   *)
(* new versions, updates and destroys interleave: a family on which no      *)
(* versioning works, overlapped or failed has one current member, every     *)
(* member finds the whole family, and, uploaded in a line, the members are  *)
(* numbered 1, 2, ... with the current one last (FamiliesStayWhole).        *)
THEOREM FamiliesAlwaysWhole == RecordsSpec => []FamiliesStayWhole
<1>1. RecordsInit => FamiliesInv
  BY RecordsInitInv, LinksInit DEF FamiliesInv
<1>2. FamiliesInv => FamiliesStayWhole
  <2>1. SUFFICES ASSUME FamiliesInv, NEW root \in Settled
                 PROVE  LET F == Family(root) IN
                        /\ \E i \in F : /\ \A j \in F : row[j].current <=> j = i
                                        /\ root \notin branched => row[i].version = Cardinality(F)
                        /\ \A i \in F : Versions(RootId(i)) = F
                        /\ root \notin branched => {row[i].version : i \in F} = 1..Cardinality(F)
    BY DEF FamiliesStayWhole
  <2>2. /\ Family(root) = Versions(root) /\ root \in Clean
        /\ \A i \in Versions(root) : RootId(i) = root
        /\ \A r \in Versioning : req[r].root # root
    BY <2>1, SettledIsClean DEF FamiliesInv, RecordsInv
  <2>3. Numbered(root) /\ CurrentLast(root)
    BY <2>1, <2>2 DEF FamiliesInv, CleanFamilies
  <2>4. QED
    BY <2>2, <2>3 DEF Numbered, CurrentLast
<1>3. QED
  BY <1>1, <1>2, FamiliesStep, PTL DEF RecordsSpec

------------------------------------------------------------------------------
(* Every event reaches the custody log, is lost, or is still owed.          *)

\* The event a request must write before it indexes, and the one it writes last.
LEMMA OwedParts ==
  ASSUME RecordsTypeOK, RequestsHold, NEW r \in Requests
  PROVE  /\ pc[r] \in {"idle", "create"} => Owed(r) = {}
         /\ pc[r] = "record" => EventOf(req[r]) \in Owed(r)
         /\ pc[r] \in {"mark", "fields", "note"} => Owed(r) = {NewVersionEvent(req[r])}
         /\ pc[r] = "index" => Owed(r) = (IF req[r].op = "version"
                                          THEN {NewVersionEvent(req[r])} ELSE {})
         /\ pc[r] = "record" => Owed(r) = {EventOf(req[r])}
                                  \cup (IF req[r].op = "version"
                                        THEN {NewVersionEvent(req[r])} ELSE {})
BY DEF Owed, RequestsHold

\* Told follows when one request moves on.
LEMMA ToldByOne ==
  ASSUME RecordsTypeOK, NEW r \in Requests, log \subseteq log', lost \subseteq lost',
         \A s \in Requests \ {r} : pc'[s] = pc[s] /\ req'[s] = req[s],
         Owed(r) \subseteq log' \cup lost' \cup Owed(r)'
  PROVE  Told \subseteq Told'
<1>1. \A s \in Requests \ {r} : Owed(s)' = Owed(s)
  BY DEF Owed
<1>2. \A s \in Requests : Owed(s) \subseteq Told'
  BY <1>1 DEF Told
<1>3. QED
  BY <1>2 DEF Told

LEMMA ToldGrows ==
  ASSUME RecordsTypeOK, RequestsHold, [RecordsNext]_recordVars PROVE Told \subseteq Told'
<1> USE DEF Goto, Return, history
<1>0. ASSUME NEW r \in Requests, NEW stage \in Stages, NEW q, Goto(r, stage, q)
      PROVE  /\ pc'[r] = stage /\ req'[r] = q
             /\ \A s \in Requests \ {r} : pc'[s] = pc[s] /\ req'[s] = req[s]
  BY <1>0 DEF RecordsTypeOK
<1>1. ASSUME NEW r \in Requests, NEW stage \in Stages, NEW q, Goto(r, stage, q),
             pc[r] \in {"idle", "create"}, UNCHANGED <<log, lost>>
      PROVE  Told \subseteq Told'
  BY <1>0, <1>1, OwedParts, ToldByOne
<1>2. ASSUME NEW r \in Requests, Upload(r) \/ CreateVersion(r) \/ UploadFails(r)
      PROVE  Told \subseteq Told'
  BY <1>1, <1>2 DEF Upload, CreateVersion, UploadFails, Insert, Stages
<1>3. ASSUME NEW r \in Requests, NEW i \in Items, UploadNewVersion(r, i) PROVE Told \subseteq Told'
  BY <1>1, <1>3 DEF UploadNewVersion, Stages
<1>4. ASSUME NEW r \in Requests, NEW i \in Items, UpdateMetadata(r, i) \/ TouchMetadata(r, i)
      PROVE  Told \subseteq Told'
  BY <1>4, MetadataWrites, OwedParts, ToldByOne
<1>5. ASSUME NEW r \in Requests, RecordEvent(r) PROVE Told \subseteq Told'
  <2>1. pc'[r] = "index" /\ req'[r] = req[r]
        /\ \A s \in Requests \ {r} : pc'[s] = pc[s] /\ req'[s] = req[s]
    BY <1>0, <1>5 DEF RecordEvent, Stages
  <2>2. /\ log \subseteq log' /\ lost \subseteq lost'
        /\ EventOf(req[r]) \in log' \cup lost'
    BY <1>5 DEF RecordEvent
  <2>3. Owed(r) \subseteq {EventOf(req[r])} \cup Owed(r)'
    BY <1>5, <2>1 DEF Owed, RecordEvent, NewVersionEvent
  <2>4. QED
    BY <2>1, <2>2, <2>3, ToldByOne
<1>6. ASSUME NEW r \in Requests, IndexEvidence(r) PROVE Told \subseteq Told'
  <2>1. CASE req[r].op = "version"
    <3>1. pc'[r] = "mark" /\ req'[r] = req[r]
          /\ \A s \in Requests \ {r} : pc'[s] = pc[s] /\ req'[s] = req[s]
      BY <1>0, <1>6, <2>1 DEF IndexEvidence, Stages
    <3>2. Owed(r) \subseteq Owed(r)'
      BY <1>6, <2>1, <3>1 DEF Owed, IndexEvidence, NewVersionEvent
    <3>3. QED
      BY <1>6, <3>1, <3>2, ToldByOne DEF IndexEvidence
  <2>2. CASE req[r].op # "version"
    <3>1. \A s \in Requests \ {r} : pc'[s] = pc[s] /\ req'[s] = req[s]
      BY <1>0, <1>6, <2>2 DEF IndexEvidence, Stages
    <3>2. Owed(r) = {}
      BY <1>6, <2>2 DEF Owed, IndexEvidence
    <3>3. QED
      BY <1>6, <3>1, <3>2, ToldByOne DEF IndexEvidence
  <2>3. QED
    BY <2>1, <2>2
<1>7. ASSUME NEW r \in Requests, MarkPreviousVersions(r) \/ UpdateVersionFields(r)
      PROVE  Told \subseteq Told'
  <2>1. /\ pc[r] \in {"mark", "fields"} /\ pc'[r] \in {"fields", "note"} /\ req'[r] = req[r]
        /\ \A s \in Requests \ {r} : pc'[s] = pc[s] /\ req'[s] = req[s]
        /\ UNCHANGED <<log, lost>>
    BY <1>0, <1>7 DEF MarkPreviousVersions, UpdateVersionFields, Stages
  <2>2. Owed(r) \subseteq Owed(r)'
    BY <2>1 DEF Owed, NewVersionEvent
  <2>3. QED
    BY <2>1, <2>2, ToldByOne
<1>8. ASSUME NEW r \in Requests, RecordVersion(r) PROVE Told \subseteq Told'
  <2>1. /\ \A s \in Requests \ {r} : pc'[s] = pc[s] /\ req'[s] = req[s]
        /\ log \subseteq log' /\ lost \subseteq lost'
        /\ NewVersionEvent(req[r]) \in log' \cup lost'
    BY <1>0, <1>8 DEF RecordVersion, Stages
  <2>2. Owed(r) = {NewVersionEvent(req[r])}
    BY <1>8, OwedParts DEF RecordVersion
  <2>3. QED
    BY <2>1, <2>2, ToldByOne
<1>9. ASSUME NEW r \in Requests, Interrupted(r) PROVE Told \subseteq Told'
  <2>1. /\ \A s \in Requests \ {r} : pc'[s] = pc[s] /\ req'[s] = req[s]
        /\ log' = log /\ lost' = lost \cup Owed(r)
    BY <1>0, <1>9 DEF Interrupted, Stages
  <2>2. QED
    BY <2>1, ToldByOne
<1>10. ASSUME NEW i \in Items, MarkDestroyed(i) \/ DeleteFile(i) PROVE Told \subseteq Told'
  BY <1>10 DEF MarkDestroyed, DeleteFile, Told, Owed, EventOf, NewVersionEvent
<1>11. CASE UNCHANGED recordVars
  BY <1>11 DEF recordVars, Told, Owed, EventOf, NewVersionEvent
<1>12. QED
  BY <1>2, <1>3, <1>4, <1>5, <1>6, <1>7, <1>8, <1>9, <1>10, <1>11 DEF RecordsNext, RequestStep

\* What a row shows is accounted for.
AllAccounted == \A i \in Used : Accounts(RowOf(i)) \subseteq Told

LEMMA AccountedStep ==
  ASSUME RecordsTypeOK, Dense, RequestsHold, AllAccounted, [RecordsNext]_recordVars
  PROVE  AllAccounted'
<1> DEFINE Upl(i) == [action |-> "evidence_uploaded", item |-> i, text |-> 0]
           Upd(i, t) == [action |-> "metadata_updated", item |-> i, text |-> t]
           Ver(i) == [action |-> "new_version_uploaded", item |-> i, text |-> 0]
           Told3(i) == /\ Upl(i) \in Told
                       /\ row[i].text > 0 => Upd(i, row[i].text) \in Told
                       /\ row[i].version > 1 => Ver(i) \in Told
<1>0. Told \subseteq Told'
  BY ToldGrows
<1>1. ASSUME NEW i \in Items PROVE Accounts(RowOf(i)) \subseteq Told <=> Told3(i)
  BY DEF Accounts, RowOf
<1>2. ASSUME NEW i \in Items PROVE (Accounts(RowOf(i)) \subseteq Told)' <=> Told3(i)'
  BY DEF Accounts, RowOf
<1>3. SUFFICES ASSUME NEW i \in Used' PROVE Told3(i)'
  BY <1>2 DEF AllAccounted, Used
<1>4. i \in Items /\ (i \in Used => Told3(i))
  BY <1>1 DEF Used, AllAccounted
<1> HIDE DEF Upl, Upd, Ver
<1>5. ASSUME i \in Used, row'[i].text = row[i].text, row'[i].version = row[i].version
      PROVE  Told3(i)'
  BY <1>0, <1>4, <1>5
<1>6. ASSUME NEW r \in Requests, NEW q, Insert(r, q), q.op \in {"upload", "version"}, q \in Req
      PROVE  Told3(i)'
  <2> DEFINE n == Cardinality(Used) + 1
  <2>1. /\ n \in Items /\ Used' = Used \cup {n}
        /\ row'[n].text = 0 /\ row'[n].version = 1
        /\ \A j \in Items \ {n} : row'[j] = row[j]
        /\ pc' = [pc EXCEPT ![r] = "record"]
        /\ req' = [req EXCEPT ![r] = [q EXCEPT !.item = n]]
    BY <1>6, InsertNext
  <2> HIDE DEF n
  <2>2. CASE i # n
    BY <1>4, <1>5, <2>1, <2>2
  <2>3. CASE i = n
    <3>1. pc'[r] = "record" /\ req'[r].op \in {"upload", "version"} /\ req'[r].item = n
      BY <1>6, <2>1 DEF RecordsTypeOK, Req
    <3>2. Upl(n) \in Owed(r)'
      BY <3>1 DEF Owed, EventOf, Upl
    <3>3. Upl(n) \in Told'
      BY <3>2 DEF Told
    <3>4. QED
      BY <2>1, <2>3, <3>3
  <2>4. QED
    BY <2>2, <2>3
<1>7. ASSUME NEW r \in Requests, Upload(r) \/ CreateVersion(r) PROVE Told3(i)'
  <2>1. [NoReq EXCEPT !.op = "upload"] \in Req /\ [NoReq EXCEPT !.op = "upload"].op = "upload"
    BY NoReqTyped DEF Req, NoReq
  <2>2. CASE Upload(r)
    BY <1>6, <2>1, <2>2 DEF Upload
  <2>3. CASE CreateVersion(r)
    BY <1>6, <2>3 DEF CreateVersion, RequestsHold, RecordsTypeOK
  <2>4. QED
    BY <1>7, <2>2, <2>3
<1>8. CASE \A r \in Requests : ~ Upload(r) /\ ~ CreateVersion(r)
  <2>0. i \in Used
    BY <1>8, UsedElse
  <2>1. CASE row' = row
    BY <1>5, <2>0, <2>1
  <2>2. ASSUME NEW r \in Requests, MarkPreviousVersions(r) \/ UpdateVersionFields(r)
        PROVE  Told3(i)'
    <3>1. /\ row'[i].text = row[i].text
          /\ \/ row'[i].version = row[i].version
             \/ pc[r] = "fields" /\ i = req[r].item
      BY <1>4, <2>2, VersioningRows
    <3>2. CASE row'[i].version = row[i].version
      BY <1>5, <2>0, <3>1, <3>2
    <3>3. CASE pc[r] = "fields" /\ i = req[r].item
      <4>1. Ver(i) \in Owed(r)
        BY <3>3, OwedParts DEF Ver, NewVersionEvent
      <4>2. Ver(i) \in Told
        BY <4>1 DEF Told
      <4>3. QED
        BY <1>0, <1>4, <2>0, <3>1, <4>2
    <3>4. QED
      BY <3>1, <3>2, <3>3
  <2>3. ASSUME NEW r \in Requests, NEW j \in Items, UpdateMetadata(r, j) \/ TouchMetadata(r, j)
        PROVE  Told3(i)'
    <3>1. /\ pc'[r] = "record" /\ req'[r].item = j /\ req'[r].text = row'[j].text
          /\ req'[r].op = "update" \/ row' = row
          /\ row'[j].version = row[j].version
          /\ \A k \in Items \ {j} : row'[k] = row[k]
      BY <2>3, MetadataWrites
    <3>2. CASE i = j /\ req'[r].op = "update"
      <4>1. Upd(i, row'[i].text) \in Owed(r)'
        BY <3>1, <3>2 DEF Owed, EventOf, Upd
      <4>2. Upd(i, row'[i].text) \in Told'
        BY <4>1 DEF Told
      <4>3. QED
        BY <1>0, <1>4, <2>0, <3>1, <3>2, <4>2
    <3>3. CASE i # j
      BY <1>4, <1>5, <2>0, <3>1, <3>3
    <3>4. QED
      BY <2>1, <3>1, <3>2, <3>3
  <2>4. ASSUME NEW j \in Items, MarkDestroyed(j) \/ DeleteFile(j) PROVE Told3(i)'
    <3>1. row'[i].text = row[i].text /\ row'[i].version = row[i].version
      BY <1>4, <2>4 DEF MarkDestroyed, DeleteFile, RecordsTypeOK, Row
    <3>2. QED
      BY <1>5, <2>0, <3>1
  <2>5. ASSUME NEW r \in Requests, \/ UploadFails(r) \/ RecordEvent(r) \/ IndexEvidence(r)
                                   \/ RecordVersion(r) \/ Interrupted(r)
                                   \/ \E j \in Items : UploadNewVersion(r, j)
        PROVE  row' = row
    BY <2>5 DEF UploadFails, RecordEvent, IndexEvidence, RecordVersion, Interrupted,
                UploadNewVersion
  <2>6. UNCHANGED recordVars => row' = row
    BY DEF recordVars
  <2>7. QED
    BY <1>8, <2>1, <2>2, <2>3, <2>4, <2>5, <2>6 DEF RecordsNext, RequestStep
<1>9. QED
  BY <1>7, <1>8

------------------------------------------------------------------------------
(* The export.                                                              *)

Inv == RecordsInv /\ ExportInv

LEMMA InitInv == Init => Inv
<1> SUFFICES ASSUME Init PROVE Inv
  OBVIOUS
<1> USE DEF Init, ExportInit
<1>1. RecordsInv
  BY RecordsInitInv
<1>2. TypeOK
  BY <1>1 DEF RecordsInv, TypeOK, ExportStages, Archives
<1>3. Used = {}
  BY DEF RecordsInit, NoRow, Used, Exists
<1>4. RowsAccounted /\ LogCoversItems
  BY <1>3 DEF RowsAccounted, LogCoversItems, Parts
<1>5. PartsFollow /\ MarkedWholeIsWhole
  BY DEF PartsFollow, MarkedWholeIsWhole, ListedItems
<1>6. QED
  BY <1>1, <1>2, <1>4, <1>5 DEF Inv, ExportInv

\* What goes on beside the export changes nothing of it.
LEMMA BesideStep ==
  ASSUME Inv, [RecordsNext]_recordVars, UNCHANGED exportVars PROVE Inv'
<1> USE DEF exportVars, contents
<1>1. RecordsInv'
  BY RecordsStep DEF Inv
<1>2. TypeOK'
  BY <1>1 DEF Inv, ExportInv, RecordsInv, TypeOK
<1>3. RowsAccounted'
  <2>1. AllAccounted' /\ Told \subseteq Told'
    BY AccountedStep, ToldGrows DEF Inv, RecordsInv, ExportInv, RowsAccounted, AllAccounted
  <2>2. (xpc = "log" => \A x \in listed : Accounts(x) \subseteq Told)'
    <3>1. \A x : Accounts(x)' = Accounts(x)
      BY DEF Accounts
    <3>2. QED
      BY <2>1, <3>1 DEF Inv, ExportInv, RowsAccounted
  <2>3. QED
    BY <2>1, <2>2 DEF RowsAccounted, AllAccounted
<1>4. LogCoversItems'
  BY DEF Inv, ExportInv, LogCoversItems, Accounts
<1>5. PartsFollow' /\ MarkedWholeIsWhole'
  BY DEF Inv, ExportInv, PartsFollow, MarkedWholeIsWhole, ListedItems
<1>6. QED
  BY <1>1, <1>2, <1>3, <1>4, <1>5 DEF Inv, ExportInv

\* The step of the export keeps the variables of the export in their sets.
LEMMA ExportTypeStep == ASSUME Inv, ExportStep, UNCHANGED recordVars PROVE TypeOK'
<1> USE DEF Inv, ExportInv, TypeOK, contents
<1>0. RecordsTypeOK'
  BY DEF RecordsTypeOK, recordVars, history
<1> USE DEF ExportStages, Archives, Parts
<1>1. CASE ListItems
  <2>1. \A i \in Items : [item |-> i, version |-> row[i].version, text |-> row[i].text] \in ListedRow
    BY DEF RecordsTypeOK, Row, ListedRow
  <2>2. listed' \in SUBSET ListedRow
    BY <1>1, <2>1 DEF ListItems
  <2>3. QED
    BY <1>0, <1>1, <2>2 DEF ListItems
<1>2. CASE ReadLog
  <2>1. \A r \in Requests : Owed(r) \subseteq Event
    BY OwedTyped DEF RecordsInv
  <2>2. xlog' \in SUBSET Event /\ excused' \in SUBSET Event
    BY <1>2, <2>1 DEF ReadLog, RecordsTypeOK
  <2>3. QED
    BY <1>0, <1>2, <2>2 DEF ReadLog
<1>3. CASE LoadFails \/ FileFails \/ ClientGone \/ RecordExport
  BY <1>0, <1>3 DEF LoadFails, FileFails, ClientGone, RecordExport, ExportReturns
<1>4. CASE WriteHead \/ WriteTables \/ WriteReadme \/ FilesWritten
  BY <1>0, <1>4 DEF WriteHead, WriteTables, WriteReadme, FilesWritten, WritePart
<1>5. ASSUME NEW i \in Items, CopyFile(i) PROVE TypeOK'
  BY <1>0, <1>5 DEF CopyFile
<1>6. CASE CloseArchive
  BY <1>0, <1>6 DEF CloseArchive
<1>7. QED
  BY <1>1, <1>2, <1>3, <1>4, <1>5, <1>6 DEF ExportStep

\* The rows are listed first and the log is read after: what the rows show is in
\* the log, lost or owed at that moment.
LEMMA CoverStep ==
  ASSUME Inv, ExportStep, UNCHANGED recordVars PROVE RowsAccounted' /\ LogCoversItems'
<1> USE DEF Inv, ExportInv, contents
<1>0. \A x : Accounts(x)' = Accounts(x)
  BY DEF Accounts
<1>1. AllAccounted' /\ Told' = Told
  BY DEF RowsAccounted, AllAccounted, Used, Exists, Accounts, RowOf, Told, Owed, EventOf,
         NewVersionEvent, recordVars, history
<1>2. CASE ListItems
  <2>1. \A x \in listed' : Accounts(x) \subseteq Told
    BY <1>2 DEF ListItems, RowsAccounted, RowOf, Used, Exists
  <2>2. QED
    BY <1>0, <1>1, <1>2, <2>1 DEF ListItems, RowsAccounted, LogCoversItems, AllAccounted, Parts
<1>3. CASE ReadLog
  <2>1. xlog' \cup excused' = Told
    BY <1>3 DEF ReadLog, Told
  <2>2. \A x \in listed' : Accounts(x) \subseteq xlog' \cup excused'
    BY <1>3, <2>1 DEF ReadLog, RowsAccounted
  <2>3. QED
    BY <1>0, <1>1, <1>3, <2>2 DEF ReadLog, RowsAccounted, LogCoversItems, AllAccounted
<1>4. CASE LoadFails \/ FileFails \/ ClientGone \/ RecordExport
  BY <1>1, <1>4 DEF LoadFails, FileFails, ClientGone, RecordExport, ExportReturns,
                    RowsAccounted, LogCoversItems, AllAccounted, Parts
<1>5. ASSUME xpc \in Parts \cup {"close", "note"}, xpc' # "log", UNCHANGED <<listed, xlog, excused>>
      PROVE  RowsAccounted' /\ LogCoversItems'
  BY <1>0, <1>1, <1>5 DEF RowsAccounted, LogCoversItems, AllAccounted
<1>6. CASE WriteHead \/ WriteTables \/ WriteReadme \/ FilesWritten
  BY <1>5, <1>6 DEF WriteHead, WriteTables, WriteReadme, FilesWritten, WritePart, Parts
<1>7. ASSUME NEW i \in Items, CopyFile(i) PROVE RowsAccounted' /\ LogCoversItems'
  BY <1>5, <1>7 DEF CopyFile, Parts
<1>8. CASE CloseArchive
  BY <1>5, <1>8 DEF CloseArchive
<1>9. QED
  BY <1>2, <1>3, <1>4, <1>6, <1>7, <1>8 DEF ExportStep

\* The parts are written in order, the files before the tables, the event last.
LEMMA PartsStep ==
  ASSUME Inv, ExportStep, UNCHANGED recordVars PROVE PartsFollow' /\ MarkedWholeIsWhole'
<1> USE DEF Inv, ExportInv, contents, PartsFollow, MarkedWholeIsWhole, ListedItems, Parts
<1>1. CASE ListItems
  BY <1>1 DEF ListItems
<1>2. CASE ReadLog
  BY <1>2 DEF ReadLog
<1>3. CASE LoadFails \/ FileFails \/ ClientGone
  BY <1>3 DEF LoadFails, FileFails, ClientGone, ExportReturns
<1>4. CASE WriteHead \/ WriteTables
  BY <1>4 DEF WriteHead, WriteTables, WritePart
<1>5. CASE WriteReadme
  BY <1>5 DEF WriteReadme, WritePart
<1>6. CASE FilesWritten
  BY <1>6 DEF FilesWritten, WritePart
<1>7. ASSUME NEW i \in Items, CopyFile(i) PROVE PartsFollow' /\ MarkedWholeIsWhole'
  BY <1>7 DEF CopyFile
<1>8. CASE CloseArchive
  BY <1>8 DEF CloseArchive
<1>9. CASE RecordExport
  BY <1>9 DEF RecordExport, ExportReturns
<1>10. QED
  BY <1>1, <1>2, <1>3, <1>4, <1>5, <1>6, <1>7, <1>8, <1>9 DEF ExportStep

LEMMA NextInv == Inv /\ [Next]_vars => Inv'
<1> SUFFICES ASSUME Inv, [Next]_vars PROVE Inv'
  OBVIOUS
<1>1. CASE RecordsNext /\ UNCHANGED exportVars
  BY <1>1, BesideStep
<1>2. CASE ExportStep /\ UNCHANGED recordVars
  <2>1. RecordsInv'
    BY <1>2, RecordsStep DEF Inv
  <2>2. ExportInv'
    BY <1>2, ExportTypeStep, CoverStep, PartsStep DEF ExportInv
  <2>3. QED
    BY <2>1, <2>2 DEF Inv
<1>3. CASE UNCHANGED vars
  BY <1>3, BesideStep DEF vars
<1>4. QED
  BY <1>1, <1>2, <1>3 DEF Next

(* An export beside any number of requests keeps ExportInv: its type, what  *)
(* the rows show accounted for, and the order of the parts.                 *)
THEOREM ExportInvariant == Spec => []ExportInv
<1>1. Inv => ExportInv
  BY DEF Inv
<1>2. QED
  BY <1>1, InitInv, NextInv, PTL DEF Spec

(* For any number of requests and items, and wherever they are while the    *)
(* export reads: the custody log of the export accounts for every row       *)
(* exported with it (LogCoversItems).                                       *)
THEOREM LogAlwaysCoversItems == Spec => []LogCoversItems
<1>1. ExportInv => LogCoversItems
  BY DEF ExportInv
<1>2. QED
  BY <1>1, ExportInvariant, PTL

(* Whatever is destroyed, fails or hangs up on the way: an archive with its *)
(* last part, or one the custody log calls exported, is whole.              *)
THEOREM MarkedArchivesAreWhole == Spec => []MarkedWholeIsWhole
<1>1. ExportInv => MarkedWholeIsWhole
  BY DEF ExportInv
<1>2. QED
  BY <1>1, ExportInvariant, PTL

(* The records behave with an export beside them as they do alone.          *)
THEOREM ExportKeepsRecords == Spec => RecordsSpec
<1>1. Init => RecordsInit
  BY DEF Init
<1>2. [Next]_vars => [RecordsNext]_recordVars
  BY DEF Next, vars
<1>3. QED
  BY <1>1, <1>2, PTL DEF Spec, RecordsSpec

==============================================================================
