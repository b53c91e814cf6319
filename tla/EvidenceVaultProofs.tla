------------------------- MODULE EvidenceVaultProofs -------------------------
(***************************************************************************)
(* Proofs about EvidenceVault for any number of requests and any bounds.   *)
(* The invariant is a conjunction of parts, each kept by every step given  *)
(* itself and the parts before it: the types, what a Destroy may rely on   *)
(* (HoldInv), the ownership of new items (OwnInv), the uniqueness of a     *)
(* destruction (OnceInv) and of numbers (NumberInv), and the agreement of  *)
(* rows and objects (FileInv, HeldInv, ThumbInv).                          *)
(***************************************************************************)
EXTENDS EvidenceVault, TLAPS

\* TypeOK in two parts, for the requests and for all else.
ControlOK ==
  /\ pc \in [Requests -> Stages]
  /\ req \in [Requests -> Req]
  /\ free \in [Requests -> Free]
  /\ reads \in Nat
  /\ \A r \in Requests :
       pc[r] \notin {"idle", "number", "put"} => req[r].item \in Items

DataOK ==
  /\ status \in Statuses /\ hold \in BOOLEAN
  /\ counter \in Nat /\ keys \in 0..MaxUploads
  /\ row \in [Items -> {"none", "live", "destroyed"}]
  /\ number \in [Items -> Nat]
  /\ thumbKey \subseteq Items /\ files \subseteq Items /\ thumbs \subseteq Items
  /\ thumbJob \in [Items -> {"none", "generate", "link"}]
  /\ destroyed \in [Items -> Nat]
  /\ fault \in [Items -> Faults]

\* TypeOK is its two parts.
LEMMA TypeParts == TypeOK <=> ControlOK /\ DataOK
BY DEF TypeOK, ControlOK, DataOK

\* Moving to another stage keeps the types of the requests.
LEMMA GotoType ==
  ASSUME NEW r \in Requests, NEW stage \in Stages, ControlOK, Goto(r, stage),
         pc[r] \in {"idle", "number", "put"} => stage \in {"idle", "number", "put"}
  PROVE  ControlOK'
BY DEF Goto, ControlOK

\* So does a return.
LEMMA ReturnType ==
  ASSUME NEW r \in Requests, ControlOK, Return(r)
  PROVE  ControlOK'
BY DEF Return, ControlOK, NoReq, NoFree, Req, Free, Stages, NoItem

\* Blaming an item keeps the types of the faults.
LEMMA BlameType ==
  ASSUME NEW i \in Items, NEW f \in Faults, fault \in [Items -> Faults], Blame(i, f)
  PROVE  fault' \in [Items -> Faults]
BY DEF Blame, Worse, Faults

\* A key drawn below the bound is an item.
LEMMA KeysType ==
  ASSUME DataOK, keys < MaxUploads
  PROVE  keys + 1 \in Items
BY VaultAssumption DEF DataOK, Items

\* The initial state has its type.
LEMMA TypeInit == Init => ControlOK /\ DataOK
<1> SUFFICES ASSUME Init PROVE ControlOK /\ DataOK
  OBVIOUS
<1>1. NoReq \in Req /\ NoFree \in Free /\ "idle" \in Stages
  BY DEF NoReq, Req, NoFree, Free, Stages
<1>2. ControlOK
  BY <1>1 DEF Init, ControlOK
<1>3. keys \in 0..MaxUploads
  BY VaultAssumption DEF Init
<1>4. /\ fault \in [Items -> Faults]
      /\ row \in [Items -> {"none", "live", "destroyed"}]
      /\ thumbJob \in [Items -> {"none", "generate", "link"}]
  BY DEF Init, Faults
<1>5. number \in [Items -> Nat] /\ destroyed \in [Items -> Nat]
  BY DEF Init
<1>6. DataOK
  BY <1>3, <1>4, <1>5 DEF Init, DataOK, Statuses
<1>7. QED
  BY <1>2, <1>6

\* Every step keeps every variable in its set.
LEMMA TypeStep == ControlOK /\ DataOK /\ [Next]_vars => ControlOK' /\ DataOK'
<1> SUFFICES ASSUME ControlOK, DataOK, [Next]_vars PROVE ControlOK' /\ DataOK'
  OBVIOUS
<1> USE
      DEF caseState, rowState, objects, control, Stages, UploadStages,
       DestroyStages, DownloadStages
<1>1. ASSUME NEW r \in Requests, Upload(r)
      PROVE  ControlOK' /\ DataOK'
  <2>1. ControlOK'
    BY <1>1, GotoType DEF Upload, ControlOK
  <2>2. DataOK'
    BY <1>1 DEF Upload, ControlOK, DataOK, Goto, Req, Faults
  <2>3. QED
    BY <2>1, <2>2
<1>2. ASSUME NEW r \in Requests, NextNumber(r)
      PROVE  ControlOK' /\ DataOK'
  <2>1. ControlOK'
    BY <1>2 DEF NextNumber, DataOK, ControlOK, Req, Free, NoItem
  <2>2. DataOK'
    BY <1>2 DEF NextNumber, ControlOK, DataOK, Req, Faults
  <2>3. QED
    BY <2>1, <2>2
<1>3. ASSUME NEW r \in Requests, PutFile(r)
      PROVE  ControlOK' /\ DataOK'
  <2>1. keys' \in Items /\ keys' \in 0..MaxUploads
    BY <1>3, KeysType DEF PutFile, Items
  <2>2. ControlOK'
    BY <1>3, <2>1 DEF PutFile, ControlOK, Req
  <2>3. DataOK'
    BY <1>3, <2>1 DEF PutFile, DataOK
  <2>4. QED
    BY <2>2, <2>3
<1>4. ASSUME NEW r \in Requests, PutFails(r)
      PROVE  ControlOK' /\ DataOK'
  <2>1. keys' \in Items /\ keys' \in 0..MaxUploads
    BY <1>4, KeysType DEF PutFails, Items
  <2>2. ControlOK'
    BY <1>4, ReturnType DEF PutFails
  <2>3. fault' \in [Items -> Faults]
    BY <1>4, <2>1, BlameType DEF PutFails, DataOK, Faults
  <2>4. DataOK'
    BY <1>4, <2>1, <2>3 DEF PutFails, DataOK
  <2>5. QED
    BY <2>2, <2>4
<1>5. ASSUME NEW r \in Requests, CreateRow(r)
      PROVE  ControlOK' /\ DataOK'
  <2>1. ControlOK'
    BY <1>5, GotoType DEF CreateRow, ControlOK
  <2>2. DataOK'
    BY <1>5 DEF CreateRow, ControlOK, DataOK, Goto, InsertRow, Req, Faults
  <2>3. QED
    BY <2>1, <2>2
<1>6. ASSUME NEW r \in Requests, CreateFails(r)
      PROVE  ControlOK' /\ DataOK'
  <2>1. ControlOK'
    BY <1>6, GotoType DEF CreateFails, ControlOK
  <2>2. DataOK'
    BY <1>6, BlameType
       DEF CreateFails, ControlOK, DataOK, Goto, InsertRow, Req, Faults, Worse
  <2>3. QED
    BY <2>1, <2>2
<1>7. ASSUME NEW r \in Requests, Cleanup(r)
      PROVE  ControlOK' /\ DataOK'
  <2>1. ControlOK'
    BY <1>7, ReturnType DEF Cleanup, ControlOK
  <2>2. DataOK'
    BY <1>7, BlameType DEF Cleanup, ControlOK, DataOK, Return, Req, Faults, Worse
  <2>3. QED
    BY <2>1, <2>2
<1>8. ASSUME NEW r \in Requests, RecordUpload(r)
      PROVE  ControlOK' /\ DataOK'
  <2>1. ControlOK'
    BY <1>8, ReturnType DEF RecordUpload, ControlOK
  <2>2. DataOK'
    BY <1>8 DEF RecordUpload, ControlOK, DataOK, Return, Req, Faults
  <2>3. QED
    BY <2>1, <2>2
<1>9. ASSUME NEW r \in Requests, CheckStatus(r)
      PROVE  ControlOK' /\ DataOK'
  <2>1. ControlOK'
    BY <1>9, GotoType, ReturnType DEF CheckStatus, ControlOK
  <2>2. DataOK'
    BY <1>9 DEF CheckStatus, ControlOK, DataOK, Goto, Return, Req, Faults
  <2>3. QED
    BY <2>1, <2>2
<1>10. ASSUME NEW r \in Requests, CheckHold(r)
       PROVE  ControlOK' /\ DataOK'
  <2>1. ControlOK'
    BY <1>10, GotoType, ReturnType DEF CheckHold, ControlOK
  <2>2. DataOK'
    BY <1>10 DEF CheckHold, ControlOK, DataOK, Goto, Return, Req, Faults
  <2>3. QED
    BY <2>1, <2>2
<1>11. ASSUME NEW r \in Requests, MarkDestroyed(r)
       PROVE  ControlOK' /\ DataOK'
  <2>1. ControlOK'
    BY <1>11, GotoType, ReturnType DEF MarkDestroyed, ControlOK
  <2>2. DataOK'
    BY <1>11, BlameType
       DEF MarkDestroyed, ControlOK, DataOK, Goto, Return, Req, Faults, Worse
  <2>3. QED
    BY <2>1, <2>2
<1>12. ASSUME NEW r \in Requests, DeleteFile(r)
       PROVE  ControlOK' /\ DataOK'
  <2>1. ControlOK'
    BY <1>12, GotoType DEF DeleteFile, ControlOK
  <2>2. DataOK'
    BY <1>12, BlameType DEF DeleteFile, ControlOK, DataOK, Goto, Req, Faults, Worse
  <2>3. QED
    BY <2>1, <2>2
<1>13. ASSUME NEW r \in Requests, DeleteThumb(r)
       PROVE  ControlOK' /\ DataOK'
  <2>1. ControlOK'
    BY <1>13, GotoType DEF DeleteThumb, ControlOK
  <2>2. DataOK'
    BY <1>13, BlameType DEF DeleteThumb, ControlOK, DataOK, Goto, Req, Faults, Worse
  <2>3. QED
    BY <2>1, <2>2
<1>14. ASSUME NEW r \in Requests, RecordDestroyed(r)
       PROVE  ControlOK' /\ DataOK'
  <2>1. ControlOK'
    BY <1>14, ReturnType DEF RecordDestroyed, ControlOK
  <2>2. DataOK'
    BY <1>14 DEF RecordDestroyed, ControlOK, DataOK, Return, Req, Faults
  <2>3. QED
    BY <2>1, <2>2
<1>15. ASSUME NEW r \in Requests, Fetch(r)
       PROVE  ControlOK' /\ DataOK'
  <2>1. ControlOK'
    BY <1>15, GotoType, ReturnType DEF Fetch, ControlOK
  <2>2. DataOK'
    BY <1>15 DEF Fetch, ControlOK, DataOK, Goto, Return, Req, Faults
  <2>3. QED
    BY <2>1, <2>2
<1>16. ASSUME NEW r \in Requests, Served(r)
       PROVE  ControlOK' /\ DataOK'
  <2>1. ControlOK'
    BY <1>16, ReturnType DEF Served, ControlOK
  <2>2. DataOK'
    BY <1>16 DEF Served, ControlOK, DataOK, Return, Req, Faults
  <2>3. QED
    BY <2>1, <2>2
<1>17. ASSUME NEW r \in Requests, Refuse(r)
       PROVE  ControlOK' /\ DataOK'
  <2>1. ControlOK'
    BY <1>17, ReturnType DEF Refuse, ControlOK
  <2>2. DataOK'
    BY <1>17 DEF Refuse, ControlOK, DataOK, Return, Req, Faults
  <2>3. QED
    BY <2>1, <2>2
<1>18. ASSUME NEW r \in Requests, NEW i \in Items, Destroy(r, i)
       PROVE  ControlOK' /\ DataOK'
  <2> DEFINE q == [item |-> i, num |-> 0, thumbs |-> {i} \cap thumbKey]
  <2>1. q \in Req
    BY DEF Req
  <2>2. FreeNow(status, hold) \in Free
    BY DEF DataOK, FreeNow, Free
  <2>3. /\ q.item = i
        /\ pc' = [pc EXCEPT ![r] = "status"]
        /\ req' = [req EXCEPT ![r] = q]
        /\ free' = [free EXCEPT ![r] = FreeNow(status, hold)]
        /\ reads' = reads + 1
    BY <1>18 DEF Destroy, ControlOK, Req
  <2> HIDE DEF q
  <2>4. ControlOK'
    BY <2>1, <2>2, <2>3 DEF ControlOK
  <2>5. DataOK'
    BY <1>18 DEF Destroy, DataOK
  <2>6. QED
    BY <2>4, <2>5
<1>19. ASSUME NEW r \in Requests, NEW i \in Items, Download(r, i)
       PROVE  ControlOK' /\ DataOK'
  <2>1. [req[r] EXCEPT !.item = i] \in Req
    BY DEF ControlOK, Req
  <2>2. /\ pc' \in [Requests -> Stages]
        /\ req' \in [Requests -> Req]
        /\ reads' \in Nat
        /\ UNCHANGED free
    BY <1>19, <2>1 DEF Download, ControlOK
  <2>3. \A q \in Requests : q # r => pc'[q] = pc[q] /\ req'[q] = req[q]
    BY <1>19 DEF Download, ControlOK
  <2>4. req'[r].item = i
    BY <1>19 DEF Download, ControlOK, Req
  <2>5. ControlOK'
    BY <2>2, <2>3, <2>4 DEF ControlOK
  <2>6. DataOK'
    BY <1>19 DEF Download, DataOK
  <2>7. QED
    BY <2>5, <2>6
<1>20. ASSUME NEW i \in Items, StoreThumb(i)
       PROVE  ControlOK' /\ DataOK'
  <2>1. ControlOK'
    BY <1>20 DEF StoreThumb, ControlOK
  <2>2. DataOK'
    BY <1>20 DEF StoreThumb, ControlOK, DataOK, Req, Faults
  <2>3. QED
    BY <2>1, <2>2
<1>21. ASSUME NEW i \in Items, LinkThumb(i)
       PROVE  ControlOK' /\ DataOK'
  <2>1. ControlOK'
    BY <1>21 DEF LinkThumb, ControlOK
  <2>2. DataOK'
    BY <1>21 DEF LinkThumb, ControlOK, DataOK, Req, Faults
  <2>3. QED
    BY <2>1, <2>2
<1>22. ASSUME NEW i \in Items, SkipThumb(i)
       PROVE  ControlOK' /\ DataOK'
  <2>1. ControlOK'
    BY <1>22 DEF SkipThumb, ControlOK
  <2>2. DataOK'
    BY <1>22, BlameType DEF SkipThumb, ControlOK, DataOK, Req, Faults, Worse
  <2>3. QED
    BY <2>1, <2>2
<1>23. ASSUME NEW i \in Items, LinkFails(i)
       PROVE  ControlOK' /\ DataOK'
  <2>1. ControlOK'
    BY <1>23 DEF LinkFails, ControlOK
  <2>2. DataOK'
    BY <1>23, BlameType DEF LinkFails, ControlOK, DataOK, Req, Faults, Worse
  <2>3. QED
    BY <2>1, <2>2
<1>24. CASE Crash
  <2>1. ControlOK'
    BY <1>24 DEF Crash, DataOK, ControlOK, Req, Free, NoReq, NoFree, NoItem
  <2>2. DataOK'
    BY <1>24 DEF Crash, ControlOK, DataOK, Req, Faults, Worse
  <2>3. QED
    BY <2>1, <2>2
<1>25. CASE CaseChanges
  <2>1. ControlOK'
    BY <1>25 DEF CaseChanges, DataOK, ControlOK, Req, Free, Remember, NoItem
  <2>2. DataOK'
    BY <1>25 DEF CaseChanges, ControlOK, DataOK, Req, Faults
  <2>3. QED
    BY <2>1, <2>2
<1>26. CASE UNCHANGED vars
  BY <1>26 DEF vars, DataOK, ControlOK
<1>27. QED
  BY <1>1, <1>2, <1>3, <1>4, <1>5, <1>6, <1>7, <1>8, <1>9, <1>10, <1>11, <1>12,
     <1>13, <1>14, <1>15, <1>16, <1>17, <1>18, <1>19, <1>20, <1>21, <1>22, <1>23,
     <1>24, <1>25, <1>26 DEF Next, VaultNext, RequestStep, ThumbStep

\* Moving on touches one request's stage and nothing else of the requests.
LEMMA GotoShape ==
  ASSUME NEW r \in Requests, NEW stage, ControlOK, Goto(r, stage)
  PROVE  /\ pc'[r] = stage
         /\ \A q \in Requests : q # r => pc'[q] = pc[q]
         /\ UNCHANGED <<req, free>>
BY DEF Goto, ControlOK

\* A return resets one request and leaves the others alone.
LEMMA ReturnShape ==
  ASSUME NEW r \in Requests, ControlOK, Return(r)
  PROVE  /\ pc'[r] = "idle"
         /\ req'[r] = NoReq
         /\ \A q \in Requests :
              q # r => pc'[q] = pc[q] /\ req'[q] = req[q] /\ free'[q] = free[q]
BY DEF Return, ControlOK

\* What a Destroy has checked was so at some moment since it began.
HoldInv ==
  \A r \in Requests : pc[r] \in DestroyStages =>
    /\ status # "archived" => free[r].archive
    /\ ~hold => free[r].hold
    /\ pc[r] # "status" => free[r].archive
    /\ pc[r] \notin {"status", "hold"} => free[r].hold

\* Requests under way remember what the case allowed.
LEMMA HoldStep == ControlOK /\ DataOK /\ HoldInv /\ [Next]_vars => HoldInv'
<1> SUFFICES ASSUME ControlOK, DataOK, HoldInv, [Next]_vars PROVE HoldInv'
  OBVIOUS
<1> USE DEF caseState, rowState, objects, control, HoldInv, DestroyStages, ControlOK
<1>1. ASSUME NEW r \in Requests, Upload(r)
      PROVE  HoldInv'
  BY <1>1, GotoShape DEF Upload
<1>2. ASSUME NEW r \in Requests, NextNumber(r)
      PROVE  HoldInv'
  BY <1>2 DEF NextNumber
<1>3. ASSUME NEW r \in Requests, PutFile(r)
      PROVE  HoldInv'
  BY <1>3 DEF PutFile
<1>4. ASSUME NEW r \in Requests, PutFails(r)
      PROVE  HoldInv'
  BY <1>4, ReturnShape DEF PutFails, Blame, Worse
<1>5. ASSUME NEW r \in Requests, CreateRow(r)
      PROVE  HoldInv'
  BY <1>5, GotoShape DEF CreateRow, InsertRow
<1>6. ASSUME NEW r \in Requests, CreateFails(r)
      PROVE  HoldInv'
  BY <1>6, GotoShape DEF CreateFails, Blame, Worse, InsertRow
<1>7. ASSUME NEW r \in Requests, Cleanup(r)
      PROVE  HoldInv'
  BY <1>7, ReturnShape DEF Cleanup, Blame, Worse
<1>8. ASSUME NEW r \in Requests, RecordUpload(r)
      PROVE  HoldInv'
  BY <1>8, ReturnShape DEF RecordUpload
<1>9. ASSUME NEW r \in Requests, CheckStatus(r)
      PROVE  HoldInv'
  BY <1>9, GotoShape, ReturnShape DEF CheckStatus
<1>10. ASSUME NEW r \in Requests, CheckHold(r)
       PROVE  HoldInv'
  BY <1>10, GotoShape, ReturnShape DEF CheckHold
<1>11. ASSUME NEW r \in Requests, MarkDestroyed(r)
       PROVE  HoldInv'
  BY <1>11, GotoShape, ReturnShape DEF MarkDestroyed, Blame, Worse
<1>12. ASSUME NEW r \in Requests, DeleteFile(r)
       PROVE  HoldInv'
  BY <1>12, GotoShape DEF DeleteFile, Blame, Worse
<1>13. ASSUME NEW r \in Requests, DeleteThumb(r)
       PROVE  HoldInv'
  BY <1>13, GotoShape DEF DeleteThumb, Blame, Worse
<1>14. ASSUME NEW r \in Requests, RecordDestroyed(r)
       PROVE  HoldInv'
  BY <1>14, ReturnShape DEF RecordDestroyed
<1>15. ASSUME NEW r \in Requests, Fetch(r)
       PROVE  HoldInv'
  BY <1>15, GotoShape, ReturnShape DEF Fetch
<1>16. ASSUME NEW r \in Requests, Served(r)
       PROVE  HoldInv'
  BY <1>16, ReturnShape DEF Served
<1>17. ASSUME NEW r \in Requests, Refuse(r)
       PROVE  HoldInv'
  BY <1>17, ReturnShape DEF Refuse
<1>18. ASSUME NEW r \in Requests, NEW i \in Items, Destroy(r, i)
       PROVE  HoldInv'
  BY <1>18 DEF Destroy, FreeNow, NoReq
<1>19. ASSUME NEW r \in Requests, NEW i \in Items, Download(r, i)
       PROVE  HoldInv'
  BY <1>19 DEF Download
<1>20. ASSUME NEW i \in Items, StoreThumb(i)
       PROVE  HoldInv'
  BY <1>20 DEF StoreThumb
<1>21. ASSUME NEW i \in Items, LinkThumb(i)
       PROVE  HoldInv'
  BY <1>21 DEF LinkThumb
<1>22. ASSUME NEW i \in Items, SkipThumb(i)
       PROVE  HoldInv'
  BY <1>22 DEF SkipThumb, Blame, Worse
<1>23. ASSUME NEW i \in Items, LinkFails(i)
       PROVE  HoldInv'
  BY <1>23 DEF LinkFails, Blame, Worse
<1>24. CASE Crash
  BY <1>24 DEF Crash, NoReq, NoFree, NoItem, Blame, Worse
<1>25. CASE CaseChanges
  BY <1>25 DEF CaseChanges, Remember, FreeNow
<1>26. CASE UNCHANGED vars
  BY <1>26 DEF vars
<1>27. QED
  BY <1>1, <1>2, <1>3, <1>4, <1>5, <1>6, <1>7, <1>8, <1>9, <1>10, <1>11, <1>12,
     <1>13, <1>14, <1>15, <1>16, <1>17, <1>18, <1>19, <1>20, <1>21, <1>22, <1>23,
     <1>24, <1>25, <1>26
     DEF Next, VaultNext, RequestStep, ThumbStep

\* What the types say of numbers and record fields, without the record sets.
LEMMA Facts ==
  ASSUME ControlOK, DataOK
  PROVE  /\ counter \in Nat /\ keys \in Nat
         /\ \A i \in Items : i \in Nat /\ i > NoItem
         /\ \A r \in Requests : req[r].item \in Nat /\ req[r].num \in Nat
         /\ NoReq.item = NoItem /\ NoItem \in Nat /\ NoReq.thumbs = {}
BY VaultAssumption DEF ControlOK, DataOK, Items, Req, NoItem, NoReq

\* Where a request gets its number and its item.
LEMMA NumberShape ==
  ASSUME NEW r \in Requests, ControlOK, NextNumber(r)
  PROVE  /\ pc'[r] = "put" /\ req'[r].num = counter' /\ req'[r].item = req[r].item
         /\ req'[r].thumbs = req[r].thumbs
         /\ \A q \in Requests : q # r => pc'[q] = pc[q] /\ req'[q] = req[q]
BY DEF NextNumber, ControlOK, Req

\* PutFile gives the request its item.
LEMMA PutShape ==
  ASSUME NEW r \in Requests, ControlOK, PutFile(r)
  PROVE  /\ pc'[r] = "create" /\ req'[r].num = req[r].num /\ req'[r].item = keys'
         /\ req'[r].thumbs = req[r].thumbs
         /\ \A q \in Requests : q # r => pc'[q] = pc[q] /\ req'[q] = req[q]
BY DEF PutFile, ControlOK, Req

\* Destroy keeps the thumbnail of its own item only.
LEMMA DestroyShape ==
  ASSUME NEW r \in Requests, NEW i \in Items, ControlOK, Destroy(r, i)
  PROVE  /\ pc'[r] = "status" /\ req'[r].item = i /\ req'[r].thumbs \subseteq {i}
         /\ \A q \in Requests : q # r => pc'[q] = pc[q] /\ req'[q] = req[q]
BY DEF Destroy, ControlOK

\* Download keeps an item and no thumbnail.
LEMMA DownloadShape ==
  ASSUME NEW r \in Requests, NEW i \in Items, ControlOK, Download(r, i)
  PROVE  /\ pc'[r] = "fetch" /\ req'[r].item = i /\ req'[r].thumbs = req[r].thumbs
         /\ \A q \in Requests : q # r => pc'[q] = pc[q] /\ req'[q] = req[q]
BY DEF Download, ControlOK, Req

\* The stages in which a request holds a file whose row is not there yet.
Owning == {"create", "cleanup"}

\* Who owns a new item: keys not drawn yet are unused, and the row of an item
\* about to be created does not exist.
OwnInv ==
  /\ \A i \in Items : i > keys => row[i] = "none" /\ i \notin files
  /\ \A r \in Requests : pc[r] \in {"idle", "number", "put"} => req[r].item = NoItem
  /\ \A r \in Requests : pc[r] # "idle" => req[r].item <= keys
  /\ \A r \in Requests : pc[r] = "create" => row[req[r].item] = "none"
  /\ \A q, r \in Requests :
       pc[q] \in Owning /\ pc[r] \in Owning /\ req[q].item = req[r].item => q = r

\* Storage keys are fresh and an item is created by one request.
LEMMA OwnStep ==
  ControlOK /\ DataOK /\ OwnInv /\ [Next]_vars => OwnInv'
<1> SUFFICES ASSUME ControlOK, DataOK, OwnInv, [Next]_vars PROVE OwnInv'
  OBVIOUS
<1> USE DEF caseState, rowState, objects, control, OwnInv, Owning, ControlOK, DataOK
<1>1. ASSUME NEW r \in Requests, Upload(r)
      PROVE  OwnInv'
  BY <1>1, GotoShape, Facts DEF Upload, NoItem
<1>2. ASSUME NEW r \in Requests, NextNumber(r)
      PROVE  OwnInv'
  BY <1>2, NumberShape, Facts DEF NextNumber, NoItem
<1>3. ASSUME NEW r \in Requests, PutFile(r)
      PROVE  OwnInv'
  BY <1>3, PutShape, KeysType, Facts DEF PutFile, NoItem
<1>4. ASSUME NEW r \in Requests, PutFails(r)
      PROVE  OwnInv'
  BY <1>4, ReturnShape, KeysType, Facts DEF PutFails, NoItem, Blame, Worse
<1>5. ASSUME NEW r \in Requests, CreateRow(r)
      PROVE  OwnInv'
  BY <1>5, GotoShape, Facts DEF CreateRow, NoItem, InsertRow
<1>6. ASSUME NEW r \in Requests, CreateFails(r)
      PROVE  OwnInv'
  BY <1>6, GotoShape, Facts DEF CreateFails, NoItem, Blame, Worse, InsertRow
<1>7. ASSUME NEW r \in Requests, Cleanup(r)
      PROVE  OwnInv'
  BY <1>7, ReturnShape, Facts DEF Cleanup, NoItem, Blame, Worse
<1>8. ASSUME NEW r \in Requests, RecordUpload(r)
      PROVE  OwnInv'
  BY <1>8, ReturnShape, Facts DEF RecordUpload, NoItem
<1>9. ASSUME NEW r \in Requests, CheckStatus(r)
      PROVE  OwnInv'
  BY <1>9, GotoShape, ReturnShape, Facts DEF CheckStatus, NoItem
<1>10. ASSUME NEW r \in Requests, CheckHold(r)
       PROVE  OwnInv'
  BY <1>10, GotoShape, ReturnShape, Facts DEF CheckHold, NoItem
<1>11. ASSUME NEW r \in Requests, MarkDestroyed(r)
       PROVE  OwnInv'
  BY <1>11, GotoShape, ReturnShape, Facts DEF MarkDestroyed, NoItem, Blame, Worse
<1>12. ASSUME NEW r \in Requests, DeleteFile(r)
       PROVE  OwnInv'
  BY <1>12, GotoShape, Facts DEF DeleteFile, NoItem, Blame, Worse
<1>13. ASSUME NEW r \in Requests, DeleteThumb(r)
       PROVE  OwnInv'
  BY <1>13, GotoShape, Facts DEF DeleteThumb, NoItem, Blame, Worse
<1>14. ASSUME NEW r \in Requests, RecordDestroyed(r)
       PROVE  OwnInv'
  BY <1>14, ReturnShape, Facts DEF RecordDestroyed, NoItem
<1>15. ASSUME NEW r \in Requests, Fetch(r)
       PROVE  OwnInv'
  BY <1>15, GotoShape, ReturnShape, Facts DEF Fetch, NoItem
<1>16. ASSUME NEW r \in Requests, Served(r)
       PROVE  OwnInv'
  BY <1>16, ReturnShape, Facts DEF Served, NoItem
<1>17. ASSUME NEW r \in Requests, Refuse(r)
       PROVE  OwnInv'
  BY <1>17, ReturnShape, Facts DEF Refuse, NoItem
<1>18. ASSUME NEW r \in Requests, NEW i \in Items, Destroy(r, i)
       PROVE  OwnInv'
  BY <1>18, DestroyShape, Facts DEF Destroy, NoItem, FreeNow, NoReq
<1>19. ASSUME NEW r \in Requests, NEW i \in Items, Download(r, i)
       PROVE  OwnInv'
  BY <1>19, DownloadShape, Facts DEF Download, NoItem
<1>20. ASSUME NEW i \in Items, StoreThumb(i)
       PROVE  OwnInv'
  BY <1>20, Facts DEF StoreThumb, NoItem
<1>21. ASSUME NEW i \in Items, LinkThumb(i)
       PROVE  OwnInv'
  BY <1>21, Facts DEF LinkThumb, NoItem
<1>22. ASSUME NEW i \in Items, SkipThumb(i)
       PROVE  OwnInv'
  BY <1>22, Facts DEF SkipThumb, NoItem, Blame, Worse
<1>23. ASSUME NEW i \in Items, LinkFails(i)
       PROVE  OwnInv'
  BY <1>23, Facts DEF LinkFails, NoItem, Blame, Worse
<1>24. CASE Crash
  BY <1>24, Facts DEF Crash, NoItem, NoReq, NoFree, Blame, Worse
<1>25. CASE CaseChanges
  BY <1>25, Facts DEF CaseChanges, NoItem, Remember, FreeNow
<1>26. CASE UNCHANGED vars
  BY <1>26 DEF vars
<1>27. QED
  BY <1>1, <1>2, <1>3, <1>4, <1>5, <1>6, <1>7, <1>8, <1>9, <1>10, <1>11, <1>12,
     <1>13, <1>14, <1>15, <1>16, <1>17, <1>18, <1>19, <1>20, <1>21, <1>22, <1>23,
     <1>24, <1>25, <1>26
     DEF Next, VaultNext, RequestStep, ThumbStep

\* DestroyedOnce, request by request.
OnceInv ==
  /\ \A i \in Items : destroyed[i] <= 1 /\ (destroyed[i] = 1 => row[i] = "destroyed")
  /\ \A r \in Requests : pc[r] \in Marked =>
       row[req[r].item] = "destroyed" /\ destroyed[req[r].item] = 0
  /\ \A q, r \in Requests :
       pc[q] \in Marked /\ pc[r] \in Marked /\ req[q].item = req[r].item => q = r

\* Only one request is past MarkDestroyed of an item.
LEMMA OnceStep ==
  ControlOK /\ DataOK /\ OwnInv /\ OnceInv /\ [Next]_vars => OnceInv'
<1> SUFFICES ASSUME ControlOK, DataOK, OwnInv, OnceInv, [Next]_vars PROVE OnceInv'
  OBVIOUS
<1> USE
      DEF caseState, rowState, objects, control, OwnInv, OnceInv, Marked, ControlOK,
       DataOK
<1>1. ASSUME NEW r \in Requests, Upload(r)
      PROVE  OnceInv'
  BY <1>1, GotoShape DEF Upload
<1>2. ASSUME NEW r \in Requests, NextNumber(r)
      PROVE  OnceInv'
  BY <1>2, NumberShape DEF NextNumber
<1>3. ASSUME NEW r \in Requests, PutFile(r)
      PROVE  OnceInv'
  BY <1>3, PutShape, KeysType DEF PutFile
<1>4. ASSUME NEW r \in Requests, PutFails(r)
      PROVE  OnceInv'
  BY <1>4, ReturnShape, KeysType DEF PutFails, Blame, Worse
<1>5. ASSUME NEW r \in Requests, CreateRow(r)
      PROVE  OnceInv'
  BY <1>5, GotoShape DEF CreateRow, InsertRow
<1>6. ASSUME NEW r \in Requests, CreateFails(r)
      PROVE  OnceInv'
  BY <1>6, GotoShape DEF CreateFails, Blame, Worse, InsertRow
<1>7. ASSUME NEW r \in Requests, Cleanup(r)
      PROVE  OnceInv'
  BY <1>7, ReturnShape DEF Cleanup, Blame, Worse
<1>8. ASSUME NEW r \in Requests, RecordUpload(r)
      PROVE  OnceInv'
  BY <1>8, ReturnShape DEF RecordUpload
<1>9. ASSUME NEW r \in Requests, CheckStatus(r)
      PROVE  OnceInv'
  BY <1>9, GotoShape, ReturnShape DEF CheckStatus
<1>10. ASSUME NEW r \in Requests, CheckHold(r)
       PROVE  OnceInv'
  BY <1>10, GotoShape, ReturnShape DEF CheckHold
<1>11. ASSUME NEW r \in Requests, MarkDestroyed(r)
       PROVE  OnceInv'
  <2> DEFINE i == req[r].item
  <2>1. pc[r] = "mark" /\ UNCHANGED destroyed
    BY <1>11 DEF MarkDestroyed
  <2>2. i \in Items
    BY <2>1
  <2>3. ASSUME row[i] = "live"
        PROVE  destroyed[i] = 0 /\ \A q \in Requests : pc[q] \in Marked => req[q].item # i
    <3>1. destroyed[i] \in Nat /\ destroyed[i] <= 1 /\ destroyed[i] # 1
      BY <2>2, <2>3
    <3>2. ASSUME NEW q \in Requests, pc[q] \in Marked
          PROVE  req[q].item # i
      <4>1. row[req[q].item] = "destroyed"
        BY <3>2
      <4>2. QED
        BY <2>3, <4>1
    <3>3. \A n \in Nat : n <= 1 /\ n # 1 => n = 0
      OBVIOUS
    <3>4. destroyed[i] = 0
      BY <3>1, <3>3, Zenon
    <3>5. QED
      BY <3>2, <3>4, Zenon
  <2>4. CASE row[i] = "live" /\ row' = [row EXCEPT ![i] = "destroyed"] /\ Goto(r, "file")
    <3>1. /\ pc'[r] = "file" /\ \A q \in Requests : q # r => pc'[q] = pc[q]
          /\ UNCHANGED req
      BY <2>4, GotoShape
    <3>2. QED
      BY <2>1, <2>2, <2>3, <2>4, <3>1
  <2>5. CASE row[i] = "live" /\ row' = [row EXCEPT ![i] = "destroyed"] /\ Return(r)
    BY <2>1, <2>2, <2>5, ReturnShape
  <2>6. CASE row' = row /\ Return(r)
    BY <2>1, <2>6, ReturnShape
  <2>7. QED
    BY <1>11, <2>4, <2>5, <2>6 DEF MarkDestroyed
<1>12. ASSUME NEW r \in Requests, DeleteFile(r)
       PROVE  OnceInv'
  BY <1>12, GotoShape DEF DeleteFile, Blame, Worse
<1>13. ASSUME NEW r \in Requests, DeleteThumb(r)
       PROVE  OnceInv'
  BY <1>13, GotoShape DEF DeleteThumb, Blame, Worse
<1>14. ASSUME NEW r \in Requests, RecordDestroyed(r)
       PROVE  OnceInv'
  BY <1>14, ReturnShape DEF RecordDestroyed
<1>15. ASSUME NEW r \in Requests, Fetch(r)
       PROVE  OnceInv'
  BY <1>15, GotoShape, ReturnShape DEF Fetch
<1>16. ASSUME NEW r \in Requests, Served(r)
       PROVE  OnceInv'
  BY <1>16, ReturnShape DEF Served
<1>17. ASSUME NEW r \in Requests, Refuse(r)
       PROVE  OnceInv'
  BY <1>17, ReturnShape DEF Refuse
<1>18. ASSUME NEW r \in Requests, NEW i \in Items, Destroy(r, i)
       PROVE  OnceInv'
  BY <1>18, DestroyShape DEF Destroy, FreeNow, NoReq
<1>19. ASSUME NEW r \in Requests, NEW i \in Items, Download(r, i)
       PROVE  OnceInv'
  BY <1>19, DownloadShape DEF Download
<1>20. ASSUME NEW i \in Items, StoreThumb(i)
       PROVE  OnceInv'
  BY <1>20 DEF StoreThumb
<1>21. ASSUME NEW i \in Items, LinkThumb(i)
       PROVE  OnceInv'
  BY <1>21 DEF LinkThumb
<1>22. ASSUME NEW i \in Items, SkipThumb(i)
       PROVE  OnceInv'
  BY <1>22 DEF SkipThumb, Blame, Worse
<1>23. ASSUME NEW i \in Items, LinkFails(i)
       PROVE  OnceInv'
  BY <1>23 DEF LinkFails, Blame, Worse
<1>24. CASE Crash
  BY <1>24 DEF Crash, NoReq, NoFree, NoItem, Blame, Worse
<1>25. CASE CaseChanges
  BY <1>25 DEF CaseChanges, Remember, FreeNow
<1>26. CASE UNCHANGED vars
  BY <1>26 DEF vars
<1>27. QED
  BY <1>1, <1>2, <1>3, <1>4, <1>5, <1>6, <1>7, <1>8, <1>9, <1>10, <1>11, <1>12,
     <1>13, <1>14, <1>15, <1>16, <1>17, <1>18, <1>19, <1>20, <1>21, <1>22, <1>23,
     <1>24, <1>25, <1>26
     DEF Next, VaultNext, RequestStep, ThumbStep

\* Every number drawn, in a row or still in a request, is drawn once.
NumberInv ==
  /\ \A i \in Items : row[i] # "none" => number[i] \in 1..counter
  /\ \A r \in Requests : pc[r] \in {"put", "create"} => req[r].num \in 1..counter
  /\ \A i, j \in Items :
       row[i] # "none" /\ row[j] # "none" /\ number[i] = number[j] => i = j
  /\ \A q, r \in Requests :
       /\ pc[q] \in {"put", "create"} /\ pc[r] \in {"put", "create"}
       /\ req[q].num = req[r].num
       => q = r
  /\ \A i \in Items, r \in Requests :
       row[i] # "none" /\ pc[r] \in {"put", "create"} => number[i] # req[r].num

\* Numbers drawn from the counter are never drawn again.
LEMMA NumberStep ==
  ControlOK /\ DataOK /\ OwnInv /\ NumberInv /\ [Next]_vars => NumberInv'
<1> SUFFICES ASSUME ControlOK, DataOK, OwnInv, NumberInv, [Next]_vars PROVE NumberInv'
  OBVIOUS
<1> USE
   DEF caseState, rowState, objects, control, OwnInv, NumberInv, ControlOK, DataOK
<1>1. ASSUME NEW r \in Requests, Upload(r)
      PROVE  NumberInv'
  BY <1>1, GotoShape, Facts DEF Upload
<1>2. ASSUME NEW r \in Requests, NextNumber(r)
      PROVE  NumberInv'
  BY <1>2, NumberShape, Facts DEF NextNumber
<1>3. ASSUME NEW r \in Requests, PutFile(r)
      PROVE  NumberInv'
  BY <1>3, PutShape, KeysType, Facts DEF PutFile
<1>4. ASSUME NEW r \in Requests, PutFails(r)
      PROVE  NumberInv'
  BY <1>4, ReturnShape, KeysType, Facts DEF PutFails, Blame, Worse
<1>5. ASSUME NEW r \in Requests, CreateRow(r)
      PROVE  NumberInv'
  BY <1>5, GotoShape, Facts DEF CreateRow, InsertRow
<1>6. ASSUME NEW r \in Requests, CreateFails(r)
      PROVE  NumberInv'
  BY <1>6, GotoShape, Facts DEF CreateFails, Blame, Worse, InsertRow
<1>7. ASSUME NEW r \in Requests, Cleanup(r)
      PROVE  NumberInv'
  BY <1>7, ReturnShape, Facts DEF Cleanup, Blame, Worse
<1>8. ASSUME NEW r \in Requests, RecordUpload(r)
      PROVE  NumberInv'
  BY <1>8, ReturnShape, Facts DEF RecordUpload
<1>9. ASSUME NEW r \in Requests, CheckStatus(r)
      PROVE  NumberInv'
  BY <1>9, GotoShape, ReturnShape, Facts DEF CheckStatus
<1>10. ASSUME NEW r \in Requests, CheckHold(r)
       PROVE  NumberInv'
  BY <1>10, GotoShape, ReturnShape, Facts DEF CheckHold
<1>11. ASSUME NEW r \in Requests, MarkDestroyed(r)
       PROVE  NumberInv'
  BY <1>11, GotoShape, ReturnShape, Facts DEF MarkDestroyed, Blame, Worse
<1>12. ASSUME NEW r \in Requests, DeleteFile(r)
       PROVE  NumberInv'
  BY <1>12, GotoShape, Facts DEF DeleteFile, Blame, Worse
<1>13. ASSUME NEW r \in Requests, DeleteThumb(r)
       PROVE  NumberInv'
  BY <1>13, GotoShape, Facts DEF DeleteThumb, Blame, Worse
<1>14. ASSUME NEW r \in Requests, RecordDestroyed(r)
       PROVE  NumberInv'
  BY <1>14, ReturnShape, Facts DEF RecordDestroyed
<1>15. ASSUME NEW r \in Requests, Fetch(r)
       PROVE  NumberInv'
  BY <1>15, GotoShape, ReturnShape, Facts DEF Fetch
<1>16. ASSUME NEW r \in Requests, Served(r)
       PROVE  NumberInv'
  BY <1>16, ReturnShape, Facts DEF Served
<1>17. ASSUME NEW r \in Requests, Refuse(r)
       PROVE  NumberInv'
  BY <1>17, ReturnShape, Facts DEF Refuse
<1>18. ASSUME NEW r \in Requests, NEW i \in Items, Destroy(r, i)
       PROVE  NumberInv'
  BY <1>18, DestroyShape, Facts DEF Destroy, FreeNow, NoReq
<1>19. ASSUME NEW r \in Requests, NEW i \in Items, Download(r, i)
       PROVE  NumberInv'
  BY <1>19, DownloadShape, Facts DEF Download
<1>20. ASSUME NEW i \in Items, StoreThumb(i)
       PROVE  NumberInv'
  BY <1>20, Facts DEF StoreThumb
<1>21. ASSUME NEW i \in Items, LinkThumb(i)
       PROVE  NumberInv'
  BY <1>21, Facts DEF LinkThumb
<1>22. ASSUME NEW i \in Items, SkipThumb(i)
       PROVE  NumberInv'
  BY <1>22, Facts DEF SkipThumb, Blame, Worse
<1>23. ASSUME NEW i \in Items, LinkFails(i)
       PROVE  NumberInv'
  BY <1>23, Facts DEF LinkFails, Blame, Worse
<1>24. CASE Crash
  BY <1>24, Facts DEF Crash, NoReq, NoFree, NoItem, Blame, Worse
<1>25. CASE CaseChanges
  BY <1>25, Facts DEF CaseChanges, Remember, FreeNow
<1>26. CASE UNCHANGED vars
  BY <1>26 DEF vars
<1>27. QED
  BY <1>1, <1>2, <1>3, <1>4, <1>5, <1>6, <1>7, <1>8, <1>9, <1>10, <1>11, <1>12,
     <1>13, <1>14, <1>15, <1>16, <1>17, <1>18, <1>19, <1>20, <1>21, <1>22, <1>23,
     <1>24, <1>25, <1>26
     DEF Next, VaultNext, RequestStep, ThumbStep

\* What each state of a row, and each request under way, says of the file.
FileInv ==
  /\ \A r \in Requests : pc[r] = "create" => req[r].item \in files
  /\ \A r \in Requests : pc[r] = "cleanup" =>
       row[req[r].item] = "none" \/ fault[req[r].item] = "unsure"
  /\ \A i \in Items : row[i] = "live" /\ fault[i] # "unsure" => i \in files
  /\ \A i \in Items : fault[i] = "none" /\ i \in files =>
       \/ row[i] = "live"
       \/ row[i] = "none" /\ \E r \in Requests : pc[r] \in Owning /\ req[r].item = i
       \/ row[i] = "destroyed" /\ \E r \in Requests : pc[r] = "file" /\ req[r].item = i

\* Files exist where rows say so, but for faults and requests under way.
LEMMA FileStep ==
  ControlOK /\ DataOK /\ OwnInv /\ OnceInv /\ FileInv /\ [Next]_vars => FileInv'
<1> SUFFICES ASSUME ControlOK, DataOK, OwnInv, OnceInv, FileInv, [Next]_vars PROVE FileInv'
  OBVIOUS
<1> USE
      DEF caseState, rowState, objects, control, OwnInv, OnceInv, FileInv, Owning,
       Marked, Halfway, ControlOK, DataOK
<1>1. ASSUME NEW r \in Requests, Upload(r)
      PROVE  FileInv'
  BY <1>1, GotoShape, Facts DEF Upload
<1>2. ASSUME NEW r \in Requests, NextNumber(r)
      PROVE  FileInv'
  BY <1>2, NumberShape, Facts DEF NextNumber
<1>3. ASSUME NEW r \in Requests, PutFile(r)
      PROVE  FileInv'
  BY <1>3, PutShape, KeysType, Facts DEF PutFile
<1>4. ASSUME NEW r \in Requests, PutFails(r)
      PROVE  FileInv'
  BY <1>4, ReturnShape, KeysType, Facts DEF PutFails, Blame, Worse
<1>5. ASSUME NEW r \in Requests, CreateRow(r)
      PROVE  FileInv'
  BY <1>5, GotoShape, Facts DEF CreateRow, InsertRow
<1>6. ASSUME NEW r \in Requests, CreateFails(r)
      PROVE  FileInv'
  BY <1>6, GotoShape, Facts DEF CreateFails, Blame, Worse, InsertRow
<1>7. ASSUME NEW r \in Requests, Cleanup(r)
      PROVE  FileInv'
  BY <1>7, ReturnShape, Facts DEF Cleanup, Blame, Worse
<1>8. ASSUME NEW r \in Requests, RecordUpload(r)
      PROVE  FileInv'
  BY <1>8, ReturnShape, Facts DEF RecordUpload
<1>9. ASSUME NEW r \in Requests, CheckStatus(r)
      PROVE  FileInv'
  BY <1>9, GotoShape, ReturnShape, Facts DEF CheckStatus
<1>10. ASSUME NEW r \in Requests, CheckHold(r)
       PROVE  FileInv'
  BY <1>10, GotoShape, ReturnShape, Facts DEF CheckHold
<1>11. ASSUME NEW r \in Requests, MarkDestroyed(r)
       PROVE  FileInv'
  BY <1>11, GotoShape, ReturnShape, Facts DEF MarkDestroyed, Blame, Worse
<1>12. ASSUME NEW r \in Requests, DeleteFile(r)
       PROVE  FileInv'
  BY <1>12, GotoShape, Facts DEF DeleteFile, Blame, Worse
<1>13. ASSUME NEW r \in Requests, DeleteThumb(r)
       PROVE  FileInv'
  BY <1>13, GotoShape, Facts DEF DeleteThumb, Blame, Worse
<1>14. ASSUME NEW r \in Requests, RecordDestroyed(r)
       PROVE  FileInv'
  BY <1>14, ReturnShape, Facts DEF RecordDestroyed
<1>15. ASSUME NEW r \in Requests, Fetch(r)
       PROVE  FileInv'
  BY <1>15, GotoShape, ReturnShape, Facts DEF Fetch
<1>16. ASSUME NEW r \in Requests, Served(r)
       PROVE  FileInv'
  BY <1>16, ReturnShape, Facts DEF Served
<1>17. ASSUME NEW r \in Requests, Refuse(r)
       PROVE  FileInv'
  BY <1>17, ReturnShape, Facts DEF Refuse
<1>18. ASSUME NEW r \in Requests, NEW i \in Items, Destroy(r, i)
       PROVE  FileInv'
  BY <1>18, DestroyShape, Facts DEF Destroy, FreeNow, NoReq
<1>19. ASSUME NEW r \in Requests, NEW i \in Items, Download(r, i)
       PROVE  FileInv'
  BY <1>19, DownloadShape, Facts DEF Download
<1>20. ASSUME NEW i \in Items, StoreThumb(i)
       PROVE  FileInv'
  BY <1>20, Facts DEF StoreThumb
<1>21. ASSUME NEW i \in Items, LinkThumb(i)
       PROVE  FileInv'
  BY <1>21, Facts DEF LinkThumb
<1>22. ASSUME NEW i \in Items, SkipThumb(i)
       PROVE  FileInv'
  BY <1>22, Facts DEF SkipThumb, Blame, Worse
<1>23. ASSUME NEW i \in Items, LinkFails(i)
       PROVE  FileInv'
  BY <1>23, Facts DEF LinkFails, Blame, Worse
<1>24. CASE Crash
  BY <1>24, Facts DEF Crash, NoReq, NoFree, NoItem, Blame, Worse
<1>25. CASE CaseChanges
  BY <1>25, Facts DEF CaseChanges, Remember, FreeNow
<1>26. CASE UNCHANGED vars
  BY <1>26 DEF vars
<1>27. QED
  BY <1>1, <1>2, <1>3, <1>4, <1>5, <1>6, <1>7, <1>8, <1>9, <1>10, <1>11, <1>12,
     <1>13, <1>14, <1>15, <1>16, <1>17, <1>18, <1>19, <1>20, <1>21, <1>22, <1>23,
     <1>24, <1>25, <1>26
     DEF Next, VaultNext, RequestStep, ThumbStep

\* The thumbnails a request is going to delete.
HeldInv ==
  \A r \in Requests :
    /\ req[r].thumbs \subseteq {req[r].item}
    /\ pc[r] \notin DestroyStages => req[r].thumbs = {}

\* A request holds no thumbnail but that of the item it destroys.
LEMMA HeldStep ==
  ControlOK /\ DataOK /\ OwnInv /\ HeldInv /\ [Next]_vars => HeldInv'
<1> SUFFICES ASSUME ControlOK, DataOK, OwnInv, HeldInv, [Next]_vars PROVE HeldInv'
  OBVIOUS
<1> USE DEF caseState, rowState, objects, control, HeldInv, DestroyStages, ControlOK
<1>1. ASSUME NEW r \in Requests, Upload(r)
      PROVE  HeldInv'
  BY <1>1, GotoShape, Facts DEF Upload
<1>2. ASSUME NEW r \in Requests, NextNumber(r)
      PROVE  HeldInv'
  BY <1>2, NumberShape, Facts DEF NextNumber
<1>3. ASSUME NEW r \in Requests, PutFile(r)
      PROVE  HeldInv'
  BY <1>3, PutShape, KeysType, Facts DEF PutFile
<1>4. ASSUME NEW r \in Requests, PutFails(r)
      PROVE  HeldInv'
  BY <1>4, ReturnShape, KeysType, Facts DEF PutFails, Blame, Worse
<1>5. ASSUME NEW r \in Requests, CreateRow(r)
      PROVE  HeldInv'
  BY <1>5, GotoShape, Facts DEF CreateRow, InsertRow
<1>6. ASSUME NEW r \in Requests, CreateFails(r)
      PROVE  HeldInv'
  BY <1>6, GotoShape, Facts DEF CreateFails, Blame, Worse, InsertRow
<1>7. ASSUME NEW r \in Requests, Cleanup(r)
      PROVE  HeldInv'
  BY <1>7, ReturnShape, Facts DEF Cleanup, Blame, Worse
<1>8. ASSUME NEW r \in Requests, RecordUpload(r)
      PROVE  HeldInv'
  BY <1>8, ReturnShape, Facts DEF RecordUpload
<1>9. ASSUME NEW r \in Requests, CheckStatus(r)
      PROVE  HeldInv'
  BY <1>9, GotoShape, ReturnShape, Facts DEF CheckStatus
<1>10. ASSUME NEW r \in Requests, CheckHold(r)
       PROVE  HeldInv'
  BY <1>10, GotoShape, ReturnShape, Facts DEF CheckHold
<1>11. ASSUME NEW r \in Requests, MarkDestroyed(r)
       PROVE  HeldInv'
  BY <1>11, GotoShape, ReturnShape, Facts DEF MarkDestroyed, Blame, Worse
<1>12. ASSUME NEW r \in Requests, DeleteFile(r)
       PROVE  HeldInv'
  BY <1>12, GotoShape, Facts DEF DeleteFile, Blame, Worse
<1>13. ASSUME NEW r \in Requests, DeleteThumb(r)
       PROVE  HeldInv'
  BY <1>13, GotoShape, Facts DEF DeleteThumb, Blame, Worse
<1>14. ASSUME NEW r \in Requests, RecordDestroyed(r)
       PROVE  HeldInv'
  BY <1>14, ReturnShape, Facts DEF RecordDestroyed
<1>15. ASSUME NEW r \in Requests, Fetch(r)
       PROVE  HeldInv'
  BY <1>15, GotoShape, ReturnShape, Facts DEF Fetch
<1>16. ASSUME NEW r \in Requests, Served(r)
       PROVE  HeldInv'
  BY <1>16, ReturnShape, Facts DEF Served
<1>17. ASSUME NEW r \in Requests, Refuse(r)
       PROVE  HeldInv'
  BY <1>17, ReturnShape, Facts DEF Refuse
<1>18. ASSUME NEW r \in Requests, NEW i \in Items, Destroy(r, i)
       PROVE  HeldInv'
  BY <1>18, DestroyShape, Facts DEF Destroy, FreeNow, NoReq
<1>19. ASSUME NEW r \in Requests, NEW i \in Items, Download(r, i)
       PROVE  HeldInv'
  BY <1>19, DownloadShape, Facts DEF Download
<1>20. ASSUME NEW i \in Items, StoreThumb(i)
       PROVE  HeldInv'
  BY <1>20, Facts DEF StoreThumb
<1>21. ASSUME NEW i \in Items, LinkThumb(i)
       PROVE  HeldInv'
  BY <1>21, Facts DEF LinkThumb
<1>22. ASSUME NEW i \in Items, SkipThumb(i)
       PROVE  HeldInv'
  BY <1>22, Facts DEF SkipThumb, Blame, Worse
<1>23. ASSUME NEW i \in Items, LinkFails(i)
       PROVE  HeldInv'
  BY <1>23, Facts DEF LinkFails, Blame, Worse
<1>24. CASE Crash
  BY <1>24, Facts DEF Crash, NoReq, NoFree, NoItem, Blame, Worse
<1>25. CASE CaseChanges
  BY <1>25, Facts DEF CaseChanges, Remember, FreeNow
<1>26. CASE UNCHANGED vars
  BY <1>26 DEF vars
<1>27. QED
  BY <1>1, <1>2, <1>3, <1>4, <1>5, <1>6, <1>7, <1>8, <1>9, <1>10, <1>11, <1>12,
     <1>13, <1>14, <1>15, <1>16, <1>17, <1>18, <1>19, <1>20, <1>21, <1>22, <1>23,
     <1>24, <1>25, <1>26
     DEF Next, VaultNext, RequestStep, ThumbStep

\* What a row says of its thumbnail.
ThumbInv ==
  /\ \A i \in Items : row[i] = "none" => i \notin thumbKey /\ thumbJob[i] = "none"
  /\ \A i \in Items : row[i] = "live" /\ (i \in thumbKey \/ thumbJob[i] = "link")
       => i \in thumbs

\* A live row with a thumbnail key has its thumbnail.
LEMMA ThumbStepInv ==
  ControlOK /\ DataOK /\ OwnInv /\ OnceInv /\ HeldInv /\ ThumbInv /\ [Next]_vars => ThumbInv'
<1> SUFFICES ASSUME ControlOK, DataOK, OwnInv, OnceInv, HeldInv, ThumbInv, [Next]_vars PROVE ThumbInv'
  OBVIOUS
<1> USE
      DEF caseState, rowState, objects, control, HeldInv, OwnInv, OnceInv, ThumbInv,
       Marked, ControlOK, DataOK
<1>1. ASSUME NEW r \in Requests, Upload(r)
      PROVE  ThumbInv'
  BY <1>1, GotoShape, Facts DEF Upload
<1>2. ASSUME NEW r \in Requests, NextNumber(r)
      PROVE  ThumbInv'
  BY <1>2, NumberShape, Facts DEF NextNumber
<1>3. ASSUME NEW r \in Requests, PutFile(r)
      PROVE  ThumbInv'
  BY <1>3, PutShape, KeysType, Facts DEF PutFile
<1>4. ASSUME NEW r \in Requests, PutFails(r)
      PROVE  ThumbInv'
  BY <1>4, ReturnShape, KeysType, Facts DEF PutFails, Blame, Worse
<1>5. ASSUME NEW r \in Requests, CreateRow(r)
      PROVE  ThumbInv'
  BY <1>5, GotoShape, Facts DEF CreateRow, InsertRow
<1>6. ASSUME NEW r \in Requests, CreateFails(r)
      PROVE  ThumbInv'
  BY <1>6, GotoShape, Facts DEF CreateFails, Blame, Worse, InsertRow
<1>7. ASSUME NEW r \in Requests, Cleanup(r)
      PROVE  ThumbInv'
  BY <1>7, ReturnShape, Facts DEF Cleanup, Blame, Worse
<1>8. ASSUME NEW r \in Requests, RecordUpload(r)
      PROVE  ThumbInv'
  BY <1>8, ReturnShape, Facts DEF RecordUpload
<1>9. ASSUME NEW r \in Requests, CheckStatus(r)
      PROVE  ThumbInv'
  BY <1>9, GotoShape, ReturnShape, Facts DEF CheckStatus
<1>10. ASSUME NEW r \in Requests, CheckHold(r)
       PROVE  ThumbInv'
  BY <1>10, GotoShape, ReturnShape, Facts DEF CheckHold
<1>11. ASSUME NEW r \in Requests, MarkDestroyed(r)
       PROVE  ThumbInv'
  BY <1>11, GotoShape, ReturnShape, Facts DEF MarkDestroyed, Blame, Worse
<1>12. ASSUME NEW r \in Requests, DeleteFile(r)
       PROVE  ThumbInv'
  BY <1>12, GotoShape, Facts DEF DeleteFile, Blame, Worse
<1>13. ASSUME NEW r \in Requests, DeleteThumb(r)
       PROVE  ThumbInv'
  BY <1>13, GotoShape, Facts DEF DeleteThumb, Blame, Worse
<1>14. ASSUME NEW r \in Requests, RecordDestroyed(r)
       PROVE  ThumbInv'
  BY <1>14, ReturnShape, Facts DEF RecordDestroyed
<1>15. ASSUME NEW r \in Requests, Fetch(r)
       PROVE  ThumbInv'
  BY <1>15, GotoShape, ReturnShape, Facts DEF Fetch
<1>16. ASSUME NEW r \in Requests, Served(r)
       PROVE  ThumbInv'
  BY <1>16, ReturnShape, Facts DEF Served
<1>17. ASSUME NEW r \in Requests, Refuse(r)
       PROVE  ThumbInv'
  BY <1>17, ReturnShape, Facts DEF Refuse
<1>18. ASSUME NEW r \in Requests, NEW i \in Items, Destroy(r, i)
       PROVE  ThumbInv'
  BY <1>18, DestroyShape, Facts DEF Destroy, FreeNow, NoReq
<1>19. ASSUME NEW r \in Requests, NEW i \in Items, Download(r, i)
       PROVE  ThumbInv'
  BY <1>19, DownloadShape, Facts DEF Download
<1>20. ASSUME NEW i \in Items, StoreThumb(i)
       PROVE  ThumbInv'
  BY <1>20, Facts DEF StoreThumb
<1>21. ASSUME NEW i \in Items, LinkThumb(i)
       PROVE  ThumbInv'
  BY <1>21, Facts DEF LinkThumb
<1>22. ASSUME NEW i \in Items, SkipThumb(i)
       PROVE  ThumbInv'
  BY <1>22, Facts DEF SkipThumb, Blame, Worse
<1>23. ASSUME NEW i \in Items, LinkFails(i)
       PROVE  ThumbInv'
  BY <1>23, Facts DEF LinkFails, Blame, Worse
<1>24. CASE Crash
  BY <1>24, Facts DEF Crash, NoReq, NoFree, NoItem, Blame, Worse
<1>25. CASE CaseChanges
  BY <1>25, Facts DEF CaseChanges, Remember, FreeNow
<1>26. CASE UNCHANGED vars
  BY <1>26 DEF vars
<1>27. QED
  BY <1>1, <1>2, <1>3, <1>4, <1>5, <1>6, <1>7, <1>8, <1>9, <1>10, <1>11, <1>12,
     <1>13, <1>14, <1>15, <1>16, <1>17, <1>18, <1>19, <1>20, <1>21, <1>22, <1>23,
     <1>24, <1>25, <1>26
     DEF Next, VaultNext, RequestStep, ThumbStep

------------------------------------------------------------------------------
VaultInv ==
  /\ ControlOK /\ DataOK
  /\ HoldInv /\ OwnInv /\ OnceInv /\ NumberInv
  /\ FileInv /\ HeldInv /\ ThumbInv

\* The invariant holds at the start.
LEMMA VaultInvInit == Init => VaultInv
<1> SUFFICES ASSUME Init PROVE VaultInv
  OBVIOUS
<1>1. ControlOK /\ DataOK
  BY TypeInit
<1>2. /\ \A r \in Requests : pc[r] = "idle" /\ req[r] = NoReq
      /\ NoReq.item = NoItem /\ NoReq.thumbs = {}
      /\ \A i \in Items : row[i] = "none" /\ destroyed[i] = 0 /\ thumbJob[i] = "none"
      /\ files = {} /\ thumbKey = {}
  BY DEF Init, NoReq
<1>3. HoldInv /\ OwnInv /\ OnceInv
  BY <1>2 DEF HoldInv, DestroyStages, OwnInv, Owning, OnceInv, Marked
<1>4. NumberInv /\ FileInv /\ HeldInv /\ ThumbInv
  BY <1>2 DEF NumberInv, FileInv, HeldInv, ThumbInv
<1>5. QED
  BY <1>1, <1>3, <1>4 DEF VaultInv

\* The inductive invariant of the evidence service.
THEOREM VaultInvariant == Spec => []VaultInv
<1>1. VaultInv /\ [Next]_vars => VaultInv'
  BY TypeStep, HoldStep, OwnStep, OnceStep, NumberStep, FileStep, HeldStep, ThumbStepInv
     DEF VaultInv
<1>2. QED
  BY <1>1, VaultInvInit, PTL DEF Spec

\* Every variable of the evidence service stays in its set.
THEOREM VaultTypeCorrect == Spec => []TypeOK
<1>1. VaultInv => TypeOK
  BY TypeParts DEF VaultInv
<1>2. QED
  BY <1>1, VaultInvariant, PTL

\* Whatever fails and wherever the process dies, a live row points at objects
\* that exist, unless the database lied about the insert.
THEOREM LiveRowsAlwaysResolve == Spec => []LiveRowsResolve
<1>1. VaultInv => LiveRowsResolve
  BY DEF VaultInv, FileInv, ThumbInv, LiveRowsResolve
<1>2. QED
  BY <1>1, VaultInvariant, PTL

\* Without faults nothing is left in the object store that no live row names.
THEOREM NoOrphanIsLeft == Spec => []NoOrphans
<1>1. VaultInv => NoOrphans
  <2> SUFFICES ASSUME VaultInv, NEW i \in Items, BusyWith(i) = {}, fault[i] = "none"
               PROVE  i \in files <=> row[i] = "live"
    BY DEF NoOrphans
  <2>1. \A r \in Requests : req[r].item = i => pc[r] \notin Owning /\ pc[r] # "file"
    BY DEF BusyWith, UploadStages, Marked, Owning
  <2>2. QED
    BY <2>1 DEF VaultInv, FileInv
<1>2. QED
  BY <1>1, VaultInvariant, PTL

\* Evidence numbers are never given twice.
THEOREM NumbersAreUnique == Spec => []UniqueNumbers
<1>1. VaultInv => UniqueNumbers
  BY DEF VaultInv, NumberInv, UniqueNumbers
<1>2. QED
  BY <1>1, VaultInvariant, PTL

\* An item is destroyed, and its destruction recorded, at most once.
THEOREM DestroysOnce == Spec => []DestroyedOnce
<1>1. VaultInv => DestroyedOnce
  <2> SUFFICES ASSUME VaultInv, NEW i \in Items
               PROVE  /\ destroyed[i] <= 1
                      /\ destroyed[i] = 1 => row[i] = "destroyed"
                      /\ \A r \in Destroying(i) :
                           /\ row[i] = "destroyed" /\ destroyed[i] = 0
                           /\ Destroying(i) = {r}
    BY DEF DestroyedOnce
  <2>1. destroyed[i] <= 1 /\ (destroyed[i] = 1 => row[i] = "destroyed")
    BY DEF VaultInv, OnceInv
  <2>2. ASSUME NEW r \in Destroying(i)
        PROVE  row[i] = "destroyed" /\ destroyed[i] = 0 /\ Destroying(i) = {r}
    BY <2>2 DEF Destroying, VaultInv, OnceInv
  <2>3. QED
    BY <2>1, <2>2
<1>2. QED
  BY <1>1, VaultInvariant, PTL

\* A hold, or an archived case, that outlasts a Destroy prevents it.
THEOREM HoldProtects == Spec => HoldOutlastsDestroy
<1> DEFINE Freed == \A i \in Items : row[i] = "live" /\ row'[i] = "destroyed" =>
                      \E r \in Requests : /\ pc[r] = "mark" /\ req[r].item = i
                                          /\ free[r].hold /\ free[r].archive
<1>1. VaultInv /\ [Next]_vars => [Freed]_vars
  <2> SUFFICES ASSUME VaultInv, Next, NEW i \in Items,
                      row[i] = "live", row'[i] = "destroyed"
               PROVE  \E r \in Requests : /\ pc[r] = "mark" /\ req[r].item = i
                                          /\ free[r].hold /\ free[r].archive
    OBVIOUS
  <2>1. \E r \in Requests : MarkDestroyed(r)
    BY DEF VaultInv, DataOK, Next, VaultNext, RequestStep, ThumbStep, Upload,
       NextNumber, PutFile, PutFails, CreateRow, CreateFails, Cleanup, RecordUpload,
       StoreThumb, LinkThumb, SkipThumb, LinkFails, Destroy, CheckStatus, CheckHold,
       DeleteFile, DeleteThumb, RecordDestroyed, Download, Fetch, Served, Refuse,
       Crash, CaseChanges, InsertRow, rowState
  <2>2. PICK r \in Requests : MarkDestroyed(r)
    BY <2>1
  <2>3. pc[r] = "mark" /\ req[r].item = i
    BY <2>2 DEF MarkDestroyed, VaultInv, DataOK
  <2>4. free[r].hold /\ free[r].archive
    BY <2>3 DEF VaultInv, HoldInv, DestroyStages
  <2>5. QED
    BY <2>3, <2>4
<1>2. QED
  BY <1>1, VaultInvariant, PTL DEF Spec, HoldOutlastsDestroy
==============================================================================
