------------------------------ MODULE CaseExport ------------------------------
(***************************************************************************)
(* The export of a case (internal/cases/export.go): ExportCase reads the   *)
(* case, its current evidence and its custody log in three queries, then   *)
(* streams a ZIP archive and fetches the evidence objects one by one while *)
(* it writes; uploads, updates and destroys go on meanwhile, as            *)
(* EvidenceRecords has them.                                               *)
(***************************************************************************)
EXTENDS EvidenceRecords

VARIABLES
  xpc,       \* where the export is
  listed,    \* the rows ListByCaseForExport returned
  xlog,      \* the events ListAllByCase returned
  excused,   \* events not yet written, or lost, when the log was read (history)
  parts,     \* the parts of the archive written in full
  copied,    \* items whose object is in the archive
  archive,   \* the file the client receives
  outcome,   \* what ExportCase returned
  recorded   \* the event case_exported is in the custody log

contents   == <<parts, copied>>
exportVars == <<xpc, listed, xlog, excused, contents, archive, outcome, recorded>>
vars == <<recordVars, exportVars>>

\* "head" is manifest.json and case.json, "tables" the three CSV files.
Parts == {"head", "evidence", "tables", "readme"}
ExportStages == {"idle", "log", "close", "note", "done"} \cup Parts

\* "closed" has its central directory, so a reader opens it as a ZIP file.
Archives == {"none", "open", "closed", "cut"}

ListedRow == [item : Items, version : Nat, text : Texts]

ExportInit ==
  /\ xpc = "idle"
  /\ listed = {} /\ xlog = {} /\ excused = {}
  /\ parts = {} /\ copied = {}
  /\ archive = "none" /\ outcome = "none" /\ recorded = FALSE

ListedItems == {x.item : x \in listed}

------------------------------------------------------------------------------
(* ExportCase.                                                              *)

\* ExportCase returns, and what it had read is gone; the client has the archive.
ExportReturns(result) ==
  /\ xpc' = "done" /\ outcome' = result
  /\ listed' = {} /\ xlog' = {} /\ excused' = {}

(* The case is loaded; ListByCaseForExport: the current rows that are not   *)
(* destroyed.                                                               *)
ListItems ==
  /\ xpc = "idle"
  /\ listed' = {[item |-> i, version |-> row[i].version, text |-> row[i].text] :
                i \in {i \in Items : row[i].state = "live" /\ row[i].current}}
  /\ xpc' = "log"
  /\ UNCHANGED <<xlog, excused, contents, archive, outcome, recorded>>

(* ListAllByCase, and zip.NewWriter on the response.                        *)
ReadLog ==
  /\ xpc = "log"
  /\ xlog' = log
  /\ excused' = lost \cup UNION {Owed(r) : r \in Requests}
  /\ archive' = "open"
  /\ xpc' = "head"
  /\ UNCHANGED <<listed, contents, outcome, recorded>>

(* A query fails before anything is written.                                *)
LoadFails ==
  /\ xpc \in {"idle", "log"}
  /\ ExportReturns("failed")
  /\ UNCHANGED <<contents, archive, recorded>>

(* writeManifest, writeCaseJSON; later the CSV files; last README.txt.      *)
WritePart(part, next) ==
  /\ xpc = part
  /\ parts' = parts \cup {part}
  /\ xpc' = next
  /\ UNCHANGED <<listed, xlog, excused, copied, archive, outcome, recorded>>

(* Seeded bug: the rows are queried once more after the log was read.       *)
WriteHeadOfNow ==
  /\ xpc = "head"
  /\ listed' = {[item |-> i, version |-> row[i].version, text |-> row[i].text] :
                i \in {i \in Items : row[i].state = "live" /\ row[i].current}}
  /\ parts' = parts \cup {"head"}
  /\ xpc' = "evidence"
  /\ UNCHANGED <<xlog, excused, copied, archive, outcome, recorded>>

WriteHead == WritePart("head", "evidence")
WriteTables == WritePart("tables", "readme")
WriteReadme == WritePart("readme", "close")

(* Seeded bug: a file that cannot be fetched is skipped.                    *)
FileFailsSkipped ==
  /\ xpc = "evidence"
  /\ ~ ListedItems \subseteq copied
  /\ WritePart("evidence", "tables")

(* One file of writeEvidenceFiles, the oldest first: zw.Create, GetObject,  *)
(* io.Copy.                                                                 *)
CopyFile(i) ==
  /\ xpc = "evidence"
  /\ i \in ListedItems \ copied
  /\ \A j \in ListedItems \ copied : i <= j
  /\ i \in files
  /\ copied' = copied \cup {i}
  /\ UNCHANGED <<xpc, listed, xlog, excused, parts, archive, outcome, recorded>>

(* The loop of writeEvidenceFiles ends.                                     *)
FilesWritten ==
  /\ ListedItems \subseteq copied
  /\ WritePart("evidence", "tables")

(* GetObject or the read of an object fails, always when the object is      *)
(* gone: the error leaves ExportCase, whose deferred zw.Close writes the    *)
(* central directory of what is there.                                      *)
FileFails ==
  /\ xpc = "evidence"
  /\ ~ ListedItems \subseteq copied
  /\ archive' = "closed"
  /\ ExportReturns("failed")
  /\ UNCHANGED <<contents, recorded>>

(* A write to the response fails, and with it every later one, the deferred *)
(* zw.Close included.                                                       *)
ClientGone ==
  /\ xpc \in Parts \cup {"close"}
  /\ archive' = "cut"
  /\ ExportReturns("failed")
  /\ UNCHANGED <<contents, recorded>>

(* zw.Close.                                                                *)
CloseArchive ==
  /\ xpc = "close"
  /\ archive' = "closed"
  /\ xpc' = "note"
  /\ UNCHANGED <<listed, xlog, excused, contents, outcome, recorded>>

(* The event case_exported; its error is ignored.                           *)
RecordExport ==
  /\ xpc = "note"
  /\ recorded' \in BOOLEAN
  /\ ExportReturns("ok")
  /\ UNCHANGED <<contents, archive>>

ExportStep ==
  \/ ListItems \/ ReadLog \/ LoadFails
  \/ WriteHead \/ WriteTables \/ WriteReadme
  \/ \E i \in Items : CopyFile(i)
  \/ FilesWritten \/ FileFails \/ ClientGone \/ CloseArchive \/ RecordExport

------------------------------------------------------------------------------

Init == RecordsInit /\ ExportInit

Next ==
  \/ RecordsNext /\ UNCHANGED exportVars
  \/ ExportStep /\ UNCHANGED recordVars

Spec == Init /\ [][Next]_vars

------------------------------------------------------------------------------
(* Properties.                                                              *)

TypeOK ==
  /\ RecordsTypeOK
  /\ xpc \in ExportStages
  /\ listed \in SUBSET ListedRow
  /\ xlog \in SUBSET Event /\ excused \in SUBSET Event
  /\ parts \in SUBSET Parts /\ copied \in SUBSET Items
  /\ archive \in Archives
  /\ outcome \in {"none", "ok", "failed"}
  /\ recorded \in BOOLEAN

\* The events that account for what a listed row shows.
Accounts(x) ==
  {[action |-> "evidence_uploaded", item |-> x.item, text |-> 0]}
  \cup (IF x.text > 0
        THEN {[action |-> "metadata_updated", item |-> x.item, text |-> x.text]} ELSE {})
  \cup (IF x.version > 1
        THEN {[action |-> "new_version_uploaded", item |-> x.item, text |-> 0]} ELSE {})

(* The custody log of an export accounts for every row exported with it:    *)
(* the upload of the item, the update that gave it its description, the     *)
(* versioning that gave it its number, unless the call was still to write   *)
(* that event when the log was read, or its insert failed.  It holds        *)
(* because ExportCase lists the rows before it reads the log.               *)
LogCoversItems ==
  xpc \in Parts \cup {"close", "note"} =>
    \A x \in listed : Accounts(x) \subseteq xlog \cup excused

(* An archive that ends with README.txt, or one the custody log calls       *)
(* exported, holds the object of every item it lists and every table; and   *)
(* the log calls nothing exported that the client cannot open (ExportCase,  *)
(* buildArchive).                                                           *)
MarkedWholeIsWhole ==
  /\ "readme" \in parts => ListedItems \subseteq copied /\ parts = Parts
  /\ recorded => archive = "closed" /\ parts = Parts

------------------------------------------------------------------------------
(* Why they hold.                                                           *)

RowOf(i) == [item |-> i, version |-> row[i].version, text |-> row[i].text]

\* Written, lost, or still to be written.
Told == log \cup lost \cup UNION {Owed(r) : r \in Requests}

\* What a row shows is accounted for at every moment, and stays so once listed.
RowsAccounted ==
  /\ \A i \in Used : Accounts(RowOf(i)) \subseteq Told
  /\ xpc = "log" => \A x \in listed : Accounts(x) \subseteq Told

\* The parts of the archive follow the stage of the export.
PartsFollow ==
  /\ xpc \in {"idle", "log", "head"} => parts = {}
  /\ xpc = "evidence" => parts = {"head"}
  /\ xpc = "tables" => parts = {"head", "evidence"}
  /\ xpc = "readme" => parts = {"head", "evidence", "tables"}
  /\ xpc \in {"tables", "readme", "close", "note"} => ListedItems \subseteq copied
  /\ xpc \in {"close", "note"} => parts = Parts
  /\ xpc = "note" => archive = "closed"
  /\ xpc \notin {"done"} => ~ recorded
  /\ xpc = "done" => listed = {} /\ ("readme" \in parts => parts = Parts)

ExportInv ==
  /\ TypeOK /\ RowsAccounted /\ LogCoversItems
  /\ PartsFollow /\ MarkedWholeIsWhole

==============================================================================
