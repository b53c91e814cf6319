# VaultKeeper: verification development

VaultKeeper keeps digital evidence of cases: files in an object store (MinIO),
metadata in Postgres, and a hash-chained custody log that is meant to show that
nothing was changed behind the system's back. This directory holds TLA+ models
of its core, the TLC configurations that check them, and TLAPS proofs. Paths
below are relative to the repository, `internal/...` stands for
`src/internal/...`.

What the code promises is mostly about *orders*: the order in which a request
reads a row, decides, writes, deletes a file and records an event, while other
requests, goroutines, instances and crashes come in between. No two of these
steps share a transaction, except inside the custody insert and the evidence
counter. That is what the models are about; encodings, HTTP and layout are left
out.

## 1. Inventory

| part | state | operations | what is hard | correct means |
|---|---|---|---|---|
| custody log (`internal/custody`) | `custody_log` rows with `hash_value`, `previous_hash`; one advisory transaction lock per case | `RecordEvidenceEvent`, `RecordCaseEvent`, `Insert`, listings, `VerifyCaseChain` | stamp before lock, rounding of stamps, concurrent inserts, rollback, crash | each row links to the latest row before it; an untouched log verifies |
| case service (`internal/cases`) | `cases.status`, `cases.legal_hold` | `CreateCase`, `UpdateCase`, `ArchiveCase`, `SetLegalHold`, list | every call decides on a row read earlier and writes without repeating the check; the event follows in another transaction | active, closed, archived, in that order; an archived case is settled; no archiving or hold in the log that no call made |
| evidence service (`internal/evidence`) | `evidence_items`, the object store, `cases.evidence_counter`, thumbnail goroutines | `Upload`, `Download`, `UpdateMetadata`, `UploadNewVersion`, `Destroy`, thumbnails | two stores without a common transaction; status and hold read once; a goroutine that outlives its request; lost answers | live rows point at objects; no orphans; unique numbers; an item is destroyed once and not under hold |
| case lookup (`internal/evidence/case_adapter.go`) | none | `GetStatus`, `GetLegalHold`, ... | joins the two services over one table | the evidence service may rely on what the case service does |
| integrity verification (`internal/integrity/handler.go`) | in-memory map of jobs, `integrity_warning` | `StartVerification`, `GetStatus`, `runVerification` | check-then-store on the map; items listed once, read one by one, while they change; jobs die with the process | damage is not missed, sound items are not flagged, counts add up, jobs end |
| time-stamp retry (`internal/integrity/tsa_retry.go`) | `tsa_status`, a session advisory lock | `runOnce` every five minutes in every instance | session lock through a connection pool; stale batch; the 24-hour limit | one instance works at a time; a stamp is final; nothing stays pending for ever |
| time stamping (`internal/integrity/tsa.go`) | none | `IssueTimestamp`, `VerifyTimestamp` | network errors and timeouts | one call, a token or an error |
| custody PDF report (`internal/reports`) | none | its own walk of the chain | a second verifier that may disagree with the first | same verdict |
| case roles (`internal/cases/roles.go`) | `case_roles` | `Assign`, `Revoke`, lists; read by `search` and `notifications` | the event is a statement after the change and may fail or come in the other order; readers use two queries | the log denies no role that is held; a search shows the defence disclosed documents only |
| case export (`internal/cases/export.go`) | none of its own; a ZIP stream | `ExportCase` | three queries at three moments, then object after object, while everything changes; an error comes after the header is sent | the log in the archive accounts for the items in it; an archive that looks complete is |
| listings (`cases`, `evidence`, `custody`, `notifications`) | none; a cursor the client holds | four paged queries, each a COUNT and a SELECT | rows come and go between pages; cursors by id under an order by time | no row twice, none missed, an end |
| authentication audit log (`internal/audit`) | `auth_audit_log`, one global lock | `LogAuthEvent` | `created_at` is the start of the transaction, the lock comes later | each row links to the previous one |
| authentication (`internal/auth`) | JWKS cache | key lookup, refresh, middleware, roles | concurrent refreshes | the newest keys win |
| backup (`internal/backup`) | `backup_log`, a directory of files, a failure counter | `RunBackup`, scheduler, `VerifyBackup` | database dump and object snapshot are not one moment; crash half way; manual and scheduled runs together | a completed backup can be restored; backups that keep failing raise an alarm |
| notifications (`internal/notifications`) | `notifications`, the e-mail channel | `Notify`, `MarkRead`, worker, `Stop` | two lists of recipients, failing inserts, full queue, stop while sending | one row for each recipient; what was queued before `Stop` is sent; `Stop` returns when nothing more is queued |
| search (`internal/search`) | Meilisearch index | index, search | the index lags the table, order of updates, roles read in two queries | a document follows its row; readers see what they may see |
| health (`internal/server/health.go`) | cached result | `getOrRefreshHealth` | a result computed under a cancelled request | the cache is not poisoned |
| HTTP, configuration, logging, migrations, web client, deployment | none or external | | | |

Interactions: handlers of `cases` and `evidence` run in one goroutine per
request and meet only in the database and the object store. `evidence` reads the
`cases` table through `PGCaseLookup`. All of them, and the retry job and the
verification jobs, append to the custody log through `custody.Logger`.
`integrity` reads `evidence_items` and the object store and sets flags there;
the retry job, one per process, writes `tsa_status`. Reports and the export read
everything. Backups and verifications notify through `notifications.Service`, which
takes its recipients from `case_roles`; the evidence service writes the search index
after each change.

## 2. Modules

| module | models | checked by | proved in |
|---|---|---|---|
| `HashLinkedLog` | abstract specification: per case, an append-only set of entries each linked to an entry of the same case that is already there | as `LogSpec` of `CustodyChain` | |
| `CustodyChain` | `custody.Logger`, `PGRepository.Insert`, `VerifyCaseChain`, the report's walk | `custody`, `custody_nanoseconds` | `CustodyChainProofs` |
| `CaseLifecycle` | `UpdateCase`, `ArchiveCase`, `SetLegalHold` under concurrent handlers | `system` | `VaultSystemProofs` |
| `EvidenceVault` | `Upload`, thumbnail goroutine, `Destroy`, `Download`, failures and crashes | `vault` | `EvidenceVaultProofs` |
| `VaultSystem` | `CaseLifecycle` and `EvidenceVault` over one case | `system` | `VaultSystemProofs` |
| `IntegrityJobs` | `StartVerification`, `runVerification`, while files and rows change | `integrity_jobs`, `integrity_two_jobs` | `IntegrityJobsProofs` |
| `TSARetry` | `runOnce` of several instances, the pool, the session lock, items that age and are destroyed | `tsa_retry` | `TSARetryProofs` |
| `Backup` | `RunBackup`, `failBackup`, several runs at once, while items are uploaded and destroyed; crashes | `backup` | `BackupProofs` |
| `EvidenceRecords` | what `Upload`, `UploadNewVersion`, `UpdateMetadata` and `Destroy` leave in the table, the custody log and the search index | `records` | `CaseExportProofs` |
| `CaseExport` | `ExportCase` beside the calls of `EvidenceRecords` | `export` | `CaseExportProofs` |
| `Listings` | the four paged listings, read while rows come and go | `listings` | `UserViewProofs` |
| `CaseRoles` | `Assign`, `Revoke`, and the two reads of a search | `notifications` | `UserViewProofs` |
| `Notifications` | `Notify`, the e-mail queue, its goroutine and `Stop`, over the table of `CaseRoles` | `notifications` | `UserViewProofs` |

`MC*` modules only instantiate. Definitions marked *seeded bug* are mutations of
the definition that follows them; no specification uses them. They record which
slip of the code each property would notice (`mutants` in `PROJECT.json`).

### How state and actions correspond to the code

**CustodyChain.** A writer is a goroutine inside `Record*Event`: `Stamp` builds the
event with `time.Now()` (`logger.go`), `AcquireLock` is
`pg_advisory_xact_lock`, `LinkToLast` the `SELECT hash_value ... ORDER BY
timestamp DESC, id DESC` and `uuid.New`, `Commit` the INSERT and COMMIT, `Abort`
any error (deferred Rollback), `Crash` the death of the process. A hash is a
record of what it covers (SHA-256 without collisions). `Stored` is what
TIMESTAMPTZ does to a stamp: it keeps microseconds, while the hash covers
nanoseconds. `Breaks` and `ReportBreaks` are the two verifiers, operators of a
committed state because both list the log in one statement.

**CaseLifecycle.** One case. A call is: a read with its checks (`UpdateCase`,
`ArchiveCase`, `SetLegalHold`), for `UpdateCase` a second read with the check of
the transition (`ValidateUpdate`), the unconditional UPDATE (`Write`), the
custody event (`Record`). `Fail` ends a call anywhere; an UPDATE that took effect
although its answer was lost is `Write` followed by `Fail`. `overtaken`, `changed` and
`repeated` are history: the calls whose column another call changed since their check, the
UPDATEs that changed a row, and those that found nothing left to change because they
were overtaken.

**EvidenceVault.** One case, any number of items; one action per statement or
object-store call of `Upload`, `generateThumbnail`, `Destroy` and `Download`, each with
its error path. `fault` is a history variable: it says that something was
interrupted half way with this item, or that the database committed a change and
reported an error. The case's status and hold move by `CaseChanges`, an assumption
about the case service which `VaultSystem` discharges. `free` remembers what the
case allowed since a `Destroy` began.

**VaultSystem.** Every step of the case service is a step of `CaseLifecycle`, every
step of the evidence service one of `EvidenceVault`; they share `status` and `hold`.

**IntegrityJobs.** `CheckRunning` and `StartJob` are the Load and the Store of
`StartVerification` on `sync.Map`; `ListItems`, `VerifyItem` (with the outcomes
`Verified`, `Mismatch`, `Missing` of `VerifyFileHash`), `FlagWarning`,
`RecordAlert` and `FinishJob` are `runVerification`. `MarkDestroyed` and `DeleteFile` are
the `Destroy` of `EvidenceVault`, row first; `DamageFile` alters or removes a file
behind the system's back; `Fault` counts everything that goes wrong. The check
of a time-stamp token only writes to the log and is left out.

**TSARetry.** The lock `tsaRetryLockID` belongs to a Postgres session and may be
held several times by it; each statement takes any session of the pool.
`TryAdvisoryLock`, `FindPendingTSA`, `MarkTSAFailed`, `IssueTimestamp`,
`RetryLater`/`UpdateTSAResult` and `ReleaseAdvisoryLock` are `runOnce` in order. `CloseSession`
is the pool closing a connection (idle or too old), which frees the lock without
the run noticing. `lost`, `through` and `shared` are history. Left out: the limit of
50 items per batch, the retry counter, and a stored hash that does not decode.

**Backup.** `InsertLog`, `DumpPostgres`, `ListObjects`, `GetObject` for each key,
`SnapshotEnds`, `OpenFile`, `WriteFile`, `UpdateLogCompleted` and `Succeed` are
`RunBackup` in order; `UpdateLogFailed` and `NotifyBackupFailed` are `failBackup`. The
dump is one moment (`pg_dump` reads one snapshot), the objects are listed at a
later one and read one by one. Around it `PutObject`, `CreateRow`, `DropUpload`,
`MarkDestroyed` and `DeleteObject` are the uploads and destructions of
`EvidenceVault`, in the order that module gives them; `LoseObject` is an object that
disappears although its row is live. A cancelled context appears as failing
calls. The counter of failures is in memory, so `Crash`, which is also a restart between
runs, clears it. `failed` is history and is not cleared: the runs that ended without a
backup since the last success, also those that `InsertLog` refused and those a crash
ended. `forgotten` are those of them the counter cannot know, `unheard` the ones whose
notification failed; `gone` and `silent` are history too. Left out: compression and encryption, and `VerifyBackup`, which
changes nothing.

**EvidenceRecords.** The calls that write a row, an event and a search document one
after the other. `Insert` is the INSERT of an upload; `RecordEvent` and `IndexEvidence` are the two
steps `Upload` and `UpdateMetadata` share, each with its error, which is only logged.
`UploadNewVersion` reads the parent, uploads, then `MarkPreviousVersions`,
`UpdateVersionFields` and `RecordVersion`. `TouchMetadata` is an update that names no field.
`Interrupted` is a crash in the middle of a call. `MarkDestroyed` and `DeleteFile` are
the `Destroy` of `EvidenceVault` as far as the table and the store see it. A description
is the number of the update that wrote it, so that a stale document is told apart from a
current one. `lost`, `stale`, `muddled` and `branched` are history: what failed or
overlapped, so that the properties can say what holds otherwise. Checks, numbers and
stored objects of an upload stay in `EvidenceVault`.

**CaseExport.** `ListItems` and `ReadLog` are the two queries, `WriteHead`, `CopyFile`,
`FilesWritten`, `WriteTables` and `WriteReadme` the stream in order, `CloseArchive` the `zw.Close`
and `RecordExport` the event `case_exported`. `FileFails` returns an error in the
middle of the stream, after which the deferred `zw.Close` still writes a central
directory; `ClientGone` is a response that cannot be written. Left out: the layout of the files,
and the restriction of the export to disclosed items.

**Listings.** Rows are numbered in the order of their random ids, `time` is any
function of them. `Count` and one of `SelectCases`, `SelectEvidence`, `SelectCustody` and
`SelectInbox` are a page (`IsPage` says which sets of rows ORDER BY and LIMIT may
return when times are equal); `Enter` and `Leave` change what matches. The limits are those
of `ClampPagination`, of `GetCustodyLog` and of the inbox, which are three different rules.

**CaseRoles, Notifications.** `Assign` and `ListByCaseID`/`Revoke` are the handlers, with
`RecordGranted` and `RecordRevoked` after them. `ListByCaseID` picks the one role that
the event of a revocation will name, or none; `Revoke` then deletes every row of the user, and
`RecordRevoked` ends in the log (`told`) the pair it names and no other. `unnamed` is history: the
pairs a revocation ended without naming them. A case is one of many and its roles stand
for themselves: a search that covers several cases is filtered if one of them is under the
defence. `GetUserCaseIDs`, `GetUserCaseRoles` and `SearchEvidence` are a search. `Notify` resolves
the recipients, `Create` inserts for one, `Send` or `SkipMail` follows; `Deliver`, `SeeStop` and
`Exit` are `run` of the `EmailSender`. Calls of `Notify` come without end: `Events` are slots, and a
slot that has returned, and has no e-mail in the queue, serves the next call, whose rows and
e-mails take the place of the old ones in the history. Left out: `MarkRead` and `MarkAllRead` (one statement
each, nothing depends on it), an empty SMTP host, the search of a system administrator (it is
not filtered). `main` passes no e-mail
resolver and sends `integrity_warning` and `backup_failed` only; the module has every type and
a resolver as well.

## 3. What the runs show

Passing runs:

| run | instance | distinct states | shows |
|---|---|---|---|
| `custody` | 2 writers, 2 cases, 3 events, clock 0..3, 2 clock units to a stored one | 52 764 | `LinksToLatest`, `BreakNeedsDisorder`, `ForkNeedsDisorder`, `ReportAgrees`; `LogSpec` (refinement of `HashLinkedLog`); `WaiterServed` |
| `vault` | 2 requests, 2 uploads, 2 reads | 751 455 | `LiveRowsResolve`, `NoOrphans`, `UniqueNumbers`, `DestroyedOnce`, `HoldOutlastsDestroy` |
| `system` | 2 case handlers, 4 calls, 1 request, 1 upload, 1 read | 1 023 310 | `NeverReopened`, `ArchiveSettles`, `NoPhantomEvents`; `VaultPromises`: the system implements `EvidenceVault` |
| `integrity_jobs` | 2 admins, 2 items, 2 jobs, 2 faults | 778 896 | `CountsAddUp`, `NothingSlips`, `WarnedForCause`, `JobsEnd` |
| `tsa_retry` | 2 instances, 2 connections each, 2 items, lock depth up to 2 | 441 177 | `OneInstanceWorks`, `StampIsFinal`, `DestroyedIsLeftAlone`, `RunEnds` |
| `backup` | 2 runs and 1 item; 3 runs over an empty store; critical at 2, 3 faults | 569 941 | `SnapshotCoversDump`, `CompletedIsWhole`, `VerdictLeft`, `AlarmInTime`, `RunsEnd` |
| `records` | 2 requests, 3 items, 2 updates, destroys or failures | 1 306 290 | `FamiliesStayWhole`, `IndexKeepsUp` |
| `export` | 2 requests, 2 items, 1 update, destroy or failure, 1 export | 745 343 | `LogCoversItems`, `MarkedWholeIsWhole` |
| `listings` | 4 rows, 2 times, pages of 1 and 2 rows, 4 listings | 839 142 | `PagesNeverRepeat`, `PagesCover`, `ReadingEnds` |
| `notifications` | 2 users, 2 roles, 2 handlers with 3 calls; 2 calls of `Notify` at once, without end, a queue of 1 | 1 250 881 | `LogMatchesRoles`, `AnswerFitsRoles`, `NobodyForgotten`, `StopFlushes`, `StopEnds` |

Runs that refute what the repository says of the program:

| run | the repository says | what happens |
|---|---|---|
| `custody_nanoseconds` | `custody_integration_test.go:145`: "chain should be valid" | one event with a stamp off a whole microsecond fails verification when read back |
| `integrity_two_jobs` | `integrity/handler.go:165`: "Reject if a verification is already running" | two requests load, both find nothing, both store |

The positive properties are stated so that they say exactly what remains true:
`BreakNeedsDisorder` (the log verifies unless stamps were committed out of order or
rounded), `ArchiveSettles` (an archived case is frozen once the calls that were
between check and write at that moment have ended), `HoldOutlastsDestroy` (a
hold protects against every `Destroy` that begins under it), `OneInstanceWorks` (two
instances work at once only if a connection was lost), `StampIsFinal`,
`FamiliesStayWhole` (for a family of versions no call overlapped or failed on),
`IndexKeepsUp` (for items no two calls overlapped on and no index call failed for: what becomes
of the others is below), `NoPhantomEvents` (every event of an archiving or of the hold is
of an UPDATE that changed its column or was overtaken by another call), `AlarmInTime` (fewer
than the critical number of runs in a row end without a backup and without a critical
alarm, but for runs refused by `backup_log`, those before a restart, and notifications that
failed), `LogMatchesRoles` (the log denies no role that is held, and claims besides only roles a
revocation ended without naming them, unless an event failed or came after another
change), `AnswerFitsRoles` (a user who had the defence's role alone from the first read of a search to
the second is filtered; one whose roles all went in between is not), `StopEnds` (unless
e-mails arrive for ever), `LiveRowsResolve` (but for the file of an item
whose INSERT committed and reported an error), `NoOrphans` (for items nothing was
interrupted with), `PagesCover`
(where the cursor agrees with the order, and no row came between COUNT and SELECT),
`MarkedWholeIsWhole` (an archive with a README.txt).

Behaviour the models contain and no run reports, because a property forbidding
it simply fails:

* Cases. `UpdateCase` with status `archived` does not look at the hold, although
  `cases/service.go:160` says "cannot archive a case with active legal hold". The hold of
  an archived case may change by a call that read it earlier. An `UpdateCase`
  validated before the archiving writes `closed` over `archived`, although
  `cases/service.go:101` blocks updates to archived cases. A change whose custody
  insert fails has no event. Two calls of `ArchiveCase`, or of `SetLegalHold` with one value, that
  overlap both pass their checks, both UPDATE and both record: the log shows two events for one
  change.
* Evidence. The hold may be set between the check of `Destroy`
  (`evidence/service.go:365`: "cannot destroy evidence under legal hold") and its
  UPDATE. An upload that checked the status may create its row after the case was closed.
  A download that read its row may serve the file of an item destroyed meanwhile. A
  thumbnail stored after `Destroy` read a row without a thumbnail key stays in the
  store. An INSERT that commits and reports an error (`evidence/service.go:205`) makes `Upload` delete
  the file of a live row; a crash between two steps leaves an orphan or an unfinished item. An
  upload that fails after `IncrementEvidenceCounter` leaves a gap in the numbers.
* Versions. Two new versions of one item at once leave two current versions, or equal
  numbers; a new version of an old version repeats a number also when nothing overlaps
  (it is given the number of its parent plus one). A call that stops between
  `MarkPreviousVersions` and the next UPDATE leaves a version without its parent.
* Search. The document of a destroyed item stays in the index; two calls on one item may
  index in the opposite order of their UPDATEs, and a failed index call is not repeated.
  A user whose roles are all revoked between the two reads of a search keeps the list of
  cases and is not filtered (`search/handler.go:72`), a user of the defence as well, although
  `search/handler.go:71` says "Defence users may only see disclosed evidence". A user with
  several roles in a case is filtered by one of them, the last row read.
* Roles. A revocation ends every role of the user (`cases/roles.go:61`), and its event names one:
  the first of the list read before, which may be gone by then, or none. Of a user with
  two roles the log goes on claiming the other.
* Export. A file that cannot be fetched ends the export after the header was sent; the
  deferred `zw.Close` (`cases/export.go:119`) then makes what is there a readable
  archive, while `cases/export_handler.go:64` expects an incomplete one. Only its missing
  `README.txt` tells it apart.
* Listings. Evidence and custody events are sorted by time and cut by a random id, so
  a second page may repeat rows or leave them out;
  `evidence/repository_integration_test.go:711` ("page 2 should return items") depends on
  the ids drawn. `GetCustodyLog` says `has_more` and sends no cursor. An inbox asked
  for more than the maximum ends after one page.
* Time stamps. `integrity/tsa_retry.go:122` skips items older than 24 hours and marks them
  as failed, but the SELECT lists only younger items: the branch is reached only by an
  item that ages during the run, any other stays pending for ever.
* Backup. A completed backup holds the database only when one object could not be
  read, which an item destroyed during the snapshot is enough for; a crash leaves the
  row of a backup at `started`. A run that cannot insert its row (`backup/runner.go:193`) returns
  an error and neither counts nor alarms; a restart forgets the failures before it; a
  notification that fails is not repeated. Backups may fail for ever without a critical alarm.
* E-mail. A message queued after `Stop` may never be sent, and one that meets a full queue is
  dropped. The drain of `Stop` ends when it finds the queue empty (`notifications/email.go:98`): as
  long as calls of `Notify` keep it fed, it does not, and `Stop` does not return. `smtp.SendMail`
  has no deadline (`notifications/email.go:152`), so neither does `Stop`.

Met while reading, and outside the models: `VerifyBackup` compares the size of the
file only, while its comment (`backup/runner.go:334`) speaks of its checksum; the
retry job records its events with the actor `system`, which is not a UUID, so the
insert always fails; a disabled authority answers a retry with a nil token, which is
stored as `stamped`; the documents of the index never carry `is_disclosed`, by which
the search of the defence is filtered; `ReindexAll`, `ConfigureEvidenceIndex` and
`RemoveEvidence` are never called; `GetUserCaseRoles` keeps one role per case, the last
row read; `UploadNewVersion` has no HTTP route.

### Bounds, and why they are enough

Two actors are enough for every race of a check and a write. `system` gives the two case
handlers four calls, because a stale write may have to survive two changes by the
other handler (active, closed, archived). `custody` needs a predecessor, and two rows in
either order, hence three events; the clock unit is half a stored one, so exact,
rounded and equal stamps all occur. `vault` has two items so that numbers can
collide and two requests so that `Destroy` meets `Destroy`, the thumbnail or `Download`.
`integrity_jobs` allows two faults: the damage and the loss of the flag or of the
process. `backup` has one item, since each property of it speaks of one item at a
time and items meet only in the snapshot that one of them spoils for all; two
runs, to share the counter. For what the runs count together a third one joins them over
an empty store (`MCBackup`, `part`): no step on the store depends on the counter, nor the
counter on what is in the store. `CriticalAt` is 2 there and 3 in the code, and three
faults are the two failures and a lost object, a crash or a failed notification. `MaxDepth` = 2 in
`TSARetry` is not a cap on behaviour: a lock taken more often stays at the depth "2 or more", from which an unlock may or may not
come down. `records` has three items, so that a new version can meet another one of
the same item or of the version just uploaded; its two extra steps are two updates, or an
update and the failure of its index call. `export` has two items, since an item is
accounted for on its own and the archive is spoiled by one of two. `listings` has four rows
over two times, so pages of two rows are followed by another page, and rows of one
time and of two times lie on both sides of a cursor; a client may ask for less than a page,
for a page, and for more than the maximum. `notifications` has an administrator who may also be
in the case (both lists of recipients), two roles, of which one restricts a search,
and a queue of one, which two calls of `Notify` at once fill; each slot may be used again for ever, so
the queue can be kept fed while `Stop` waits. `MCNotifications` explores the roles and
the notifications one at a time: `Notify` reads the roles in one statement, at a
moment when they may be any table of roles, and neither handlers nor searches read
anything of the notifications. `MaxCalls`, `MaxUploads`, `MaxReads`, `MaxJobs`, `MaxEvents`, `MaxTime`, `MaxItems`, `MaxExtras`, `MaxRows` and `MaxAsk` cap
how much work comes in; runs in which that work ends have `CHECK_DEADLOCK FALSE`, with
the reason in the cfg. The proofs need none of these instances: they hold for
every value of the constants.

### Fairness

`CustodyChain`: Postgres queues the waiters of a lock (strong fairness of
`AcquireLock`); a transaction that is not aborted goes on. `IntegrityJobs`: a
goroutine goes on, and its calls return or fail (weak fairness of a job's steps; it
runs under `context.Background()`, so no caller can stop it). `TSARetry`: calls of a
run end (the client of the authority has a timeout), and the ticker fires for ever
(strong fairness of `TryAdvisoryLock`). `Backup`: `pg_dump` and the calls to the stores
end, in an answer or an error (weak fairness of a run's steps). `Listings`: a client that is
told there is more reads on (weak fairness of its requests; the rows that come and go
meanwhile are not fair). `Notifications`: the goroutine of the sender is scheduled and the mail
server answers or fails in the end, and so is the caller of `Stop` (`SenderFairness`). Calls of
`Notify` are not fair and may queue for ever; `StopEnds` says what happens when they do not
(without that premise TLC finds the drain that never ends). Where the code sets no
deadline (`pg_dump` and the store in `Backup` and `IntegrityJobs`, `smtp.SendMail`), fairness
assumes that the call ends: `RunsEnd`, `JobsEnd` and `StopEnds` say nothing of one that hangs. Faults, crashes and
the arrival of requests are never fair. `RunEnds`, `RunsEnd`,
`JobsEnd`, `ReadingEnds` and `StopEnds` do not assume that anything succeeds.

## 4. What is proved

All theorems are for every value of the constants under the named assumptions of
the modules (`CustodyAssumption`, `CaseAssumption`, `VaultAssumption`,
`IntegrityAssumption`, `RetryAssumption`, `BackupAssumption`, `RecordsAssumption`,
`RolesAssumption`, `NotificationsAssumption`, `ListingsAssumption`), which only say that
bounds are numbers and in their order, that the "none" values are not in the sets, that
the defence is a role, and that the backup runs are finitely many.

* `CustodyChainProofs`. `ChainInv` adds to type correctness that a writer inside
  its transaction holds the lock of its case (`LockHeld`), that the hash it read is
  *still* that of the latest row (`LinkPending`), and that ids are fresh and
  rows sealed. From it: `LinkedToLatest`; `ForkOnlyByDisorder` (two rows with one
  predecessor: the earlier of them was already there when the later one was
  linked, so the order of stamps is not that of commits); `BreakOnlyByDisorder`;
  and `ImplementsLog`, the refinement, where only `Commit` is not a stutter.
  `ReportInv` adds that every set of rows has a latest one (`Listable`: the listing is well
  defined) and that the rows of a case have a first one in the order of commits
  (`FirstCommitted`). From it `ReportNeverDiffers`: a row the report accepts
  names the row listed before it, because its hash covers that row's identifier
  (`AcceptedLinks`); and of a log the report accepts, the row listed first is the one committed
  first, since that one covers no identifier and would break anywhere else
  (`FirstListed`), so nothing is missed by skipping it.
* `VaultSystemProofs`, for `CaseLifecycle` and `VaultSystem`. `CaseInv`: whoever is about
  to write `archived` has seen `closed`, and nobody writes `active`. From it `CaseNeverReopens`,
  `CaseClosesFirst`; and `CaseSettles`, for which no strengthening is needed: in an
  archived case no call gets past its first check. `EventInv`: finitely many calls are
  under way, and one about to write that was not overtaken still finds the value it is to
  change (`FindsChange`), because whoever changes that column overtakes it. So each UPDATE of an
  archiving or of the hold changes its column or is one of the repeated ones, and the events
  written and still owed stay within the two (`EventsFollowChanges`), each step moving one
  call in or out of a finite set.
* `EvidenceVaultProofs`. `VaultInv` ties the stage of each request to the two
  stores: which key a request owns, that nobody else has it, what the row and
  the object of that key are. From it: `LiveRowsAlwaysResolve`,
  `NoOrphanIsLeft`, `NumbersAreUnique`, `DestroysOnce`, `HoldProtects`.
  `SystemKeepsCases` and `SystemKeepsVault` (in `VaultSystemProofs`): the composition
  implements both parts; the second uses `CaseInv` to show that a step of the case
  service is a `CaseChanges` step.
* `IntegrityJobsProofs`. `JobInv`: what a job is reporting has cause, and every item
  damaged when the job listed is still to do, being flagged, flagged, or its flag
  was lost by a failed UPDATE (`DamageInHand`). From it `CountsAlwaysAddUp`,
  `NothingSlipsThrough`, `NoFalseAlarm`.
* `TSARetryProofs`. `RetryInv`: a run that did not lose its connection holds the lock
  through the session that took it (`LockThrough`), and pools share no session;
  batches overlap only in items noted as `shared`, and only those can be stamped
  while in a batch (`BatchesApart`). From it `OneAtATime`, `StampsAreFinal`,
  `DestroyedStaysAlone`.
* `BackupProofs`. `BackupInv`: what a run dumped is still to be read, was read, or was
  destroyed or lost since (`DumpAccounted`), which rests on an upload that stores
  before it inserts (`LiveHaveObjects`); a row says `completed` only after the file
  is whole (`FileBeforeVerdict`); the counter is the number of failed runs it can know of
  (`FailuresCounted`), so the run that makes it critical is alarmed of as such, and the runs before
  it are fewer. From it `SnapshotsCoverDumps`, `CompletedBackupsAreWhole`,
  `VerdictsAreLeft`, `AlarmsInTime`.
* `CaseExportProofs`, for `EvidenceRecords` and `CaseExport`. `RecordsInv`: a request past its
  INSERT or UPDATE holds a row that is there (`RequestsHold`), rows are numbered in the order
  they came (`Dense`), and of an item nobody overlapped on, one request at most will
  write the search document, and it will write what the row holds (`OneIndexes`). From it
  `IndexAlwaysKeepsUp`. `FamiliesInv` adds what makes a family: a parent is a first version,
  and a row being versioned has no parent, no child and no other versioning, unless
  they overlapped (`Links`); a first version nothing overlapped or failed on has at
  most one versioning, which holds the next number, and between its two UPDATEs no
  member is current (`CleanFamilies`). A step either leaves parents, numbers and marks
  alone (`StillStep`) or is the start, the insert, the marking or the numbering of one
  versioning. From it `FamiliesAlwaysWhole`: by `Links` the versions of a settled root
  are closed under "new version of", so they are the whole family, however deep
  `Family` looks. `ExportInv`: what a row shows is at every moment in the custody
  log, lost, or owed by a request, and stays so for the rows the export has listed until
  it reads the log (`RowsAccounted`); the parts of the archive follow the stage of the export
  (`PartsFollow`). From it `LogAlwaysCoversItems` and `MarkedArchivesAreWhole`.
  `ExportKeepsRecords`: `CaseExport` implements `EvidenceRecords`, so what is proved of the records
  holds beside an export.
* `UserViewProofs`, for `CaseRoles`, `Notifications` and `Listings`.
  `RoleLogInv`: of a user whose changes did not overtake each other one at most is
  unrecorded, and the log lacks that one and nothing else (`LogLacksChange`), where what
  a revocation ends without naming counts as still claimed; from it
  `LogTellsRoles`. `SearchInv`: what either read of a search has returned is among the
  sets of roles its user has had from the first to the second; from it `AnswersFitRoles`. `NotifyInv`: while a
  `Notify` runs, each recipient is still to do, has a row, or had a failed insert, once
  (`OwedOnce`); from it `EveryoneNotified`. `MailInv`: an e-mail is of a row and is in one
  place at a time (`MailOnce`, also when its slot serves another call), and the goroutine ends with none of the accepted ones left
  in the queue (`AcceptedKept`); from it `StopLosesNothing`. `PagesInv`: where the cursor
  agrees with the order, the rows got lie behind it (`GotIsBehind`), those that were there
  throughout and are not got lie ahead, row by row (`RestIsAhead`), and COUNT has counted
  at least what is there unless a row came in between (`CountCovers`), so that an end of the
  listing is one; `CursorSeparates`, and from it `NoRowTwice` and `NoRowMissed`.

The type invariants, `ClosedBeforeArchived` and `PendingWrites` are theorems or parts of
one and are not run again.

Every invariant and every property of single steps that a passing run checks is a theorem.
Only model-checked: liveness (`WaiterServed`, `JobsEnd`, `RunEnds`, `RunsEnd`, `ReadingEnds`,
`StopEnds`), which is beyond the prover. The inductive invariants were checked by TLC on
the instances of the runs before they were proved; they imply the properties and are not
run again. `FamiliesInv` and the theorems it gives rest on `Family` as the least set closed
under "new version of", which needs no recursion.

## 5. What is not modelled, and why

The models stand for about a third of the Go code: the services that write
evidence, cases and the custody log, and what reads them while they change. Three parts
with state of their own are left, in this order:

1. The authentication audit log (`internal/audit`): a second hash chain, under one lock
   for all, with `created_at` the start of the transaction, so that its links may go out of
   order like those of the custody log. Nothing in the repository lists or verifies it.
2. The key cache (`internal/auth/jwks.go`): concurrent fetches replace it in the order they
   end, so an older set of keys may take the place of a newer one for the time to live.
3. The cached answer of the health endpoint (`internal/server/health.go`), computed under
   the context of one request and shown to all.

Of the modelled parts: `GetThumbnail` (a read like `Download`), EXIF and image decoding,
validation of fields, the disclosure filter of listings and export, `MarkRead` and `MarkAllRead`,
`VerifyBackup`, the batch limit and the counters of the retry job, and the poll of a
verification job, which only reads.

Not planned: HTTP decoding, routing, configuration, logging, PDF and ZIP layout,
RFC 3161 encoding, thumbnails as images, migrations as such, terraform, the web client: they
keep no state these properties speak of. The decoding handlers make one call of a service
and encode its answer.
What a proof could still add: abstract specifications beside `HashLinkedLog`, of the search
index as a copy that lags its table and of the mailbox, refined by `EvidenceRecords` and
`Notifications`.
