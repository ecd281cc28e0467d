# SnapAdmin: TLA+ models, model checks and proofs

Specifications of django-snapadmin (`src/snapadmin`): its background jobs, its stores and the copies of
them it keeps in step, the surfaces that give data away, and the checks that stand before a deploy. They
are model-checked with TLC on small instances; most of them, from exports and imports to key rotation, quotas and
field access, are also proved with TLAPS for every value of the constants (section 5). `PROJECT.json` lists the components, the runs, the source
lines behind each definition, the findings, the hazards and the theorems.

## 1. The system

SnapAdmin turns Django models into an admin site and an API, and ships the operational jobs around them.

| component | state | operations | hard behaviour | what makes it correct |
|---|---|---|---|---|
| export (`exporting.py`, `api/exports.py`) | a `SnapExportJob` row, a working file per host, the published file | create, run and resume by chunks, cancel, download | crashes, power loss and redelivery at any step, other hosts, concurrent inserts and deletes | one worker at a time; a durable checkpoint; a completed file is whole; a delivered file stays |
| import (`importing.py`) | a `SnapImportJob` row, the report file, the target table | start, run, resume, cancel | crashes between report, rows and checkpoint; other writers of the same keys | no row twice; counters, table and report agree |
| retention of job files (`exporting.py`) | job rows, storage | purge finished jobs, sweep orphan files | workers publish meanwhile, storage fails | a job within its window keeps row and file |
| retention of rows (`models.py` `purge_expired`) | rows, files, documents | purge due rows, files first | protected rows, shared files, partial failure | exactly the due rows go, from every store |
| Elasticsearch mirror (`models.py`, `reindexing.py`, `es/`) | rows, documents, a `SnapReindexJob` | save, delete, reindex, resume, tune, verify, search, scan | two stores without a transaction | what nothing disturbed is found as stored; a reindex heals; a scan yields each match once |
| backup and restore (`backup.py`, `restore.py`, `snapshot.py`) | state file, bundles, snapshots | due slots, dump, store, prune, restore, rollback | partial stores, overlapping passes, bounded pipes, broken parts | a bundle reported stored stays whole; a restore applies the whole bundle, or psql's errors, and can be undone |
| quotas and cooldowns (`limits.py`, `alerts.py`, `monitoring.py`, `health.py`) | cache counters that expire | reserve, release, arm, send, release | expiry and eviction between two calls | caps hold; a window is claimed by an alert that goes out |
| encryption (`encryption/`, `fields.py`, `snapadmin_encrypt_fields`) | a keyset per process, ciphertexts, blind indexes | save, load, look up, rotate, drop a key | saves during a rotation, stale keysets, partial instances, fixtures | every row stays readable and is found by its value |
| sharding (`sharding/`) | cached probes, scopes | route a read or a write | stale health, failover | a pinned scope reads its own writes |
| source sync (`etl.py`) | rows with a watermark | upsert, delete what is stale | counts read before they are used | at most the counted fraction goes, and nothing the feed named |
| tenancy (`tenancy.py`) | a context variable | bind, scope, stamp | threads are reused after failures | rows of the caller's tenant alone |
| API and admin (`api/`, `admin*.py`, `models.py`, `audit.py`) | tokens, permissions, the audit trail | authenticate, dispatch, serialize, edit, record | rotation beside use; edits, inlines, cascades and their entries in one transaction | access ends where its grant ends; no surface gives away a guarded value; the trail accounts for the rows |
| files and subjects (`fields.py`, `snapadmin_subject_request`) | stored files, rows, exports | replace, delete, export, erase | removals after commit, shared names, stores one after another | no row loses its file; what is recorded as erased is gone |
| checks (`checks.py`) | none | report on settings and declarations | a check guesses what the code will make of a declaration | what goes wrong was announced |

Exports and imports share `SnapJobBase` (`jobs.py`): the status of a row is the only lock, taken with a
conditional `UPDATE`. Jobs reach workers through Celery (`tasks.py`, `acks_late`), imports run in a
management command. Exports and import reports share one directory and one storage, which is how export
retention reaches into imports. Saves, purges, syncs, subject requests and the reindex all write the same
index, each with its own order of database and index. Tenancy, masking and permissions are consulted by
every surface; the audit trail is written inside the admin's transactions.

## 2. Modules

Exports have a TLC module of their own; the others are small machines that share three. `MCJobs`, `MCOperations` and
`MCRequests` hold one *scene* per component: the initial state picks a component and `v1, v2, ...` are its
variables, so that one run explores the union of their state spaces. The components with theorems, and `StoredFiles`, are extended
instead of instantiated (`ImportJob`, `RetentionPurge`; `RestoreRuns`, `BackupRuns`, `JobRetention`, `SourceSync`, `KeyRotation`, `MirrorSync`,
`SubjectRequest`, `StreamedDump`; `TenantScope`, `Quotas`, `ApiAccess`, `FieldAccess`, `AlertCooldown`, `Sharding`, `EncryptedColumn`, `EsScan`): the properties a run checks are then the very
definitions that are proved, their variables are the module's own and rest in every other scene. Names are kept apart for
that: `QuotaSpec`, `AccessSpec`, `MirrorSpec`, ... are the specifications, and bounds carry their component's name. Nothing is
composed by that, and a property is implied by its scene. Components that interact are composed where the interaction is the
question: `ExportJob` refines `ExportPromise` (`ImplementsPromise`), `MCOperations` instantiates it a second
time for workbooks, `StartupChecks` drives the two modules of checks.

| module | what it models | checked in |
|---|---|---|
| `ExportPromise` | what an export promises: durable rows that only grow past every undisturbed row; its own theorem | `export` |
| `ExportJob` | `run_export_job` by several workers, cancel, broker, operator, crashes, power loss | `export`, `export_lost_cursor`, `operations` |
| `ImportJob` | `start_import` and `run_import_job`, the chunk transaction, the report, the orphan sweep | `jobs`, `import_sweep` |
| `RetentionPurge` | `purge_expired` of one DUAL model | `jobs`, `purge_mirror` |
| `ExportJobProofs`, `ImportJobProofs`, `RetentionPurgeProofs` | theorems about the three modules above | |
| `BackupRunsProofs` | theorems about `BackupRuns`, `StreamedDump` | |
| `DataSafetyProofs` | theorems about `RestoreRuns`, `SubjectRequest` | |
| `OperationsProofs` | theorems about `JobRetention`, `SourceSync`, `MirrorSync`, `KeyRotation` | |
| `RequestsProofs` | theorems about `TenantScope`, `Quotas`, `ApiAccess`, `FieldAccess`, `AlertCooldown`, `Sharding`, `EncryptedColumn`, `EsScan` | |
| `JobRetention` | the purge of finished jobs and the orphan sweep beside exports that run, fail and run again | `operations` |
| `MirrorSync` | writers and reindex runners of one index | `operations` |
| `BackupRuns` | due slots, bundles part by part, retention by part, the state file | `operations` |
| `StreamedDump` | `pg_dump` and gzip, straight into the file, or with age and a second thread over bounded pipes | `operations` |
| `RestoreRuns` | restores, drills, snapshots, rollbacks | `operations` |
| `KeyRotation` | keysets per process, a rotation in batches beside saves | `operations`, `key_rotation` |
| `SourceSync` | `upsert_from_source` and `stale_sync` beside users | `operations` |
| `StoredFiles` | the receivers of file fields and their removals after commit | `operations` |
| `SubjectRequest` | export and erasure of a data subject | `operations` |
| `Quotas`, `AlertCooldown` | `limits.py`; alert cooldowns of spikes and health alerts | `requests` |
| `TenantScope` | bindings, scoped reads, stamped creates | `requests`, `tenant_deny` |
| `EsScan` | `es_search`, `es_filter`, `es_count`, `es_aggregate`, `es_scan` | `requests` |
| `Sharding` | slicing, routing with and without the shard key, nested scopes, cached probes, failover | `requests` |
| `FieldAccess` | who sees, filters, orders, searches and writes a guarded field, on every surface; `MCFieldAccess` declares two models | `requests` |
| `ApiAccess` | tokens that are managed while they are used; the verbs and actions of a model | `requests` |
| `EncryptedColumn` | one encrypted field, its blind index, partial instances, fixtures, lookups | `requests`, `index_reload` |
| `AdminEdits` | add, change with an inline, delete, "delete selected", and their audit entries | `requests`, `audit_failure` |
| `SettingsChecks`, `DeclarationChecks`, `StartupChecks` | each system check beside the code its subject reaches | `operations`, `masking_rule` |

### ExportJob and the code

`job` is the row (status, `cursor_pk`, `cursor_bytes`, `processed_rows`), `mem[w]` the same fields in
worker `w`'s in-memory instance together with `writer.byte_len`; they differ whenever the code has
changed the instance and not saved it, which is where the interesting cases are. `pc[w]` is the place in
`run_export_job`/`_run`; each action is the code between two points where another process, a crash or an
exception can be seen. `disk[n]` is the working file on a host as a sequence of cells (the header, one
cell per row, NUL as `truncate()` pads) with the length that is fsync-ed; `published` is a remote
storage; `sheet[w]` the spool of an XLSX writer. `Claim`/`Skip` are the conditional update, `Load` the
separate `get`, `OpenResuming`/`OpenFresh` the branches at `exporting.py:595-617`, `FetchBatch`, `WriteRow`,
`Fsync`, `SaveCheckpoint` one turn of the loop, `Finish`, `DeleteStale`, `Upload`, `Complete` its end, `Raise`
and `RecordFailure` the handler in `_run_claimed_job`, `Escape` the two places outside it. `CancelRead` and
`CancelWrite` are the API's cancel. `Redeliver`, `OperatorReset`, `Crash`, `HostCrash`,
`InsertRow`, `DeleteRow` are the environment. Abstracted: cell contents, masking, total_rows, timestamps
and errors texts, tenants.

### ImportJob and the code

The file is rows `1..N`, each with a natural key and either valid or `Bad`. `tx[w]` are rows inserted in an
open chunk transaction, `lines[w]` the chunk's report lines, `made[r]` how many committed records row `r`
has created (more than one is a duplicate), `others` keys committed by other transactions. `LookUp` and
`StoreRow` split `_process_row` between the lookup and the write; a unique key another transaction holds
uncommitted blocks the write. `ReportChunk` (write and fsync) precedes `Commit`, as in the code.
`ResumeFind`/`ResumeReset` are the two statements of `start_import(resume=True)`. The conflict mode and whether a
unique natural key resolves are fields of the job chosen in `Init`. Abstracted: columns, coercion and the
write-surface check (they decide `Bad`), deletes of target rows, a natural key that is not unique, remote
publishing of the report (a failure of it is `Raise` at `publish`).

### RetentionPurge and the code

`rows`, `files` and `docs` are the three stores; `layout` says which files a row names and which row it points at
through a `PROTECT` key to its own table, `guarded` which rows another model protects, `due` which deadlines are
before `now`. `run` holds the local variables of `purge_expired` and `_delete_expired_rows` (`target` is the row of a
pass, `NoRow` on the bulk path), `ended` what the last call returned or raised. Every query that evaluates the
retention filter is a step of its own: `Start` reads `purging_pks`, `Check` is `deletable(qs)`, `ListFiles` the iterator of
the file pass, `DeleteDue` the `qs.delete()`. `NextPass`, `NextRow` and `DeleteRow` are the passes. `_file_referenced`
is asked once per file in the code and at every step here: rows name fixed files and only the purge deletes rows, so
the answer is the same. Abstracted: how age and deadline combine into `due`, tenants, the `delete_on_delete`
receivers of file fields; not modelled: the single query that purges an ES_ONLY model, dry runs.

### The operator's modules and the code

- **JobRetention.** `Start`, `DeleteFile`, `Deleted`, `DeleteRows` are the first half of `purge_expired_export_jobs`,
  `Claimed`/`ReadNames` the query for the names rows claim, `List` the listing of the storage. The sweep is in two steps, as the generator looks at a
  file's age (`NextOrphan`) before the loop deletes it by its name (`SweepFile`). A worker claims a pending or a failed job (`ClaimExport`), saves the
  file's name to the row (`NameFile`), opens the file (`OpenFile`) and ends, fails, dies or is cancelled; ages are two, `WindowPasses` moves everything past the window.
- **MirrorSync.** A writer's `SaveRow`/`IndexDoc`, `DeleteInstance` (document first, 1650-1671), `DeleteQuery`/`Receiver`/`CommitDelete`
  (receiver inside the transaction) and `BulkWrite`, which indexes nothing. A runner goes `StartReindex` or
  `ResumeFind`/`ResumeReset`, `Claim`, `Open`, `CheckStatus`, `FetchBatch`, `Bulk`, `SaveCheckpoint`, `Finish`, `Verify`; `Restore` and `relaxed` are
  `--tune`. Versions stand for row contents.
- **BackupRuns.** `RunDue`/`Forced`, `LoadState`, then per destination and part `Copy` or `UploadFails`, `Leave` (the rest of a destination is
  given up), `Prune` (`_select_stale` on the parts of one name, `StaleFiles`), and the state file written in two steps
  (`TruncateState`, `WriteState`). `AdvanceSlot` is the aligned slot arithmetic.
- **StreamedDump.** `age` chooses the path. Without it `create_db_dump` gzips straight into the file's final name (`out`), and only a
  `BackupError` unlinks it: a crash or another exception leaves a partial file there. With it the child writes `stdout` and `stderr`, `CopyBlock`
  moves blocks through gzip into the pipe to age, `EncryptBlock` takes them out into `tmp`; `CopyEnds`, `WaitChild`, `Closed`, `Check`, `Cleanup`, `ReplaceDump` are the ends of both threads in
  the order of their `finally` blocks. `PipeSize` is the bound that can make them wait for each other; what each action
  waits for is a definition of its own (`CanWrite`, `CanCopy`, `AtEnd`, ...), which `NeverStuck` is stated with.
- **RestoreRuns.** `Fetch` and `Verify` before anything is touched, `TakeSnapshot` and `Pruned`, `ApplyPart` in the order of the parts,
  `RecordRun`; a drill applies to an alias. `Rollback` is `snapadmin_rollback`, whose parts go by their sorted names. `engine` is the database:
  `PsqlGoesOn` is a PostgreSQL dump with failing statements, which psql loads in part, reports on stderr and ends with zero.
- **KeyRotation.** `Use` resolves and caches a keyset, `Prepend`/`Restart`/`DropOld` are the documented rotation, `Start`/`Read`/`WriteRow`/`NextPage`
  the command, `Plan` what it writes for a row; a page and a batch are sets, as keys order them. Ciphertexts are a key and a value.
- **SourceSync.** `UpsertBatch` commits by batch; `Count`, `Diff`, `Guard`, `ListPks`, `DeleteStale`, `ClearMirror` are the separate queries of
  `stale_sync` for both strategies.
- **StoredFiles.** `Loads` is what the `post_init` receiver remembers, `AfterSave` and `Scheduled` the two others; `Look` and `RemoveStored` run
  after the commit. A field is replaced or cleared, more than once in a transaction; `Reuse` lets the storage give a free name again. Names a documented exception leaves behind are collected in `leftovers`.
- **SubjectRequest.** `Walk` is `_collect_matches` with Django's collector, then `DryRun`, or `Erase`, `RemoveUpload`, `EraseDocument`, `RecordDeletion`, or
  for each model the export job's count, its pages read later and the comparison of that count with the rows found, then `SaveManifest`, `SealFile`,
  `RecordExport`. `Add` and `Adopt` are the application beside it, between count and read too.

### The modules of requests and the code

- **Quotas.** Each cache call of `reserve` is a step (`Increment`, `Add`, `SetOne`, `CountLate`), because the counter may expire (`SlotTick`,
  `NextBucket`) or be evicted (`EvictCounter`) between two; `Release` decrements what is there.
- **AlertCooldown.** A spike (`RecordError`, `CountRecent`) or a health alert (`Probe`, `ClearOnRecovery`) arms the key, sends (`Dispatch`), and gives a
  failed window back in two calls (`CompareToken`, `DeleteKey`).
- **TenantScope.** `Arrive`, `Authenticate`, `Finalize`, `Unhandled`, `Leave` are where the middleware, DRF and the job
  runner bind and reset the context variable; `List`, `Get`, `Create`, `Delete` run under what is bound. `NoFilterChained` says when a document
  of an ES_ONLY model is fetched by its key from a queryset that has no tenant filter to check it against.
- **EsScan.** `Search`, `Hydrate`, `Yield`, `EndPage` are a page of `es_scan`, `ScanFails`/`Fallback`/`Drained` its ways to the database; the other
  methods answer in one step. Hits are sorted by the primary key, so a page is the set `FirstKeys` of its keys.
- **Sharding.** `Probed` is the cached probe of a process, `WriteAlias` and `Picked` the choice; `Save` and `GetRow` carry the shard key (an instance
  is in the hints) or not (a query, which the router leaves to the default database), `MasterOnly`, `Target` and `Exit` are the scopes. Replication is external.
- **FieldAccess.** One action per surface (`Listing`, `FetchBy`, `Write`, `GraphQL`, `Submit`/`RunExport`, `ChangeList`, `ChangeForm`, `Edit`, `Timeline`,
  `AuditForm`, `AuditLabels`), each computing what the code shows with the code's own operators (`Hidden`, `Visible...`); a search may be `routed` to
  Elasticsearch, which matches its `text` fields, or on an error the admin's search fields, for anybody (`SearchUnchecked`). `Entitled` is
  written independently, from the declarations; `given` keeps apart what a door checked and what it matched `unchecked`. `rule`, `read` and `write` are partial mappings, as in the settings.
- **ApiAccess.** Managers load a token and write it back (`Rename`, `AdminEdit` the whole row, `Rotate` and `DeactivateToken` named fields);
  a request goes `AuthenticateRequest`, `Permit`, `DispatchAction`, `Handle`.
- **EncryptedColumn.** `SaveInstance` chooses the columns Django writes and `WithIndexColumns` what SnapModel adds; `Dump`/`Reload` are fixtures.
- **AdminEdits.** A request is the list of its calls in the order of the code (`AddPlan`, `ChangePlan`, `SaveFormset`, `DeletePlan`, `BulkPlan`), run
  one by one inside a transaction or not; `SwallowedFailure` dooms the transaction.
- **SettingsChecks, DeclarationChecks, StartupChecks.** 19 groups of options. For each, `XReports` is what `checks.py` prints and
  `XFailures` what the code makes of the same values (in `masking.py`, `backup.py`, `api/views.py`, `tenancy.py`, `sharding/`, ...), both
  translated from their own source. `StartupChecks` deploys option by option, checks and uses; `Names` is what an
  identifier's message says will go wrong, `Misnames` where it announces another thing than what happens, `Silent` the failures no check looks for.

## 3. Runs

| run | result | what it shows |
|---|---|---|
| `export` | passes | two workers on one host, CSV to remote storage, three faults including power loss: type, single flight, durable checkpoint, whole completed file, a delivered file stays, refinement of `ExportPromise`, and the job settles |
| `jobs` | passes | two scenes. Two processes import three rows (one bad, two with one key) in chunks of two, with two faults: counters, table and report agree and no row is created twice, confirmed lines stay, the import completes. Repeated purges, with two faults and two edits: files of dead rows only, kept rows keep theirs, no orphan, exact numbers and mirror, leaves first, failed purges are made good |
| `operations` | passes | twelve scenes: backups, a streamed dump, restores, job retention (two purges beside two export jobs that are claimed, fail, run again, die and are cancelled), key rotation, source sync, mirror (two), workbook export on two hosts, stored files, subject requests, a deploy |
| `requests` | passes | eleven scenes: quotas, cooldowns, tenancy, scans, field access, API access (two), encrypted columns (two), shard scopes (nested, with the key and without, beside failures, stale probes, promoted replicas and late replication), admin edits |
| `export_lost_cursor` | violated | finding 1 |
| `import_sweep` | violated | finding 2 |
| `purge_mirror` | violated | finding 3 |
| `key_rotation` | violated | finding 4 |
| `tenant_deny` | violated | finding 5 |
| `index_reload` | violated | finding 6 |
| `audit_failure` | violated | finding 7 |
| `masking_rule` | violated | finding 8 |

`TypeOK` of `ExportJob` is a property of `export`; the type invariant of each other module states the shape of their variables, holds on the same
instances, and is proved as a `TypeCorrect` for the six modules that section 5 names, as part of the
inductive invariant for the others.

Bounds. Exports use three primary keys with a chunk of two: one full and one partial chunk, a row inserted or
deleted between them (`Fixed` leaves out one key), so a cursor can be too early, exact and too late. Two workers are
enough for every pairwise race on one row; `MaxFaults` counts exceptions and crashes, and the two-fault findings fit
under it. Imports use three rows for the same reason, with a repeated key inside and across chunks. Purges use three
rows, which a chain needs to take three passes in one order and one in the other, and two files, so that one fails
while another goes and one is shared inside and outside the due rows. The scenes are small for the same
reasons: two processes wherever two can race (three callers of one quota, so that a late one meets a new holder of
an expired counter), in a scene of their own where they share one row or token (`shared row`, `managed`), a write less where one writer
at a time works on two rows beside a reindex (`mirror`) and for a wrapped field that is not text (`column`), one row more than a page or batch where paging is at stake, two keys of an
encryption keyset, three bundles against a retention of one, four blocks against pipes of two. `StartupChecks`
needs no bound: every combination of the listed values of a group is deployed. The scopes of `Sharding` are two deep, of one process over three
databases, with two writes where rows are sharded without replicas and one where there are replicas: scopes are a process's own, what others do to it is late replication and writes that are in the databases already, and two processes with caches
of their own are past what TLC finishes; the theorem holds for any.
Where a scene has many settings or actors, `MCOperations` and `MCRequests` spend the last unit of a bound on the case that needs it, each said at
the scene: of job retention one kind of job moves at a time and one worker, and the second purge meets one job and what
the other left; a third snapshot is taken with SQLite and no recipients; the last edit of a stored file finds or leaves a session alone; a
second change of a token or account is made where the model is open; a third write of an encrypted column is to text on a SnapModel; a cooldown
meets two callers; an export job and the audit trail are not there at once. Where two names are alike, the first to be used is fixed.
TLC's symmetry is used in `operations`, over the processes and the jobs named after them.
Fairness in `jobs` is that of each component in its scene (`JobsFairness`).

Fairness. A purge that runs goes on, and purges are scheduled again (`WF(Purge)`, the Celery beat entry). A worker
that runs keeps running (`WF(Run(w))`), the operator resets stuck jobs and retries failed ones, a cancel in progress
ends: `exporting.py:30-34` documents that operator as the remedy. Imports assume that somebody resumes an import that
has not completed, after its process ended. Faults are not fair. The scenes are checked for safety only, without
deadlock checking, since their bounds stop them; that a dump can always go on is `NeverStuck`, an invariant.

Assumptions of the passing runs that the code does not enforce, each a named constant or stated in the property:
`ResumeLive = FALSE` (an import is resumed only when no process runs it), `LateResume = FALSE` (before its report is swept),
`VolumesSurvive` on one host for the CSV run, `EditsDuringPurge = FALSE` (a deadline moves only between purges), `Disciplined` (with
aligned slots no forced run and no overlapping pass), `Noise` fits a pipe, `Storages = {"DB"}` (a tenant-scoped model has rows), `Reuse`/`StaleSessions = FALSE` (a storage does not give a removed
name again, two sessions do not replace the file of one row), an alert's dispatch ends within its window, sync
runs do not overlap, restores run in a maintenance window, the retention window passes while neither a purge nor an export attempt runs, and an
operator keeps the right to see raw data during a subject request. `AdminEdits` excuses rows of overlapping requests, of a
"delete selected" that runs or failed half-way and rows written elsewhere, and has the audit log switched on. `UnexpiredKept` excuses a failed job that is
claimed while a purge has its file to delete (b), `RestoredWhole` a PostgreSQL database that psql loaded with errors (a), `RawOnlyToEntitled`
the fields named by `Unguarded` (f, g), `ChecksHonest` the message of E005 (finding 8); `ScopeReadsOwn` compares reads and writes that are routed
the same way (c). The letters are those of section 4.

## 4. Findings

1. `exporting.py:615`: the cursor of a missing working file is cleared on the instance only. A crash before the
   next checkpoint leaves the old cursor with an unrelated file; the job then completes without the first rows.
2. `exporting.py:732`: the orphan sweep deletes import reports, which live in the same storage; a later
   `--resume` restarts from row one and creates the committed rows again.
3. `models.py:2950`: a file that cannot be deleted aborts the passes before `delete_pks_from_es`; the documents of the rows
   already deleted stay searchable and no later purge finds them.
4. `snapadmin_encrypt_fields.py:412`: rotation writes back a value it read before a concurrent save committed.
5. `es/queryset.py:133`: with no tenant bound, `get(pk=...)` of an ES_ONLY model returns a document of any tenant.
6. `fields.py:1780`: a fixture row is loaded with a blind index derived from its envelope, and is not found by its value.
7. `audit.py:328`: a swallowed audit failure leaves the admin's transaction doomed; the edit is rolled back and answered as done.
8. `masking.py:168`: a masking rule that is no dict takes its field with it, while E005 and the function's comment say that the built-in masker takes over.

Excused by name. A document or comment says more here than the code does, and a property of a passing run has an excuse for just that. The module also
states what is promised, without the excuse; TLC refutes it when it stands in place of the run's INVARIANTS (`OnlyExpiredPurged` as a PROPERTY), with
the constants of that cfg unless another value is given.

| | where | what | promise | refuted in |
|---|---|---|---|---|
| a | `restore.py:364` | psql loads a dump without ON_ERROR_STOP: a restore or a drill whose statements fail is recorded as completed, though "a periodic restore into a throwaway database is what proves a backup works" (`docs/index.html:3364`) | `DrillProves` | `operations` |
| b | `exporting.py:700` | the purge deletes jobs by keys it selected before it deleted files; a failed one that is claimed again in between (523) loses its row, its new file, or both, though "finished job rows past the window are deleted" (`docs/index.html:3783-3784`) | `OnlyExpiredPurged` | `operations` |
| c | `sharding/router.py:299` | `objects.get(id=...)` carries no shard key, so inside `snap_master_only` it reads the default database and misses what the scope saved, though `decorators.py:70-80` calls the scope the escape hatch for code that must see its own writes | `MasterReadsOwn` | `requests` |
| d | `snapadmin_subject_request.py:275` | the number of rows in the manifest is a count taken before the rows are read (`exporting.py:581`), and may differ from the sealed export | `ManifestExact` | `operations` |
| e | `fields.py:871` | clearing and replacing a file in one transaction removes the old name twice; a name given again in between is a file of another row, though "a file is only ever removed when no row anywhere names it" (850) | `NamedStored` | `operations`, `Reuse = TRUE` |
| f | `api/views.py:870` | a search that goes to Elasticsearch, or falls back from it, matches fields its caller may not see, though `?search=` "can never answer match/no-match" on them (879) | `SearchBlind` | `requests` |
| g | `api/exports.py:172` | an export filter by a masked foreign key's column passes, and the job counts the matches, though a masked field "is rejected the same way" (157) | `ExportFilterBlind` | `requests` |
| h | `api/views.py:858` | over REST a document of an ES_ONLY model is fetched by its key whatever the request's tenant is, though it "is reachable here at all only because `get_queryset` already scoped it" (704) | `ReachedInScope` | `requests`, `Storages = {"ES_ONLY"}` |

Noticed on the way. These are outside a run: a named constant, an excuse of a property or an entry of `Silent` keeps
them out of the passing runs, or the model leaves the detail out.

- Jobs: a worker past its last status check overwrites a cancel (`exporting.py:649`); redelivery does not continue a crashed export,
  as `processing` is not claimable (523); a failing file keeps every row of a retention batch, also rows whose files are gone
  (671-703); `objects.get` (530) and the save that records a failure (569) are outside the handler, although 517 says errors are
  never raised out of the worker. A resumed import writes a second summary line (`importing.py:856`); `--resume` of a live import runs it twice (557).
- Purge: a deadline extended between the file pass and the delete leaves a row without its file (`models.py:2999`); a pass
  fetches its row by key only (3008); two overlapping purges each leave a shared file to the other.
- Mirror: `--resume` resets a reindex whose runner is alive; two `--tune` runs, or a killed one, leave the index relaxed
  (`reindexing.py:79`); `delete()` clears the document before the database delete; a resumed reindex forgets earlier rejections.
  A scan's database fallback drops `query_string`, `es_search` ignores the fallback setting, and an Elasticsearch failure in the middle of a scan ends it silently.
- Backup: consecutive partial runs leave no whole bundle within `KeepLast`; a forced or second run advances an aligned slot twice
  (`backup.py:1513`); more stderr than a pipe holds blocks dump and restore; an unencrypted `create_db_dump` unlinks its file on `BackupError` only, so that a crash leaves a partial file under the final name; an
  `AgeError` in `take_snapshot` leaves a partial directory; `select_parts` never selects a shard's dump; rollback takes no snapshot and leaves added media.
- Encryption: a process with the old keyset cannot read rows under the new key; an instance loaded with `.only()` or `.defer()` saves one of
  two columns; `unique` does not hold across keys during a rotation; without a keyset the "stored value" fallback is NULL.
- Cache: the concurrency counter's timeout runs from its creation; an exception between arming and sending an alert mutes its window; a late
  release may delete a newer claim.
- Tenancy and sharding: an unhandled DRF exception without the middleware leaves the tenant bound; a keyless update under
  `snap_master_only` goes to the default database too, re-entering one scope object overwrites its token, a failover can split writes.
- Surfaces: columns of
  `api_exclude_fields` stay filterable; `api_field_permissions` holds on REST and GraphQL only. A token rename and the admin form save the whole
  row, undoing a rotation, deactivation or deletion (`api/views.py:303`); `allowed_models` is compared case-sensitively.
- Files and subjects: concurrent replacements of one row's file orphan one; names shared across models are not seen; children of a cascade
  whose model has no receivers are not counted and keep their files; a crash after the delete loses the list of files; an Elasticsearch failure after it leaves no audit entry; a failed export leaves plain text.
- Admin: the mirror is written inside the admin's transaction, so a rollback leaves a document; overlapping change requests revert a field
  without an entry; "delete selected" is not atomic; `snapadmin_audit_export --purge` with filters deletes entries it did not export; a stale save resurrects a deleted row.
- Checks that say more than the code does: W015 calls the form of a model without `show_in_form` empty, but `admin_gen.py:671-673` falls back to every
  editable field; E008 says an action's verb is answered 403, DRF answers 405; E001 and E003 report a key with another case although it masks;
  E018's and E019's guard (`checks.py:1748-1753`) does not catch a `SNAPADMIN_ENCRYPTION` that is no dictionary, a provider that raises or a key file that is
  no text, and the check dies; an unknown profile stops Django before a check could report it.
- Checks that say less (`Silent`): W004 skips a model with `api_read_only` whose explicit verbs win; E009 passes a tenant field that is a
  reverse relation, E027 a scoped model whose default manager is another; W010 times the first gap of a crontab and no plain seconds; W011 one
  key of a pair; E029 an explicit None; E016 a gap between ranges; E012 a path that ends in a relation or an encrypted column, and a subject
  model without a path; E023 an ordering by an expression; E010 a schema that does not build, which only logs; a custom shard function that
  names no shard, a throttle rate with spaces, an unknown `INCLUDE` part and a nested app that moves into a hidden one are found in use only.

## 5. Proofs

Each component's `TypeCorrect` says that its variables keep their types; a `Setting`, where a theorem has one, names
the constants its hypothesis fixes, and the paragraph says which documented condition that is.

`ExportJobProofs`, for any workers, hosts, keys, chunk size and number of faults:

- `TypeCorrect`, `SingleFlightHolds`: for every format and storage. `FlightInv` adds that a live worker's row is
  `processing` or `cancelled`, which is what the claim and the operator's reset preserve.
- under `DurableFile` (a resumable format, one host whose volume survives; power loss allowed):
  `CheckpointDurableHolds`, `CompletedWholeHolds`, `DeliveredStaysHolds`, `ExportImplementsPromise` and
  `NothingMissing`. The assumption is needed: finding 1 is a counterexample without it.
- under `Workbook` (XLSX on any number of hosts, no volume that outlives a loss of power): `WorkbookWholeHolds`, and
  with a remote storage or a volume that survives `CompletedWorkbookHolds`. Nothing on that path is fsync-ed, hence the assumption.

The invariant for lines is `IInv == ExportInv /\ ChunkInv`. `WorkerInv` says what each place of the loop knows of the file: outside a
chunk the file is exactly what the instance says and fsync-ed (`FileMatches`); inside, file and remaining batch together
extend it (`FileTakes`); past the loop no undisturbed row is left (`Exhausted`). `CheckpointInv` is the saved claim, whose
prefix every later action preserves because files are only appended to or cut at `job.bytes`. `ChunkInv` says what
lies beyond the checkpoint is one chunk ending at its cursor; the refinement needs it to map `SaveCheckpoint` to
`Extend`. `BatchCovers` proves that a batch that is the first `ChunkSize` rows leaves no row behind up to its last;
`TakesBatch`, `TakesRow` and `TakesDone` carry a chunk from the fetch to the flush, for files and sheets alike.
For workbooks `BookInv` says the same of the spooled `sheet[w]` and that any file in place is whole; `HandInv` follows the file
from `Finish` to the storage, with single-flight to keep other workers from taking it away in between.
`ExportPromise!NothingMissingHolds` is proved once at the abstract level and transferred by `NothingMissing`.

`ImportJobProofs`, for any file, repeated and bad rows, chunk size, processes and faults:

- `TypeCorrect`, whoever resumes an import.
- under `~ResumeLive /\ ~LateResume`: `ImportAccountedHolds`, `ConfirmedLinesStayHolds`. The first half is what the command
  documents `--resume` for, to continue a crashed run (`snapadmin_import.py:14`); the second is needed, as finding 2 shows.

`IInv` takes a place at a time (`AtPlace`): between chunks the report is one line per row up to the checkpoint and then
summaries or nothing (`ReportClean`); inside, the lines of the chunk and the uncommitted rows of the transaction describe the same rows
after it (`ChunkSound`); after `ReportChunk` those lines are also in the file, ahead of what the row confirms (`ReportAhead`). A crash drops
the transaction and leaves the lines, which is why the next run truncates to `job.bytes`; `Trailer` says that this is the number of
rows done. `OneRunner` makes all of it a matter of one process.

`RetentionPurgeProofs`, for any table, tree, sharing of files and number of faults:

- `TypeCorrect` and `LeavesFirstHolds` without further assumption. `PassInv` says that while a pass has deleted nothing
  every row it has visited is protected; references are only added while a purge runs, so it stays so.
- under `~EditsDuringPurge`: `NoOrphanFileHolds`, `KeptWholeHolds`, `ResultExact` (`PurgeExact`), `FilesOfTheDeadHolds`. `StoreInv` names
  the rows about to go (`Excluded`): only they may name a removed file (`RemovedInv`), and a file of theirs that the pass
  left is named by somebody else (`PassedInv`), so deleting them orphans nothing. The assumption is needed: a deadline
  that moves in between leaves a row without its file.

`BackupRunsProofs`, for any destinations, passes, parts, intervals and retention policy:

- `TypeCorrect` and `StoredStaysWholeHolds` without further assumption: passes may overlap, die, and lose each other's state file.
- under `Disciplined \/ TRUE \notin Alignments`: `NotDueMeansFreshHolds`. Unaligned slots need nothing; aligned ones
  need that no forced or overlapping run advances a slot twice, which the code allows (section 4).
- under `Noise =< PipeSize`: `DumpEndsWholeHolds`, for either path, any number of blocks and pipes of any size. What it says of the unencrypted path is what the
  code gives: a call that ended well left a whole file, one that reported an error none, and a partial file is there only while it writes or after it died. stderr is read only after
  stdout has ended, so a child that has more to say than its pipe holds blocks the dump (section 4). `ChildTrue`, `CopierTrue`, `CallerTrue` say
  who waits at which end of which pipe, `BlocksTrue` that no block is lost between them unless somebody has failed and knows it.

Retention is by part, so "the bundle is whole" is not inductive. `Safe` is, part by part: the part is there unbroken, or
`KeepLast` later runs have left theirs. `ManyKept`, `StaleOld` and `SafePruned` show that what `_select_stale` names has that many later runs
among the files that are kept. A pass must not break what it has copied (`Copied`) nor report what it has not (`Ahead`,
`Distinct`: stamps are not shared). `FreshInv` says that every entry, in the file and in the copies passes hold, is of a bundle that was
reported (`AllBacked`), and that an aligned pass is alone and still due (`OnlyOne`, `StillDue`); `Slots` and `SlotReached` are the arithmetic of
`AdvanceSlot`.

`DataSafetyProofs`:

- `TypeCorrect`, `RestoredWholeHolds`, `UndoableHolds`, for any bundles, selections, engines, edits between runs, faults and snapshots kept, without further
  assumption. A restore on record holds the bundle, but for a PostgreSQL database after errors of psql, which the theorem names (`Loaded`). `Applying` says what a half-done restore has made of the system and that its snapshot recorded what was there; `Sourced` that what is
  being applied is the bundle's, never a broken part. `Latest` (a finite set of snapshots has a newest), `PrunedKeepsNewest` and `PrunedOnlyOld` are
  what keeps a snapshot through a prune.
- `SubjectServedHolds`, for any number of requests beside the application. `Matched` and `Collected` say what a request has found and counts, `Followed` that
  a collected name is still to be removed, was reported or is a staying row's at each place of the erasure, `Exported` which models are written
  and that a sealed export leaves no plain text, `Recorded` that nothing gives back what an entry says was erased. `OneModel` keeps a name within one model (section 4).

`OperationsProofs`, for any jobs, keys, rows, writers, runners, sizes and numbers of faults, without further assumption:

- `UnexpiredKeptHolds`. `RetentionInv` is said of a job at a time: `RowFirst`, a file, and an attempt that is past naming one, has a row that names it or no row any more, and nobody works on an expired job; `YoungFile`, a job that writes or completed within the window has its file and that file is young; `Selected`, what a purge is still to delete the file
  of is expired, gone or run again (`rerun`); `Abandoned`, an old file that was not among the names read, and an orphan in the sweep's hand, has no row any more. The last needs that the
  name is saved before the file is begun.
- `SyncBoundedHolds`. `Reported`: what the feed has named carries this run's watermark, or a user has deleted it. `Guarded`: once the
  guard has let the deletion pass, its filter, which the deletion evaluates again, only selects less. `Cleared` follows the documents: what is deleted is on the list read before.
- `MirrorExactHolds`, `ReindexHealsHolds`, `VerifiedExactHolds`, from `MirrorInv`. `Settled` says that a key outside `disturbed` has one operation at most and
  that what is left of it makes document and row alike. `Undisturbed` says that a calm run from the first row has brought every row up
  to its cursor, or up to the end of its unsaved batch, in step (`Passed`); `WholePage` is why a page leaves no row out between two cursors. A count
  that matches is then an equality of two sets of keys, one inside the other.
- `RotationSafeHolds`. `Written`: the key of a ciphertext is in the configured keyset, and an index that no bulk write left behind was derived
  with the key and of the value beside it. Dropping keys keeps that because `EmptiedTrue` holds: after a clean run every row is under the
  active key while all processes are deployed. `CommandTrue` is the way there: the rows a run has passed are under the active key or wait in its
  batch; `CachesKnown` lets no process write under a key that is gone.

`RequestsProofs`, for any threads, callers, tokens, users, senders and databases:

- `TypeCorrect` and `TenantKeptHolds`, with the middleware installed and the rows in the database. `Placed` follows the stack of tokens above a thread: the
  outermost restores the empty binding, a view runs as its user, a background block gives its view back what it found. Both assumptions are
  needed: finding 5 and (h) of section 4 are about an `ES_ONLY` model, and without the middleware an exception DRF has no answer for leaves the thread bound.
- `QuotaKeptHolds`. `WindowTrue`: a window's counter has counted at least what it let through. `SlotTrue`: the living concurrency counter has counted
  every reservation but the `forgotten` ones, less what those have given back to it (`stolen`), and they can do so once each.
- `AccessBoundedHolds`. `PermittedTrue` says what a call that is past the checks was checked for; that a revoked key stays dead is inductive by itself, because
  only a write of the whole row brings a key back, and the history says so.
- `RawOnlyToEntitledHolds`, for any declarations and settings of a model. `TrailMasked`: the audit trail was masked for everybody
  when it was written. `MaskingHonest` proves the masking of `masking.py` against `Entitled`, and each surface cites it. The theorem covers what is
  matched as well: beyond `Entitled` it is the fields of `Unguarded` and no others.
- `CooldownHonestHolds`. `ClaimsOwned`: a claim has one owner, and nobody has heard of it while its owner holds it. `HeardInOrder`: every alert
  that was heard is the key's own or at least a cooldown older than it, which a release in two calls must not break.
- `ScopeReadsOwnHolds`, for any processes, depth of scopes and configurations. `OwnStored`: where a scope's writes with the key went, the primary it is pinned to, holds what was
  written in it, and the default database what was written without. Replication overwrites replicas only, and
  `ReplicasApart` proves that the slices of the list of databases never make a replica of one shard the primary of another.
- `AnswersRightHolds`. `ReadsBack` is inductive once `RowsWhole` says that a row has both columns or none. `IndexTrue`: the index of a row that
  nothing excuses is of the value beside it, under a key of the keyset, and under the second key only once it was rotated in, so
  that the candidates of a lookup cover it; `IndexUnique` is what a unique index leaves possible. `RowStep` proves all of it once, for every way to write a row.
- `ScanFaithfulHolds`. `Paged`: up to the cursor all was yielded that was there all along. `PageWhole`: a page skips none of it before its last key, nor
  any when it is short (`FirstOnes`), and `PageHeld`: what the lookup leaves out of it was not there all along. So moving the cursor to the last hit, yielded
  or not, keeps `Paged`, and a page shorter than asked for ends the scan. Others' writes only take keys out of what is due (`ChangedStep`).

These are about the components alone, so the runs' scenes are instances of their specifications with smaller bounds.

Only model-checked:

- liveness (`Settles`, `ImportCompletes`, which is `Completes` of `ImportJob` in its scene, `EventuallyPurged`), which is out of the prover's reach like everything with ENABLED;
- `FilesFollowRows`: it holds of a storage that gives no name again and of sessions whose instances are not stale (`Reuse`, `StaleSessions`), which the code does not
  enforce, so that a theorem would be about that assumption; (e) of section 4 is what happens without the first;
- `TrailTrue`: the trail is folded over the rows it accounts for, and what a fold computes for every sequence is an induction over data, which is
  out of reach; the modules about which theorems are proved use no RECURSIVE operator;
- `ChecksHonest`: cases over listed values of options, all of them deployed by the run, so that a proof would say no more than the run;
- `WorkbookWhole` on two hosts as the scene of `operations` instantiates it: the definition itself is proved in `ExportJobProofs`;
- `CheckpointDurable` and `DeliveredStays` of line files on several hosts, imports resumed while they run, and aligned backups that overlap.

## 6. Not modelled

- Presentation and wording: widgets, layouts, templates, locales, log lines, the startup report's facts, error bodies, the digest's grouping.
- Per-value functions without state: the other field classes, validators, sanitisers, pagination, mappings and query compilation of
  Elasticsearch, GraphQL's schema generation, the wire format of age, the ciphers, column coercion of imports.
- Drivers of backup destinations beyond their outcomes, the environment dump's lines, `bulk_create` of mirrored models, `--start-pk` of the
  encryption command, `touch_token`'s last-used stamp, the edit of a user's account, tenant-scoped admin querysets, offline manifests.
- The purge of an ES_ONLY model (one `delete_by_query`) and its dry runs.
- The scaffolder, the quickstart, migrations, the demo project and scripts: code generation, generated code and examples.

## 7. Plan

Of the model: the purge of an ES_ONLY model in `RetentionPurge`, and `bulk_create` in `MirrorSync`. Of the proofs: every safety property a run
checks has its theorem but those section 5 names.
