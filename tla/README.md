# WikiHub: a verification project in TLA+

WikiHub is a self-hosted wiki: a FastAPI backend over PostgreSQL, an arq worker
over Redis, an S3 object store, and a Next.js frontend. This directory holds TLA+
models of the parts of the backend, and of the browser code that drives it, whose
correctness depends on the order of steps of several actors, or on an algorithm with
many cases; the TLC runs that
check them on small instances; and theorems about them that TLAPS checks for
every value of the constants.

Paths below are relative to `src/backend/app/` unless they start with another
directory. `PROJECT.json` maps every definition to the lines it stands for.

## 1. The system

| Part | State | Operations | How it meets the others |
| --- | --- | --- | --- |
| Backup and restore jobs (`modules/backup/jobs.py`, `service.py`, `api/v1/backup.py`, `workers/`) | rows of `backup_jobs`, archives in the object store or a host directory | create, enqueue, cancel (API); run, checkpoint, publish, finish, fail (worker); reap (cron, startup) | three processes write the same row, each from its own session |
| Automated backups (`modules/backup/automated.py`, `workers/tasks.py`) | the settings row, files in the mounted directory | schedule, run now, retention, delete | create and enqueue backup jobs |
| Restore application (`BackupService.restore_full_package`) | every content table, the object store | apply with or without SAVEPOINT, commit every 25 files, roll back, delete blobs | inside a restore job |
| Archive uploads (`modules/backup/archives.py`, the restore card of `src/frontend/components/admin/backup-panel.tsx`) | rows of `backup_archives`, multipart uploads, the card of each tab | start, part, complete, abort, scan; pause, resume, cancel, leave, discard | several tabs over one table and one store; a restore job needs an uploaded archive |
| Confluence import (`modules/import_export/service.py`) | `import_jobs`, `import_items` | create, run, cancel, retry, reap | excludes restores (`services/import_concurrency.py`) |
| Document import (`modules/document_import/`) | `document_import_jobs` and items, staged blobs | create, run, commit per item, finalise, cancel, reap | creates pages |
| Pages: tree and trash (`modules/pages/service.py`) | `pages` | create, move, trash, restore, purge | read by every other part; access follows the tree |
| Page editing and drafts (`modules/pages/service.py`, `src/frontend/components/pages/space-workspace.tsx`, `lib/drafts.ts`, `lib/use-page-presence.ts`) | a page and `page_revisions`, a draft row per user, a draft in the browser, the editor of each tab | type, save, overwrite, save draft, auto-save, discard, recover, restore a revision | tabs, their timers and their requests in flight meet one page and one draft row |
| Access (`modules/permissions/service.py`) | space grants, owners, page restrictions, groups | grants, restrictions, blocks, inheritance, reset | asked before every read and write of a page |
| Search index (`modules/search/indexer.py`, `modules/attachments/text.py`) | `page_chunks`, `page_search_state`, `attachment_texts` | index pass, text extraction pass, model change, pause | reads pages and attachments while users change them |
| Knowledge graph (`modules/graph/builder.py`) | `page_links`, `page_graph_state` | text pass, similarity pass | reads pages and the search index |
| Pass locks (`workers/tasks.py`) | three Redis keys | take, renew, release if owner, lapse | keep passes of one kind apart |
| Sessions and users (`modules/auth/`) | users, sessions, impersonations | log in, refresh, revoke, impersonate, deactivate | superuser and owner invariants |
| Issues, comments, shares, notifications | their rows | create, claim, assign, like, share, prune | independent rows, one request each |
| Presence (`modules/presence/service.py`) | a Redis hash per page, a per-process fallback | heartbeat, leave, list | none |
| AI, web search, admin mail, ollama | settings and caches | calls to outside services | none that changes shared state |
| Converters, exporters, templates | none | pure functions on large documents | inside imports and exports |
| Rest of the frontend (`src/frontend`), site, help | the browser's | pages over the API | the API |

The database runs at READ COMMITTED, no code takes row locks on the tables above,
`autoflush` and `expire_on_commit` are off (`db/session.py`), and a request's
session commits after its handler returns (`api/deps.py::get_db`). What one
session has read may therefore be stale when it writes, and its UPDATE names only
the columns that differ from what it read. These two facts are behind most of the
hazards listed in `PROJECT.json`. The browser adds its own: a tab that is reloaded or
closed leaves requests behind that the server still executes, requests of one tab
overlap, and tabs of one user share a local storage.

What could go wrong, by behaviour:

- **Interleaving sessions.** A backup row is written by the request that cancels it,
  by one or two coroutines that execute it and by the reaper. The index is written by
  an indexing pass and an extraction pass that each read, wait for a gateway, and write.
  Two requests on the pages of a space each decide on rows the other is about to change.
- **Requests in flight.** The editor's save, draft and discard overlap, timers send more
  while one is waited for, and the answers come when the editor has moved on. The restore
  card stops a run whose calls go on, and sends a DELETE it does not wait for.
- **Crash and restart.** arq executes again what a dead worker was executing; the row,
  a lock in Redis and a page half indexed are what the dead worker leaves behind. A
  browser tab that goes away leaves its drafts, its requests and a half uploaded archive.
- **Timeouts.** Five and thirty minutes of silence declare a job's worker gone; a lock
  lapses under a live pass; a pass ends when its time budget is spent.
- **Partial failure.** A row is committed and Redis refuses the job; a file's content
  is stored and its row is not; an upload is completed in the store and its row still
  says uploading; a restore stops half way after it has committed; a document's images are
  stored and its page is taken back.
- **Rules with many cases.** Access to a page follows from a dozen kinds of rows, set in
  any order at any level of the tree.

What makes each part correct:

- *Backup jobs*: a complete row has its archive; a failure says why; cancel and
  execution both come to an end; no session's stale copy undoes another's commit.
- *Search index*: the record of a page names what is stored for it; a reading is not
  older than what was saved; models are not mixed; the index catches up with pages, files
  and the model; a pass never frees another's lock.
- *Access*: what a page does not say itself it takes from its parent; a block narrows;
  a grant does not lock out whom it names; the dialog shows what the rules answer.
- *Page editing*: no text that was on the page is missing from its history; what the
  editor shows as saved was saved; the last copy of an unsaved text is not lost to a
  failure; the stored draft catches up.
- *Archive uploads*: rows and multipart uploads agree; what is offered for restore is whole
  in the store; an upload is completed with all its parts; a run left alone succeeds.
- *Page tree*: every page has a way up to the top of its space, and no request takes
  another page's; the database refuses nothing that the handler's checks have allowed.
- *Restore application*: what others can see is whole; what is replaced is replaced at
  once; an edit is not lost to a restore that was not asked to overwrite it.
- *Document import*: of each file one page is made, whatever is executed again; what the
  job reports was done; the store has what pages and executions need; a job ends.
- *Imports and restores* (planned): one writer of the workspace at a time.
- *Automated backups* (planned): retention never removes the archive being written.
- *Sessions and users* (planned): an active superuser always remains.

## 2. Plan

| Step | Modules | Composition | Abstract specification | Runs | Theorems |
| --- | --- | --- | --- | --- | --- |
| done | `BackupJobs`, `JobPromise` | API, worker and reaper over one table | `JobPromise`: offers follow storage, nothing is taken back | `backup_jobs` | types, safety, refinement |
| done | `SearchIndex` | two passes, their locks, users, administrator | none | `index_*` | types, locks, records, readings, one model, what stays current |
| done | `PageAccess` | space rules under page rules | none | `access_*` | types, tree lemmas, all its properties, unblocking, the switch |
| done | `PageEditing` | tabs, their requests and the server's handlers | none | `page_saves`, `page_drafts` | types, history for ever, what looks saved, copies |
| done | `RestoreUpload` | restore cards of several tabs, rows, store | none | `upload_resume` | types, rows and store, bytes, whole uploads, the picker |
| done | `PageTree` | requests that overlap over one table | none | `page_tree` | types, the ways up, what the database refuses, the checks, purges |
| done | `RestoreApply` | the session, the store and the row of the job, users' edits | none | `restore_*` | types, whole holders, replacement, edits, the rest, completion |
| done | `DocumentImport` | worker, cancelling request and sweep over one job | none | `document_import` | types, the store, the report, its verdicts |
| 1 | `PageTree` with `PageAccess` | the rules of access over a tree that changes | what a page opens is what its place says | trash, restore and move of a restricted page | access after a move |
| 2 | `ImportExclusion`: Confluence imports, restores and document imports that check before they start | uses the statuses of `BackupJobs` | at most one writer of the workspace | one run of each pair | mutual exclusion under the assumptions it needs |
| 3 | `AutomatedBackups`: schedule, retention, deletion | adds operations to `BackupJobs` | the newest archives are kept | two ticks of cron | retention |
| 4 | `SpaceAdmins`: overlapping revocations of owners and administrators | the space rules of `PageAccess`, with reads and writes apart | an administrator remains | two requests | none if it fails |

The order is by what depends on it: jobs and the index are where most of the
backend's concurrency is, access is asked before every other operation, and the editor
is where users' work may be lost. Modules
that theorems are about use no RECURSIVE operator, take their bounds as CONSTANTS
with named assumptions, and have one action per handler or per step between two
awaits.

## 3. The models

### BackupJobs and JobPromise

State. `rows` is the table: status, cancel_requested, error, output. `beat` is the age
of each heartbeat in classes: recent, late (past five minutes), overdue (past thirty), never.
`artifacts` are the archives in storage. The queue is `unsent` (committed, not yet
enqueued), `deliveries` and `tries`. Each coroutine has a `pc`, the row it executes
(`own`) and `mem`, the row as its session last saw it.

`Flush` is what a commit does: of the columns a session assigns, it writes those that
differ from its copy. Every writer goes through it, and this is what the interesting
behaviours come from. `CheckpointTo` and `ObserveTo` refresh the copy first, as
`checkpoint_backup_job` and `observe_backup_cancellation` do.

| Code | Actions |
| --- | --- |
| `create_export_job`, `create_import_job`, `queue_automatic_backup` | `Create`, `CreateAgain` |
| `_enqueue` | `Enqueue`, `EnqueueFails` |
| `cancel_backup_job` | `CancelRead`, `CancelWrite` |
| `run_backup_job` | `Deliver`, `Start`, `StartFails`, `Checkpoint`, `LastCheckpoint`, `Publish`, `Finish`, `HandlerFails`, `WriteFailed` |
| `_run_restore_job` | the same with `Observe`, `LastObserve`, `WriteCancelled`, `InterruptRestore`, `WriteInterrupted` |
| `reap_abandoned_export_jobs` | `ReapSelect`, `ReapWrite` |
| worker process, arq | `WorkerDies`, `WorkerStarts`, `WorkerReady`, `Interrupt` |
| clock | `Ages` |

What an export writes and a restore applies is left out: a published archive is a
member of `artifacts`, an applied restore a `pc`.

`JobPromise` knows three sets: stored, offered, requested. `KeepsPromise` maps them to
`artifacts`, the rows with an output and the rows with a cancel request, and says that
every step of the detailed model is an offer of something stored, a store, a
request, or a stutter.

### SearchIndex

State. `page` is each page's updated_at, and stands for its content. `chunks` and
`state` are `page_chunks` and `page_search_state`; `texts` is `attachment_texts`;
`blob` and `revision` are a file's content in the store and `office_revision` in its
row. A pass is a record with its place, its batch, what it read and what it embedded.
`lock` is who holds each Redis key; `lapsed` records who lost it. `saved` and `clashed`
record what each file's last finished replacement stored and which files two
replacements gave one revision; only the properties read them. `left` is how often each
event may still happen.

| Code | Actions |
| --- | --- |
| `PageService.update` | `Edit` (a new updated_at, other files linked) |
| `save_attachment_from_office`, `replace_attachment` | `LoadFile`, `PutFile`, `CommitFile`, and `FailFile` at either place: before the put, or between the put and the commit |
| embedding settings, pause | `ChangeModel`, `SetPaused` |
| `index_search_pages` | `BeginPass`, `SkipPass`, `LoadConfig`, `TimeUp`, `NextBatch`, `PassCrashes` |
| `index_pending`, `reset_if_model_changed`, `_store` | `ResetIfModelChanged`, `SelectBatch`, `NothingStale`, `NextPage`, `CloseBatch`, `Embedded`, `EmbedRefused`, `EmbedFails`, `StorePage`, `StoreFails`, `SkipRefused`, `FinishPass` |
| `extract_attachment_texts`, `extract_pending`, `forget_unlinked`, `_save` | `BeginReader`, `StartReader`, `ForgetUnlinked`, `SelectFiles`, `NextFile`, `ReadFile`, `ReadFails`, `SaveText`, `CloseFiles`, `ReaderCrashes` |
| Redis, process | `Expire`, `Lapse`, `WorkerDies` |

Abstractions. Replacements keep a file's name and size, so that its revision alone
tells its versions apart in the signature. `_store` is one step, although it is
several statements, because it is one transaction and (page_id, chunk_idx) is
unique: of two that overlap, one fails. Refused pages are the newest at first, the
order that is worst for the others. The time budget can end a pass wherever the code looks
at the clock, before its first page too. A pass is skipped while indexing is paused, and
when its budget is gone before it starts. Pages without text, archived spaces and deletions
are left out.

### PageAccess

State. `given` holds the space rows of every user and group, `allow` and `blocked` the
rows of pages (the primary key makes a row one or the other), `restricted` and
`inherits` the two flags of a page, `member` the groups, `open` the visibility of the
space. The tree is the constant `Above`.

| Code | Definitions |
| --- | --- |
| `_compute_effective_permissions` | `Effective` |
| `_page_chain` | `Chain` |
| `can_view_page`, `can_edit_page` | `CanView`, `CanEdit` |
| `list_page_access_roster_users` | `RosterView` |
| `set_space_permission` | `GrantSpace`, `RevokeSpace` |
| `SpaceService.update` | `SetVisibility` |
| `set_group_member` | `SetGroupMember` |
| `set_page_restriction` | `GrantPage`, `RevokePage` |
| `set_page_permission_denial` | `Block`, `Unblock` |
| `set_page_view_mode`, `reset_page_access` | `SetMode`, `Reset` |
| `set_page_inheritance` | `StopInheriting`, `InheritAgain` |

Each handler is one transaction and one action: what two of them do to each other's
checks is not in this module (step 4 of the plan). The permissions that no rule for
pages reads (delete, move, ...) are granted and lost like `add`. Names of users
and groups are abstract; system administrators and owners hold everything, so what
rows they have does not matter.

### PageEditing

State. `page` and `revisions` are the rows; `drafts` is one row per user, `local` the
draft in each user's browser, and `newer` says which of the two is the later. Each tab has
`prop` (the page as the server last rendered it there), `editor` (text, baseline, auto-save,
debounce timer, whether the text counts as kept), `recovery` (what the banner offers),
the conflict `notice` and the overwrite dialog `confirm`. Requests in flight are
`saving`, `putting`, `deleting` and `fetching`, each on the connection of a tab that is
there or was left behind; a tab's history dialog has a connection of its own (`History`).
`discarded` records what a user has thrown away; only the properties read it.

| Code | Actions |
| --- | --- |
| `openEditor`, `openRecoveryDraft`, `updateDraftContent`, auto-save switch | `OpenEditor`, `OpenRecovery`, `Type`, `ToggleAutoSave` |
| `requestCancelEditing`, `leaveWithoutSaving`, `discardRecoveryDraft` | `Cancel`, `DiscardAndCancel`, `DiscardRecovery` |
| debounce effect, auto-save interval, `saveDraftNow` | `TimerFires`, `AutoSaves`, `SaveDraft` |
| `persistPage`, overwrite dialog, notice | `SavePage`, `ForceSave`, `Stay`, `OverwriteFromNotice`, `SaveSucceeded`, `SaveRefused` |
| `persistDraft`, `discardCurrentDraft`, the recovery effect | `PutAnswered`, `DeleteAnswered`, `GetAnswered` |
| `PageService.update` | `ServerChecks` (reads and compares), `ServerRefuses`, `ServerSaves` |
| `save_draft`, `discard_draft`, `get_draft` | `ServerPut`, `ServerDelete`, `ServerGet` |
| page history dialog, `PageService.restore_revision` | `Restore`, `RestoreAnswered`, between them `ServerChecks` and `ServerSaves` like any save |
| `router.refresh()`, presence, the browser | `Refresh`, `Notice`, `Reload`, `Fails` |
| another client | `OtherSaves` |

Abstractions. A text is a number, and every pause in typing makes a new one. A stamp is
when a transaction began, as `now()` is in PostgreSQL, so that a later commit may carry
an earlier stamp. Several `persistDraft` calls behind one PUT are one; a refresh applies at
once; a tab has one DELETE at a time; a request that failed is never executed later (it
was executed before it failed, or never). Of other clients only the saves are there.
The title (it is in no draft), formats, `is_conflict` and the draft's base are left out, and
so are legacy pages that have no revision until their history is first listed
(`modules/pages/service.py:462`): a page starts here with the revision of its creation, and the
first text of a legacy page that is saved over before that is in no revision.

### RestoreUpload

State. `row` are the `backup_archives` rows with the job made of each; `open`, `parts`
and `object` are the store's multipart uploads, their parts, and its whole objects; `calls`
is everything on its way, the fingerprint of a file included; `card` is the restore card of
each tab.

| Code | Actions |
| --- | --- |
| choosing a file, upload button | `SelectFile`, `PressUpload` |
| `pauseBackupArchiveUpload`, `cancelBackupArchiveUpload`, unmount | `Pause`, `CancelUpload`, `Leave` |
| `discardPendingRestoreUpload`, `uploadAnotherAfterRejection`, `discardBackupArchive` | `DiscardPending`, `UploadAnother`, `DiscardPicked` |
| `restoreActiveBackupArchive` | `Look` |
| `submitImport`, the job's end | `Restore`, `JobEnds` |
| `uploadAndScanBackupArchive` | `Hashed`, `NextCall`, `Continues`, `EndsRun` |
| `start_upload`, `find_reusable_archive`, `find_resumable_archive` | `BeginStart`, `CommitStart` |
| part URL and PUT | `PutPart` |
| `complete_upload`, `abort_upload`, `scan` | `BeginComplete`, `CommitComplete`, `BeginDelete`, `CommitDelete`, `BeginScan`, `CommitScan` |
| network, store | `CallFails` |

A handler that touches both the store and a row is two steps, and a failure between
them leaves the store changed and the row not. A tab that stops or restarts leaves its
call behind (`by` becomes nobody), and the server may still serve it.

Abstractions. An answer reaches its tab in the step that commits; the request for a
part's URL and its PUT are one call; identical calls left behind are one; which of several
matching archives is reused is left free; the dialog about another file discards and starts;
any trouble a scan has with the store may be answered as a rejection.

### PageTree

State. `row` is the table: live, in the Trash or absent, with space, parent and slug. A
request is two steps: the first reads and decides, and keeps the rows as read (`base`)
and as changed (`new`); the second writes what differs, as a session's UPDATEs do, or is
refused by the table's keys (`Fits`). `Rooted` is the set of pages with a way up: following
parents from them ends at the top of their space and meets only pages of it that are not
in the Trash.

| Code | Actions |
| --- | --- |
| `PageService.create`, `move`, `trash`, `restore` | `Create`, `Move`, `Trash`, `Restore`, each with `Write` or `Refuse` |
| `purge`, `empty_trash`, `purge_expired` | `Purge`, `EmptyTrash`, `PurgeExpired`, each with `Delete` |

Abstractions. All reads of one handler are one step. Permissions are left free (any user
may do it all). `updated_by_id` differs for each user, so each touched row is updated and
must still be there. The slugs of a moved branch are taken one page after another, in any
order; a new slug is any that is free then. The age a page must reach before it is purged is left open. Imports
and archived spaces are left out.

### RestoreApply

State. `db` is what is committed of the holders (pages, users and issues the archive
has files for): their texts and the rows of files. `tx` is what the restore's session has
changed since; `Commit` and `Rollback` are its two ends. `blobs` are the objects in the
store. `status`, `cancel` and `due` are the job's row and its delivery, `over` the holders it
is to overwrite, `run` what one execution knows. A file's key carries the number of the
execution that made it, as keys in the code carry new ids. `left` records holders that a plain
restore has left half done; only properties read it.

| Code | Actions |
| --- | --- |
| `_run_restore_job` | `Start`, `Finish`, `End`, `Interrupt` |
| `restore_full_package`: what exists, the rows | `Survey`, `Import`, `ImportCancelled` |
| its loop over the files | `Progress`, `ProgressCancelled`, `Copy`, `Skip`, `LastCopied` |
| relinking, the end of the savepoint, old objects | `Relink`, `Close`, `DeleteOld`, `OldDeleted` |
| its handler | `Raises`, `CopyingFails`, `CleanUp`, `CleanedUp` |
| `cancel_backup_job`, `create_import_job`, users, process | `Cancel`, `RestoreAgain`, `Edit`, `WorkerDies` |

Abstractions. Spaces, groups, permissions and comments go with the rows of `Import`. Archives
are restored whole. The row of the job has no heartbeat here, and nobody finalises it from
outside (`BackupJobs` has both); a restore beside one that goes on is left out. The
25 of `PROGRESS_CHECK_EVERY` is the constant `Every`.

### DocumentImport

State. `row` is what is committed of the job and its files: status, cancel_requested,
each file's status, the two counters. `beat` is the age of its heartbeat. `staged` are the
uploads still in the store, `objects` the images there, `attached` the images whose row is
committed with a page, `made` how many pages each file has been made. The execution has a
place, its copy of the rows (`mem`), the file in hand and what it has stored for that file.
A request that cancels and the sweep hold copies of their own, and all commits go through
`Flush`, as in `BackupJobs`. `overtaken` records that a job was finalised under a live
execution, or from a copy that was no longer true; only the properties read it.

| Code | Actions |
| --- | --- |
| `run_document_import` | `Deliver`, `Start`, `NobodyToImportFor`, `Raises`, `Interrupt` |
| `checkpoint_job` | `Checkpoint`, `CheckpointCancelled` |
| `_run_one_item`, `_import_one`, `_attach_media` | `TakeUp`, `StoreImage`, `ImportDone`, `ImportFails`, `CommitItem` |
| `_review_page`, `_translate_page` | `Reviewed` |
| `_finalize_complete`, `_finalize_cancelled`, `_finalize_failed` | `Finish`, `WriteCancelled`, `WriteFailed` |
| `_delete_staged_uploads` | `Tidy` |
| `cancel_document_import` | `CancelRead`, `CancelWrite` |
| `reap_abandoned_document_imports`, `startup` | `ReapSelect`, `ReapWrite`, `WorkerStarts` |
| worker process, clock | `WorkerDies`, `Ages` |

Abstractions. Of a page only that it was made is there. Whether a file replaces a page or
gets a name of its own, a workbook's sheets, warnings, and the text a review or a translation
leaves are left out. Whether a checkpoint's refresh reads the files' rows again is left
free. arq executes one job in one place at a time: a second execution beside a live one is
left out. The initial state is a job as its creation leaves it, enqueued or refused.

## 4. The runs

| Run | Question | Result |
| --- | --- | --- |
| `backup_jobs` | one restore, or one automated export that is enqueued again while active, two tries, a worker death: does its row promise only what was done, and does it end | holds |
| `index_passes` | two passes that overlap after a lapse, two pages of which one is refused, an edit, a model change, a pause, a worker's death or a gateway outage: are records true, and does the index end up current | hold |
| `index_files` | a file replaced twice at once, or once with a failure before or after its put, and unlinked, under both passes, with a model change: are readings true, models apart, and do the readings catch up | hold |
| `access_settings` | any four settings on a page and its child | hold |
| `access_switch` | does nobody gain or lose View when a Restricted page stops inheriting | violated |
| `page_saves` | two tabs of one user and another user's client save, overwrite, restore and save drafts at once: is any text lost, or shown as saved that was not | hold |
| `page_drafts` | one tab with its timers, a reload, a failed request: does the stored draft catch up, do saves end | hold |
| `upload_resume` | two tabs upload one file, three decisions, a failed call at any point | hold |
| `page_tree` | three pages in two spaces, six requests of which two overlap: who loses the way up, and what is refused | hold |
| `restore_apply` | four files of three holders, restored with or without overwriting: two jobs, three executions, two faults, a cancel, an edit | hold |
| `restore_stops` | has a plain restore that is cancelled left nothing | violated |
| `document_import` | two files, one with two images, two deliveries, a cancel, two faults | hold |

Bounds and why they are enough.

- *Backups*: rows do not interact (no step reads two of them), so one row per behaviour
  (`MaxRows`) is all there is to see: a restore, which has the grace period and the silent
  phase, or an automated export, which has everything an export has and may be enqueued twice.
  Two slots are the most that can execute one row at once; two sends and two tries give a first
  execution with one that follows an interruption, or two at once. A second death repeats what
  the first shows.
- *Index*: `Bounds` is a set of mixtures of events, so that each kind of behaviour is looked at with
  the others it meets and not with all at once: in `index_passes` an edit, a change of the model, a
  pause and a fault together, and a lapse with an edit and a change of the model or a pause; in
  `index_files` an edit (which may unlink the file) and a pause, a replacement with a fault and
  a change of the model, and two replacements, which overlap or follow each other.
  Two passes and one lapse give an overlap, and a third pass would need a second lapse.
  Two pages in a batch of two have a refused page ahead of a good one; pages do not
  share passages, so two are enough for the comparison of models too. One file with two
  contents has a first reading, a replacement under a reading and an unlinking. `BatchSize` and `RefusalsBeforePause` are scaled
  down from 20 and 3 together with the number of pages.
- *Access*: the rules for a page read only the path above it. Two pages have a parent
  and a child; two users and a group have a user in the group, one outside it, and a user
  with rows of their own. From a fresh space four settings reach a list, a block and a
  grant of Edit at both levels; the theorems cover every tree and every number of settings.
  Larger instances (three pages on a path; two groups) hold too but take longer than the others.
- *Editing*: `page_saves` has two tabs of one user, who share a local draft and a draft row,
  and a client of another user; one decision in a tab (a save, an overwrite, a restore, a
  discard) beside drafts and the other's saves, three texts and three stamps, of which some are within the
  tolerance (`Tol`, one unit) and some are not (`Gaps`): enough for a check that precedes the
  other's write, and for the answer of one tab's save beside the typing of the other. The tabs'
  user wrote the page first (`Authors`), and after the other's save it has either author. The two
  tabs are interchangeable. `page_drafts` has no other client, since drafts are per user, and puts
  a reload and a failure anywhere.
- *Uploads*: two tabs are one that left a call behind and one that took over. Two parts
  have a first and a last; three archives are one per decision that can start an upload. Further
  faults repeat the first: each leaves one row and one upload apart.
- *Tree*: three pages are a page with a child and a grandchild, or two branches with
  something to move; six requests build the tree and leave three to overlap, or to take it
  through the Trash into a broken state. Pages, spaces and slugs are interchangeable. Each
  condition that `WaysUpStay` excepts is needed: TLC finds a trace when any one is dropped.
- *Restores*: three holders are one that exists, one that is new and one that is new and whose
  text has to be relinked; four files with a checkpoint at every second leave work on both
  sides of a commit. Three executions are one, one that follows an interruption, and one of
  the next restore.
- *Document imports*: two files are one that is committed while the other waits; the first
  has two images, so that its import can fail between them. A third delivery, cancel or
  fault repeats what the second shows: an execution starts only from a job that is queued.

Deadlock is not checked: every bounded counter runs out, and a quiet system may stop.

Fairness. `Fairness` in `BackupJobs` is weak fairness of each coroutine's own next
step (the event loop runs what can run, and a long phase ends), of the reaper's two
steps (cron, every minute), of the worker's restart (`restart: unless-stopped` in the
compose file) and of the clock. `Fairness` in `SearchIndex` is weak fairness of passes
and of keys that expire, and strong fairness of the end of the budget of an indexing pass that
has worked (a minute passes, however often the loop starts again). That a pass's time suffices
for its first page or file in the end (`BudgetSuffices`) is a premise of the two catching-up
properties. `Fairness` in `PageEditing` is
weak fairness of the server's steps for each request, of the handling of each answer and
of the timers, which the browser's event loop runs; in `RestoreUpload` it is weak fairness of serving
some call (calls are finitely many and each run has one at a time). `FairSpec` of `DocumentImport`
is weak fairness of the worker's steps taken together (there is one execution), of the
answers to requests, of the sweep, of the worker's restart and of the clock. `PageTree` and
`RestoreApply` have no liveness. Nothing is assumed of users,
administrators (nobody has to look, decide or finish a restore), Redis, the gateway or failures, and catching up is only promised when
indexing is not paused for ever (`<>[]~paused`).

## 5. What disagrees with what is said

1. `access_switch`: the root lists one user and its child, Restricted with a list of its own,
   another. When the child stops inheriting it takes in the root's list
   (`modules/permissions/service.py:1870`), and the root's user can read it; the code says that
   access is unchanged at the moment of the switch (1818). The run asks no more than that case:
   only Restricted pages, nobody blocked, only View. Wider forms of the property fail in two more ways: a
   user granted on the page and blocked above it gains View, since a block is not copied over a
   row the page has (1879), and below an Open ancestor with an Edit list, which is not copied, other
   editors gain Edit. `SwitchIsACopy` proves the claim for a page without settings of its own
   below one Restricted page.
2. `restore_stops`: a plain restore commits at every 25th file. When it is cancelled or fails
   after that, its committed pages stay and every object it has stored is deleted, so their
   files cannot be read; restoring again skips these pages as existing. The code's comment
   says that a restore is all-or-nothing (`modules/backup/service.py:1863`).

Seen while modelling, where the models have the behaviour but no run is about it:

- *Backup jobs.* The closing commit sets `error = None`, which its session's copy already
  holds, so a complete row may keep the reaper's error (`modules/backup/jobs.py:536`).
  An automated backup that two coroutines execute can be failed without a reason, the
  one running it again with `error = None` while the reaper has it failed; `FailedSaysWhy`
  and its theorem are about the other rows. `queue_automatic_backup` returns the active
  job and its callers enqueue it again. Cancel applies the five minutes of exports to
  restores, whose savepoint phase writes no heartbeat (`modules/backup/service.py:145`), and
  finalises a row that is being executed.
- *Index.* The first reading of a file finds neither a passage nor a row to tell its page
  from (`modules/attachments/text.py:334`), so the file is not searchable until the page is
  edited. An indexing pass writes back the state that the extraction pass dropped while it
  embedded. A storage outage is recorded as the file's reading (`text.py:388`). A replacement
  that fails or dies between its put and its commit (`api/v1/attachments.py:605`) leaves newer content under
  the old revision. Two replacements of one file that overlap write the same revision, and
  the content of the second is never read if the first was read before it, although "a renamed, replaced
  or re-edited file is read again" (`text.py:65`): these files (`clashed`) are what
  `TextIsOfSignature` excepts. When `_forget_passages` (`text.py:334`) drops the only record of the old model
  before a reset looks for it, or a pass that lost its lock goes on with the old model,
  passages of two models stand side by side, although "vectors from two models (or sizes) cannot be
  compared" (`modules/search/indexer.py:124`): the missing record is what `VectorsOfOneModel` excepts, and
  it speaks of the time before a lock has lapsed. TLC reaches all of these.
- *Editing.* A text typed while a save that closes the editor is under way is dropped with its
  local copy when the answer comes (`space-workspace.tsx:1879` to 1903). The conflict check lets an
  unseen text be replaced in four ways: within its tolerance of a second, between its read and
  the write, after a `router.refresh()` that moved the base a tab sends, and when a later commit
  carries an earlier stamp; what is replaced is in the history. A PUT that is late is offered as a draft of a text that has been saved; a
  user's own save may be refused as a conflict with their earlier one; the overwrite dialog
  may stay after a discard; an editor opened before the draft's GET is answered has no banner.
  `discardCurrentDraft` waits for one PUT, sends its DELETE and leaves the editor as it is until
  the answer; the auto-save interval goes on and may send another PUT, which makes the draft
  again, and `discardRecoveryDraft` waits for no PUT at all.
- *Uploads.* A scan that commits after a cancel revives the archive
  (`modules/backup/archives.py:376`); a pause while the upload is completed makes the same
  file be uploaded again; two starts that overlap make two archives; a start whose POST was
  left behind leaves an upload that is offered again; `list_active` fails for one row whose
  object is gone; a storage outage during a scan is answered like a damaged file.
- *Document import.* A review or a translation may take up to fifty minutes and writes no
  heartbeat, so that after five minutes the sweep fails the job, or a cancel finalises it, under
  the live worker (`modules/document_import/jobs.py:827`, `service.py:212`), which goes on and may
  write "complete" over that verdict; a verdict read before a file was committed and written
  after it marks as failed a file that has its page. An error
  outside the files leaves the rest of them queued or running; the sweep does not count
  again. The uploads of a job that is cancelled while queued, whose worker dies, or whose first
  commit fails stay in the store. A job that Redis refuses stays queued until somebody cancels it.
- *Tree.* Two moves that overlap can make a cycle, against the message of
  `modules/pages/service.py:808` and `src/backend/tests/integration/test_page_service.py:161`: neither branch is drawn, and
  the climb at `modules/permissions/service.py:1303` does not end. A child in the Trash whose
  parent is moved to another space is restored under a parent its space does not list, and
  said to be back under its parent. A move into a space whose Trash holds the slug is
  refused by `uq_pages_space_slug`. A purge that was decided before a restore deletes a live page.
  One request at a time is enough for a cycle, by way of that restore: create a page and a child,
  trash the child, move the page to another space, restore the child, and move the page under
  it. The move looks for the branch in the space the page is in
  (`modules/pages/service.py:784`), where the child is not.
- *Access.* `reset_page_access` deletes in bulk and does not clear the request's memo of
  answers, as its neighbour does (`modules/permissions/service.py:1903`, 1928); a user whose last own row
  goes loses their page rows, blocks included, although a group may still admit them (1240).

Read in parts that no module has yet: two requests that both find no active automated job
(`modules/backup/automated.py:92`); an automated backup deleted under its live worker
(`api/v1/backup.py:615`); replacing a failed import without the exclusion check
(`api/v1/confluence_import.py:383`); the last active superuser, counted and then acted on
(`modules/auth/service.py:150`); an issue claimed twice (`modules/issues/service.py:459`);
children that move out of what they inherited when their parent is trashed
(`modules/pages/service.py:841`).

## 6. The proofs

The theorems hold for every number of jobs, slots, pages, passes, users, settings and files,
from the named assumptions of each module only.

`BackupJobs_proofs`. `TypeInv` is the type invariant and `Owns` (a busy coroutine
executes a job); it is inductive. `CompleteHasArtifact` is not: that a complete row
has its archive depends on the coroutine having published before it closes, and on the
closing UPDATE naming the output column. `OutputInv` says both: a coroutine at
`finishing` has its archive stored, and no session's copy holds an output that the row
does not (so a column left out of an UPDATE is already right). `FlushColumns`
and `CommitColumns` say what a commit does to each column. `PublishesUncancelled`
follows from the refresh in `CheckpointTo`; `PromiseKept` maps `Init` and each step
to `JobPromise`. `Once` follows the one delivery of a row that is not automated from
`unsent` through the queue to its coroutine: at most one of these holds it, whatever dies
and is executed again. `Reasons` builds on it: with one coroutine at a time, a running row carries no
error, so that a failure's UPDATE always names the error column.

`SearchIndex_proofs`. `Typed` is inductive. `LocksInv` adds to `UnlockedOnlyByLapse`
that only running passes have lapsed or run out of time: a pass that starts anew
starts with its lock. The record of a page
is written by `StorePage` alone, from one variable of the pass, so
`IndexedIsWhatTheRecordSays` is inductive given `Typed`. `ReadingsInv` orders contents,
revisions and readings, and follows the replacement of each file through `PutFile` and
`CommitFile`: what is stored is never older than what was saved (a put that was never
committed only adds something newer), no reading is of a later revision than the row's, and one on
its way to being recorded is as good as a recorded one. It holds with any writers, of files that no two replacements gave one revision
(`clashed`). `VectorsOfOneModel` needs, while no lock
has lapsed, `RecordsOfOneModel` (the records are of one model, and of that of the pass that is
past its reset) and `PassagesAreRecorded` (a page with passages has a record, but for pages
whose files' passages were dropped, `Unrecorded`). Four theorems
say that what has been reached is not lost by itself. `NothingAhead` (no record, and no item
of a batch, is ahead of its page) gives `EditsAreSeen`. `PassesInTurn` (while nothing lapses one
pass is at work, `PassesAreAlone`) and `WorkIsStale` (what it has in hand it has not yet
indexed) give `IndexedStays`; `ReadersInTurn`, `ReadsArePending` and `ReadsInOrder` say the same
of extraction passes and give `ReadingStays`. Liveness asks for more and stays with TLC,
but these are the steps it may not take.

`PageAccess_proofs`. `TypeOK` and `SpaceRowsHaveView` are inductive. The others follow
from `TypeOK` by lemmas about the tree: `ChainBelowParent` (the chain of a page that
inherits is its parent's chain and the page), `NearestOfOpenPage` and
`ViewOfOpenPage`. `PlainPage` is the property in one state, `RosterAgrees` the
dialog's computation, `BlockNarrows` and `GrantLetsIn` one step each; `UnblockKeeps` is the
converse of the first. `SwitchIsACopy` marks out where the claim that `access_switch` refutes is
true, for View and for Edit: if the page has no settings of its own and one page of its chain is Restricted and the
others have none (`InheritsFrom`), the rows copied are that page's (`SwitchCopies`), below the
page the chains lose only pages without settings (`ChainThrough`), and nobody's View or Edit
of any page changes (`SwitchKeeps`).

`PageEditing_proofs`. `EditingInvariant` is `TypeOK`, `PageIsInHistory` (the page's text is a
revision's) and `SavesGoByHistory` (a save that passed its check read a text of the
history, within the tolerance of its base unless forced; one that was executed left its
own text there). `HistoryIsComplete` needs the first, as a save's UPDATE may leave the
text of another transaction standing; revisions are never taken away, so what was on the page
once is in its history for ever (`HistoryKeepsAll`). `NothingUnsavedLooksSaved` needs the second, as an
answer that comes later than other saves names the text that was sent, and `BaselinesInHistory`:
what a tab shows and what its editor compares with are texts of the history. `CopiesAreKept`
needs it too, and goes through every step that touches a copy of an unsaved text.

`RestoreUpload_proofs`. `UploadInvariant` adds to `TypeOK` what a call at each stage knows:
`CallOK` (what a run counts as stored is stored while its upload lives), `CardOK`, `RowOK`
(what is offered has its object), and, while nothing has failed, `OneOpens` and `Answered`
(each upload in the store is named by a row or by the handler that is opening it).
`NextCallSound` shows that the loop over the parts asks for a missing one as long as there
is one; the least missing part comes from well-foundedness of the naturals. `PicksOK` goes on
from there: spaces once read stay recorded (`ReadingsStay`), and a picker names an archive whose
scan has come back to the tab, or whose row says that one did (`PickedNext`).

`PageTree_proofs`. `TreeInvariant` is `TypeOK`, `SlugsApart` and `JobOK` for every request (its
changes are what its handler decides on the rows it has read). A page has a way up if it is in
every set that holds what hangs from it (`HangsFrom`), a least set, which needs no
induction: to show that ways up stay, a set closed in the new table is turned into one closed in the old
(`RootedInClosed`). The lemmas do so for a page added, a page taken out and its children moved
up, a branch moved (`SubtreeFacts`), and pages deleted, each in a tree that may be broken elsewhere.
`WaysUpStayUp` puts them together. `AllChecked` adds that each request's decision passed its checks on
the rows it read; a request whose rows have not changed since then takes no way up, but by a
move under a page without one (`ChecksAreEnough`). With one request at a time, and no page
restored under a parent in another space (`InTurn`, `ParentsNear`), every page always has a way up
(`WholeInTurn`): overlaps and that restore are all that breaks a tree. TLC breaks it if either of
the two is dropped.
`PurgedFromTrash` says which purges take a page that can be seen.

`RestoreApply_proofs`. `RestoreInvariant` adds to `HoldersAreWhole` what the session knows at
each place: what it has stored is in the store and its own (`CopiesKept`), the files before
`run.next` have rows (`FilesCopied`), what the survey has seen is so until the commit
(`SurveyHolds`), and no row is of a holder that cannot be seen. `ReplacedAtOnce` and
`EditsAreKept` are about one step each, from that invariant, and so is `RestIsLeftAlone`: what the
survey found and nobody asked to overwrite keeps its text and its files, which is the letter of
"Conflicts are skipped and reported, never overwritten" (`modules/backup/service.py:1811`).
`CompleteRestores` needs `AllIsShown` beside it (from the commit that shows all on, nothing is
hidden again); the holders in `left`, half done by an earlier plain restore, are what a later
"complete" does not speak for, as section 5 says.

`DocumentImport_proofs`. Each commit has a lemma that says what it makes of the rows
(`StartCommits` to `ReapWriteCommits`). `StoreInvariant` is inductive by itself: `PlaceOK` and
`OutsideOK` (what copies were taken of), `ImagesOK` (the file in hand has no committed images,
so the deletion of what it has stored takes none) and `MadeOK` (no page was made of the file
in hand before its commit). `ReportInvariant` follows the execution's copy while nobody has overtaken
it: it agrees with the rows (`Agree`), file by file behind and ahead of the one in hand
(`Progress`), but for a job cancelled between its delivery and its first commit. From both,
`VerdictsAreKept`: a file's verdict is written once (`FilesStand`), and a job that is over changes
nothing more (`ReportStands`), each with that exception and unless the job was overtaken.

Some theorems state properties that no run has, so that the runs stay few: of access
`SpaceRows` (View goes with every other permission), `InheritingFollows` (a page that inherits
again has its parent's access), `UnblocksKeep` and `SwitchIsACopy`; of jobs `FailuresSayWhy` (a failed
job has a reason); of the index `EditsAreSeen`, `IndexedStays`, `ReadingStays` and `PassesAreAlone`; of
editing `HistoryKeepsAll`; of uploads `PickersAreTrue`; of the tree `ChecksAreEnough`, `WholeInTurn`
and `PurgedFromTrash`; of restores `RestIsLeftAlone` and `CompleteRestores`; of document imports
`VerdictsAreKept`.

Every invariant and action property of the passing runs is proved.
Only model-checked is all liveness (`RunsAndCancelsEnd`, `IndexCatchesUp`, `TextsCatchUp`,
`DraftCatchesUp`, `SavesEnd`, `RunsReachThePicker`, `ImportsEnd`). TLAPS
proves no liveness under fairness and nothing about ENABLED, takes no induction over
data, and loses its SMT backend in modules with RECURSIVE operators; none is used.

## 7. Not modelled

The parts with status `not_modelled` in `PROJECT.json` and the reason for each; of the
modelled ones: what an archive contains, how text is chunked and read from file
formats, the ranking of searches, the request memo of permissions, the Edit column and
the group rows of the access dialog, global permissions, and pages that are moved,
trashed or deleted while their access or their index is computed; titles, formats and
the conflict label of drafts; a second administrator at the restore card, the lock of its
inputs while a restore runs, progress and session renewal; two restores or two executions of
an import at once; where in the tree the pages of imports and restores go.

## 8. Running it

`tlc -config <run>.cfg <module>` for a run of `PROJECT.json`, `tlapm <module>_proofs.tla`
for the proofs. A property's comment names the code it is about; a definition whose
comment begins with "Wrong:" is a plausible mistake, and the property listed with it
under "mutants" fails when it takes the place of the real one.

