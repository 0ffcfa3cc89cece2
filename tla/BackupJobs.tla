----------------------------- MODULE BackupJobs -----------------------------
(***************************************************************************)
(* The life of a row of `backup_jobs`: an export (full_export,             *)
(* confluence_export) or a restore (full_import), written concurrently by  *)
(*   - the API process (create, enqueue, cancel),                          *)
(*   - the coroutines of the arq worker that execute it,                   *)
(*   - the reaper, at worker startup and every minute,                     *)
(* each through a database session of its own.                             *)
(*                                                                         *)
(* A session keeps the row it last read (SQLAlchemy's identity map) and    *)
(* its UPDATE names only the columns whose new value differs from that     *)
(* copy: operator Flush.  Columns another session changed in the meantime  *)
(* survive such a commit, and a column "reset" to the value the copy       *)
(* already holds is not written at all.                                    *)
(*                                                                         *)
(* Sources: app/modules/backup/jobs.py, app/modules/backup/service.py      *)
(* (checkpoint_backup_job, observe_backup_cancellation, the two staleness  *)
(* limits), app/api/v1/backup.py (create, _enqueue, cancel) and            *)
(* app/workers (run_backup_job, startup, the reaper's cron).               *)
(***************************************************************************)
EXTENDS Naturals, FiniteSets

CONSTANTS
    Exports,      \* rows of kind full_export or confluence_export
    Restores,     \* rows of kind full_import
    Automated,    \* the exports whose `automated` column is true
    Tasks,        \* coroutine slots of the worker (arq's max_jobs)
    NoJob,        \* an idle slot's job
    MaxRows,      \* bound: rows created in a behaviour
    MaxSends,     \* bound: how often the API hands one row to arq
    MaxTries,     \* arq's max_tries: executions arq starts for one row
    MaxCrashes    \* bound: worker deaths in a behaviour

Jobs == Exports \cup Restores

ASSUME JobsAssumption ==
    /\ Exports \cap Restores = {}
    /\ Automated \subseteq Exports
    /\ NoJob \notin Jobs
ASSUME TasksAssumption == IsFiniteSet(Tasks)
ASSUME BoundsAssumption ==
    MaxRows \in Nat /\ MaxSends \in Nat /\ MaxTries \in Nat /\ MaxCrashes \in Nat

VARIABLES
    rows,        \* the committed backup_jobs rows
    beat,        \* age of each row's heartbeat_at
    artifacts,   \* rows whose archive is in storage (object store or directory)
    unsent,      \* rows an API request has committed and is about to enqueue
    sent,        \* how often the API handed each row to arq
    deliveries,  \* executions of each row waiting in arq's queue
    tries,       \* executions of each row arq has started
    worker,      \* the worker process: down, starting (on_startup), up
    crashes,     \* worker deaths so far
    pc,          \* where each coroutine is
    own,         \* the row each coroutine executes
    mem,         \* that row as the coroutine's session last read or wrote it
    reapView,    \* rows the reaper has selected and not yet committed
    cancelView   \* cancel requests between their read and their write

rowVars == <<rows, beat>>
queueVars == <<unsent, sent, deliveries, tries>>
taskVars == <<pc, own, mem>>
workerVars == <<worker, crashes>>
vars == <<rows, beat, artifacts, unsent, sent, deliveries, tries,
          worker, crashes, pc, own, mem, reapView, cancelView>>

-----------------------------------------------------------------------------
(* Data.                                                                   *)

Finished == {"complete", "failed", "cancelled"}
Active == {"queued", "running"}
Statuses == {"absent"} \cup Active \cup Finished
Errors == {"none", "reaped", "raised"}

\* `output` stands for output_key/local_filename of an export and `result`
\* of a restore: what the last commit of a successful run records.
Row == [status : Statuses, cancel_requested : BOOLEAN, error : Errors, output : BOOLEAN]

NoRow == [status |-> "absent", cancel_requested |-> FALSE, error |-> "none", output |-> FALSE]

\* never: heartbeat_at IS NULL; late: older than STALE_JOB_AFTER (5 min);
\* overdue: older than STALE_RESTORE_JOB_AFTER (30 min).
Beats == {"never", "recent", "late", "overdue"}

\* The reaper's copy of a selected row, as far as its commit depends on it.
ReapViews == {"none", "fail", "fail_again", "cancel"}
CancelViews == {"none", "flag", "finalise"}

PCs == {"idle", "loaded", "working", "publishing", "finishing",
        "cancelling", "failing", "interrupted"}

Executing == {"working", "publishing", "finishing"}

\* Value of a column after a commit: untouched unless the session changed it.
Written(stored, loaded, new) == IF new = loaded THEN stored ELSE new

\* Wrong: an UPDATE of every column, as a merged or replaced row would give.
FlushWholeRow(stored, loaded, new) == new

Flush(stored, loaded, new) ==
    [status |-> Written(stored.status, loaded.status, new.status),
     cancel_requested |->
        Written(stored.cancel_requested, loaded.cancel_requested, new.cancel_requested),
     error |-> Written(stored.error, loaded.error, new.error),
     output |-> Written(stored.output, loaded.output, new.output)]

\* Wrong: rows with a stamp are never stale.
StaleWithoutStamp(j) == beat[j] = "never"

\* The cut-off reap_abandoned_export_jobs compares heartbeat_at with.
StaleForReaper(j) ==
    beat[j] \in IF j \in Restores THEN {"never", "overdue"}
                                  ELSE {"never", "late", "overdue"}

\* cancel_backup_job's worker_is_gone: one cut-off for every kind.
WorkerIsGone(j) == beat[j] \in {"never", "late", "overdue"}

InFlight(j) == {t \in Tasks : own[t] = j}

-----------------------------------------------------------------------------
Init ==
    /\ rows = [j \in Jobs |-> NoRow]
    /\ beat = [j \in Jobs |-> "never"]
    /\ artifacts = {}
    /\ unsent = {}
    /\ sent = [j \in Jobs |-> 0]
    /\ deliveries = [j \in Jobs |-> 0]
    /\ tries = [j \in Jobs |-> 0]
    /\ worker = "up"
    /\ crashes = 0
    /\ pc = [t \in Tasks |-> "idle"]
    /\ own = [t \in Tasks |-> NoJob]
    /\ mem = [t \in Tasks |-> NoRow]
    /\ reapView = [j \in Jobs |-> "none"]
    /\ cancelView = [j \in Jobs |-> "none"]

-----------------------------------------------------------------------------
(* The API process.                                                        *)

\* create_export_job / create_import_job: the row is committed queued before
\* the request goes on to enqueue it.
Create(j) ==
    /\ rows[j].status = "absent"
    /\ Cardinality({k \in Jobs : rows[k].status # "absent"}) < MaxRows
    /\ rows' = [rows EXCEPT ![j].status = "queued"]
    /\ unsent' = unsent \cup {j}
    /\ UNCHANGED <<beat, artifacts, sent, deliveries, tries, workerVars, taskVars,
                   reapView, cancelView>>

\* Wrong: the query for an active job forgets `automated`.
CreateAgainAnyJob(j) ==
    /\ rows[j].status \in Active
    /\ j \notin unsent
    /\ unsent' = unsent \cup {j}
    /\ UNCHANGED <<rowVars, artifacts, sent, deliveries, tries, workerVars, taskVars,
                   reapView, cancelView>>

\* queue_automatic_backup returns the active automated job instead of a new
\* one, and its callers enqueue whatever it returns.
CreateAgain(j) ==
    /\ j \in Automated
    /\ rows[j].status \in Active
    /\ j \notin unsent
    /\ unsent' = unsent \cup {j}
    /\ UNCHANGED <<rowVars, artifacts, sent, deliveries, tries, workerVars, taskVars,
                   reapView, cancelView>>

\* _enqueue: hands the committed row to arq.
Enqueue(j) ==
    /\ j \in unsent
    /\ sent[j] < MaxSends
    /\ unsent' = unsent \ {j}
    /\ sent' = [sent EXCEPT ![j] = @ + 1]
    /\ deliveries' = [deliveries EXCEPT ![j] = @ + 1]
    /\ UNCHANGED <<rowVars, artifacts, tries, workerVars, taskVars, reapView, cancelView>>

\* Redis refuses (the request answers 503) or the process dies between the
\* commit and the enqueue: the row stays as committed.
EnqueueFails(j) ==
    /\ j \in unsent
    /\ unsent' = unsent \ {j}
    /\ UNCHANGED <<rowVars, artifacts, sent, deliveries, tries, workerVars, taskVars,
                   reapView, cancelView>>

\* cancel_backup_job up to its flush: it decides on what this session read.
CancelRead(j) ==
    /\ cancelView[j] = "none"
    /\ rows[j].status \in Active
    /\ cancelView' = [cancelView EXCEPT ![j] =
            IF rows[j].status = "queued" \/ WorkerIsGone(j) THEN "finalise" ELSE "flag"]
    /\ UNCHANGED <<rowVars, artifacts, queueVars, workerVars, taskVars, reapView>>

\* Wrong: a status of its own that nothing else knows.
CancelOfPending(row, view) ==
    [row EXCEPT !.cancel_requested = TRUE,
                !.status = IF view = "finalise" THEN "cancelled" ELSE "cancelling"]

\* What its UPDATE makes of the row as it is by then.
CancelOf(row, view) ==
    [row EXCEPT !.cancel_requested = TRUE,
                !.status = IF view = "finalise" THEN "cancelled" ELSE row.status]

\* ... and its flush and commit.
CancelWrite(j) ==
    /\ cancelView[j] # "none"
    /\ rows' = [rows EXCEPT ![j] = CancelOf(rows[j], cancelView[j])]
    /\ cancelView' = [cancelView EXCEPT ![j] = "none"]
    /\ UNCHANGED <<beat, artifacts, queueVars, workerVars, taskVars, reapView>>

-----------------------------------------------------------------------------
(* A coroutine of the worker executing run_backup_job.                     *)

\* Reads the row of t's session anew (session.get, session.refresh).
Reads(t, j) == mem' = [mem EXCEPT ![t] = rows[j]]

\* Commits `new` for the row t executes.
Commits(t, new) == rows' = [rows EXCEPT ![own[t]] = Flush(@, mem[t], new)]

Stamps(j) == beat' = [beat EXCEPT ![j] = "recent"]

Goto(t, label) == pc' = [pc EXCEPT ![t] = label]

\* The coroutine ends and its session is closed.
Leaves(t) ==
    /\ Goto(t, "idle")
    /\ own' = [own EXCEPT ![t] = NoJob]
    /\ mem' = [mem EXCEPT ![t] = NoRow]

\* arq starts an execution; it returns at once when the row is gone, complete
\* or cancelled, and goes on when it is queued, running or failed.
Deliver(t, j) ==
    /\ worker = "up"
    /\ pc[t] = "idle"
    /\ deliveries[j] > 0
    /\ tries[j] < MaxTries
    /\ deliveries' = [deliveries EXCEPT ![j] = @ - 1]
    /\ tries' = [tries EXCEPT ![j] = @ + 1]
    /\ \/ /\ rows[j].status \in {"absent", "complete", "cancelled"}
          /\ UNCHANGED taskVars
       \/ /\ rows[j].status \in {"queued", "running", "failed"}
          /\ Goto(t, "loaded")
          /\ own' = [own EXCEPT ![t] = j]
          /\ Reads(t, j)
    /\ UNCHANGED <<rowVars, artifacts, unsent, sent, workerVars, reapView, cancelView>>

\* The row turns running, its error cleared and its heartbeat stamped in one
\* commit.
Start(t) ==
    /\ pc[t] = "loaded"
    /\ LET new == [mem[t] EXCEPT !.status = "running", !.error = "none"] IN
         /\ Commits(t, new)
         /\ mem' = [mem EXCEPT ![t] = new]
    /\ Stamps(own[t])
    /\ Goto(t, "working")
    /\ UNCHANGED <<artifacts, queueVars, workerVars, own, reapView, cancelView>>

\* That first commit is outside every handler: when it fails the exception
\* leaves the coroutine, and the row is as it was.
StartFails(t) ==
    /\ pc[t] = "loaded"
    /\ Leaves(t)
    /\ UNCHANGED <<rowVars, artifacts, queueVars, workerVars, reapView, cancelView>>

\* Wrong: the flag is looked up in the session's copy.
CheckpointWithoutRefresh(t, label) ==
    /\ pc[t] = "working"
    /\ IF mem[t].cancel_requested
         THEN Goto(t, "cancelling") /\ UNCHANGED beat
         ELSE Goto(t, label) /\ Stamps(own[t])
    /\ UNCHANGED <<rows, artifacts, queueVars, workerVars, own, mem, reapView, cancelView>>

\* checkpoint_backup_job: re-read the row, stop if a cancel is pending (the
\* handler rolls back and re-reads), else stamp the heartbeat and commit.
CheckpointTo(t, label) ==
    /\ pc[t] = "working"
    /\ Reads(t, own[t])
    /\ IF rows[own[t]].cancel_requested
         THEN Goto(t, "cancelling") /\ UNCHANGED beat
         ELSE Goto(t, label) /\ Stamps(own[t])
    /\ UNCHANGED <<rows, artifacts, queueVars, workerVars, own, reapView, cancelView>>

Checkpoint(t) == CheckpointTo(t, "working")

\* The last one: an export goes on to publish what it wrote, a plain restore
\* has applied everything.
LastCheckpoint(t) ==
    CheckpointTo(t, IF own[t] \in Exports THEN "publishing" ELSE "finishing")

\* observe_backup_cancellation: inside a restore's savepoint the flag is read
\* and nothing is committed, not even a heartbeat.
ObserveTo(t, label) ==
    /\ pc[t] = "working"
    /\ own[t] \in Restores
    /\ Reads(t, own[t])
    /\ Goto(t, IF rows[own[t]].cancel_requested THEN "cancelling" ELSE label)
    /\ UNCHANGED <<rowVars, artifacts, queueVars, workerVars, own, reapView, cancelView>>

Observe(t) == ObserveTo(t, "working")

\* The last one of a restore that overwrites spaces.
LastObserve(t) == ObserveTo(t, "finishing")

\* storage.put or os.replace: the archive is in place, the row not yet told.
Publish(t) ==
    /\ pc[t] = "publishing"
    /\ artifacts' = artifacts \cup {own[t]}
    /\ Goto(t, "finishing")
    /\ UNCHANGED <<rowVars, queueVars, workerVars, own, mem, reapView, cancelView>>

\* A restore enters its second phase: a commit that stamps the heartbeat and
\* reads nothing.
EntersRestoring(t) ==
    /\ pc[t] = "working"
    /\ own[t] \in Restores
    /\ Stamps(own[t])
    /\ UNCHANGED <<rows, artifacts, queueVars, workerVars, taskVars, reapView, cancelView>>

\* Wrong: one more checkpoint before the closing commit; its refresh discards
\* the output that was set and not yet flushed (jobs.py:528-535).
FinishAfterRefresh(t) ==
    /\ pc[t] = "finishing"
    /\ rows' = [rows EXCEPT ![own[t]] = [@ EXCEPT !.status = "complete", !.error = "none"]]
    /\ Stamps(own[t])
    /\ Leaves(t)
    /\ UNCHANGED <<artifacts, queueVars, workerVars, reapView, cancelView>>

\* The closing commit: output, complete, no error, in one UPDATE and without
\* another refresh.
Finish(t) ==
    /\ pc[t] = "finishing"
    /\ Commits(t, [mem[t] EXCEPT !.status = "complete", !.error = "none", !.output = TRUE])
    /\ IF own[t] \in Exports THEN Stamps(own[t]) ELSE UNCHANGED beat
    /\ Leaves(t)
    /\ UNCHANGED <<artifacts, queueVars, workerVars, reapView, cancelView>>

\* The ExportCancelled handler, which has re-read the row after its rollback.
WriteCancelled(t) ==
    /\ pc[t] = "cancelling"
    /\ Commits(t, [mem[t] EXCEPT !.status = "cancelled"])
    /\ Leaves(t)
    /\ UNCHANGED <<beat, artifacts, queueVars, workerVars, reapView, cancelView>>

\* Any other exception inside the try: rollback and re-read ...
Raises(t) ==
    /\ pc[t] \in Executing
    /\ Reads(t, own[t])
    /\ Goto(t, "failing")
    /\ UNCHANGED <<rowVars, artifacts, queueVars, workerVars, own, reapView, cancelView>>

\* ... then failed and the reason are committed.
WriteFailed(t) ==
    /\ pc[t] = "failing"
    /\ Commits(t, [mem[t] EXCEPT !.status = "failed", !.error = "raised"])
    /\ Leaves(t)
    /\ UNCHANGED <<beat, artifacts, queueVars, workerVars, reapView, cancelView>>

\* A handler's own commit fails: the row keeps what it said.
HandlerFails(t) ==
    /\ pc[t] \in {"cancelling", "failing", "interrupted"}
    /\ Leaves(t)
    /\ UNCHANGED <<rowVars, artifacts, queueVars, workerVars, reapView, cancelView>>

\* asyncio.CancelledError, from arq's job timeout or from the worker's
\* shutdown.  Only a restore inside its try handles it, in a shielded scope.
\* After a shutdown (again) arq queues the execution once more.
Redelivers(t, again) ==
    deliveries' = IF again THEN [deliveries EXCEPT ![own[t]] = @ + 1] ELSE deliveries

Interrupt(t, again) ==
    /\ pc[t] \notin {"idle", "interrupted"}
    /\ ~(own[t] \in Restores /\ pc[t] \in Executing)
    /\ Leaves(t)
    /\ Redelivers(t, again)
    /\ UNCHANGED <<rowVars, artifacts, unsent, sent, tries, workerVars, reapView, cancelView>>

InterruptRestore(t) ==
    /\ own[t] \in Restores
    /\ pc[t] \in Executing
    /\ Reads(t, own[t])
    /\ Goto(t, "interrupted")
    /\ UNCHANGED <<rowVars, artifacts, queueVars, workerVars, own, reapView, cancelView>>

WriteInterrupted(t, again) ==
    /\ pc[t] = "interrupted"
    /\ Commits(t, [mem[t] EXCEPT !.status = "failed", !.error = "raised"])
    /\ Leaves(t)
    /\ Redelivers(t, again)
    /\ UNCHANGED <<beat, artifacts, unsent, sent, tries, workerVars, reapView, cancelView>>

-----------------------------------------------------------------------------
(* The worker process and the reaper.                                      *)

\* What the reaper will write for a row it selects now.
ReapViewOf(row) ==
    IF row.cancel_requested THEN "cancel"
    ELSE IF row.error = "reaped" THEN "fail_again" ELSE "fail"

\* The process dies: its coroutines and open sessions are gone, and arq will
\* execute once more what it was executing.
WorkerDies ==
    /\ worker \in {"starting", "up"}
    /\ crashes < MaxCrashes
    /\ worker' = "down"
    /\ crashes' = crashes + 1
    /\ pc' = [t \in Tasks |-> "idle"]
    /\ own' = [t \in Tasks |-> NoJob]
    /\ mem' = [t \in Tasks |-> NoRow]
    /\ deliveries' = [j \in Jobs |-> deliveries[j] + Cardinality(InFlight(j))]
    /\ reapView' = [j \in Jobs |-> "none"]
    /\ UNCHANGED <<rowVars, artifacts, unsent, sent, tries, cancelView>>

\* startup: reap_backup_jobs(every_running_job=True), best effort.
WorkerStarts(reaps) ==
    /\ worker = "down"
    /\ worker' = "starting"
    /\ reapView' = [j \in Jobs |-> IF reaps /\ rows[j].status = "running"
                                      THEN ReapViewOf(rows[j]) ELSE "none"]
    /\ UNCHANGED <<rowVars, artifacts, queueVars, crashes, taskVars, cancelView>>

WorkerReady ==
    /\ worker = "starting"
    /\ \A j \in Jobs : reapView[j] = "none"
    /\ worker' = "up"
    /\ UNCHANGED <<rowVars, artifacts, queueVars, crashes, taskVars, reapView, cancelView>>

\* The minute's sweep selects a running row with a stale heartbeat ...
ReapSelect(j) ==
    /\ worker = "up"
    /\ reapView[j] = "none"
    /\ rows[j].status = "running"
    /\ StaleForReaper(j)
    /\ reapView' = [reapView EXCEPT ![j] = ReapViewOf(rows[j])]
    /\ UNCHANGED <<rowVars, artifacts, queueVars, workerVars, taskVars, cancelView>>

\* Its verdict's UPDATE of the row as it is by then.
ReapOf(row, view) ==
    [row EXCEPT !.status = IF view = "cancel" THEN "cancelled" ELSE "failed",
                !.error = IF view = "fail" THEN "reaped" ELSE row.error]

\* ... and commits its verdict.
ReapWrite(j) ==
    /\ reapView[j] # "none"
    /\ rows' = [rows EXCEPT ![j] = ReapOf(rows[j], reapView[j])]
    /\ reapView' = [reapView EXCEPT ![j] = "none"]
    /\ UNCHANGED <<beat, artifacts, queueVars, workerVars, taskVars, cancelView>>

\* Time passes over a running row's heartbeat, its worker alive or not.
Ages(j) ==
    /\ rows[j].status = "running"
    /\ beat[j] \in {"recent", "late"}
    /\ beat' = [beat EXCEPT ![j] = IF @ = "recent" THEN "late" ELSE "overdue"]
    /\ UNCHANGED <<rows, artifacts, queueVars, workerVars, taskVars, reapView, cancelView>>

-----------------------------------------------------------------------------
ApiStep(j) ==
    \/ Create(j) \/ CreateAgain(j) \/ Enqueue(j) \/ EnqueueFails(j)
    \/ CancelRead(j) \/ CancelWrite(j)

\* What a coroutine does when nothing goes wrong and its work comes to an end.
Progress(t) ==
    \/ Start(t) \/ LastCheckpoint(t) \/ LastObserve(t) \/ Publish(t) \/ Finish(t)
    \/ WriteCancelled(t) \/ WriteFailed(t)
    \/ \E again \in BOOLEAN : WriteInterrupted(t, again)

TaskStep(t) ==
    \/ \E j \in Jobs : Deliver(t, j)
    \/ Progress(t) \/ Checkpoint(t) \/ Observe(t) \/ EntersRestoring(t)
    \/ StartFails(t) \/ Raises(t) \/ HandlerFails(t) \/ InterruptRestore(t)
    \/ \E again \in BOOLEAN : Interrupt(t, again)

WorkerStep ==
    \/ WorkerDies \/ WorkerReady
    \/ \E reaps \in BOOLEAN : WorkerStarts(reaps)

ReaperStep(j) == ReapSelect(j) \/ ReapWrite(j)

Next ==
    \/ \E j \in Jobs : ApiStep(j) \/ ReaperStep(j) \/ Ages(j)
    \/ \E t \in Tasks : TaskStep(t)
    \/ WorkerStep

\* The event loop runs a coroutine that can run; a long phase ends; the
\* container is restarted (restart: unless-stopped); cron fires every minute;
\* the clock moves.  Nothing is assumed of users, of Redis or of failures.
Fairness ==
    /\ \A t \in Tasks : WF_vars(Progress(t))
    /\ \A j \in Jobs : WF_vars(ReapSelect(j)) /\ WF_vars(ReapWrite(j)) /\ WF_vars(Ages(j))
    /\ WF_vars(\E reaps \in BOOLEAN : WorkerStarts(reaps))
    /\ WF_vars(WorkerReady)

Spec == Init /\ [][Next]_vars
FairSpec == Spec /\ Fairness

-----------------------------------------------------------------------------
TypeOK ==
    /\ rows \in [Jobs -> Row]
    /\ beat \in [Jobs -> Beats]
    /\ artifacts \subseteq Jobs
    /\ unsent \subseteq Jobs
    /\ sent \in [Jobs -> Nat]
    /\ deliveries \in [Jobs -> Nat]
    /\ tries \in [Jobs -> Nat]
    /\ worker \in {"down", "starting", "up"}
    /\ crashes \in Nat
    /\ pc \in [Tasks -> PCs]
    /\ own \in [Tasks -> Jobs \cup {NoJob}]
    /\ mem \in [Tasks -> Row]
    /\ reapView \in [Jobs -> ReapViews]
    /\ cancelView \in [Jobs -> CancelViews]

-----------------------------------------------------------------------------
(* Properties.                                                             *)

\* A row the panel shows as complete can be downloaded (or, for a restore,
\* has its report): the archive is in storage and the row says so.  The
\* closing commit must carry both, whatever other sessions did to the row.
CompleteHasArtifact ==
    \A j \in Jobs : rows[j].status = "complete" =>
        rows[j].output /\ (j \in Exports => j \in artifacts)

\* A failed row says why, whichever of the reaper and the handlers failed it
\* and however their commits interleave, unless two coroutines execute it at
\* once (jobs.py:190 leaves the reason of an earlier reaping in place).
FailedSaysWhy ==
    \A j \in Jobs \ Automated : rows[j].status = "failed" => rows[j].error # "none"

\* Nothing is published for a job whose cancel was committed before the last
\* checkpoint, and no restore goes on to its closing commit.
PublishesOnlyUncancelled ==
    [][\A t \in Tasks : pc[t] = "working" /\ pc'[t] \in {"publishing", "finishing"}
            => ~rows[own[t]].cancel_requested]_vars

\* One worker never executes a row twice at once, unless the row is an
\* automated backup that was enqueued again while it was active.
OneExecution ==
    \A j \in Jobs \ Automated : \A s, t \in Tasks : own[s] = j /\ own[t] = j => s = t

\* Every execution comes to an end on the row too, and no cancel request is
\* forgotten: a dead worker's row is reaped, a live one's finished, and a request
\* that nothing is left to observe is finalised where it is made.
RunsAndCancelsEnd ==
    \A j \in Jobs :
        rows[j].status = "running" \/ rows[j].cancel_requested ~>
            rows[j].status \in Finished

\* The abstract promise, read off the rows and the storage.
Promise == INSTANCE JobPromise WITH
    stored <- artifacts,
    offered <- {j \in Jobs : rows[j].output},
    requested <- {j \in Jobs : rows[j].cancel_requested}

\* No session's stale copy of a row undoes what another one committed: an
\* offered output stays offered and stored, a cancel request stays requested.
KeepsPromise == Promise!PSpec
=============================================================================
