-------------------------- MODULE BackupJobs_proofs --------------------------
(***************************************************************************)
(* Theorems about BackupJobs for every set of jobs and slots and every     *)
(* bound.                                                                  *)
(***************************************************************************)
EXTENDS BackupJobs, FiniteSetTheorems, TLAPS

\* A commit yields a row, each of whose columns is the stored or the new one.
LEMMA FlushType ==
    ASSUME NEW stored \in Row, NEW loaded \in Row, NEW new \in Row
    PROVE  Flush(stored, loaded, new) \in Row
BY DEF Flush, Written, Row

\* So do the UPDATEs of a cancel request and of the reaper.
LEMMA VerdictType ==
    ASSUME NEW row \in Row, NEW view
    PROVE  CancelOf(row, view) \in Row /\ ReapOf(row, view) \in Row
<1>1. CancelOf(row, view) \in Row
  <2>1. CASE view = "finalise"
    BY <2>1 DEF CancelOf, Row, Statuses, Finished
  <2>2. CASE view # "finalise"
    BY <2>2 DEF CancelOf, Row
  <2>3. QED BY <2>1, <2>2
<1>2. ReapOf(row, view) \in Row
  <2> DEFINE status == IF view = "cancel" THEN "cancelled" ELSE "failed"
             error == IF view = "fail" THEN "reaped" ELSE row.error
  <2>1. status \in Statuses
    BY DEF Statuses, Finished
  <2>2. error \in Errors
    BY DEF Row, Errors
  <2>3. ReapOf(row, view) = [row EXCEPT !.status = status, !.error = error]
    BY DEF ReapOf
  <2> HIDE DEF status, error
  <2>4. QED
    BY <2>1, <2>2, <2>3 DEF Row
<1>3. QED BY <1>1, <1>2

\* The columns of a flushed row, one by one.
LEMMA FlushColumns ==
    ASSUME NEW stored, NEW loaded, NEW new
    PROVE  /\ Flush(stored, loaded, new).status =
                  Written(stored.status, loaded.status, new.status)
           /\ Flush(stored, loaded, new).cancel_requested =
                  Written(stored.cancel_requested, loaded.cancel_requested,
                          new.cancel_requested)
           /\ Flush(stored, loaded, new).error =
                  Written(stored.error, loaded.error, new.error)
           /\ Flush(stored, loaded, new).output =
                  Written(stored.output, loaded.output, new.output)
BY DEF Flush

-----------------------------------------------------------------------------
\* A coroutine outside `idle` executes a job; one that is idle does not.
Owns == \A t \in Tasks : pc[t] # "idle" => own[t] \in Jobs

TypeInv == TypeOK /\ Owns

LEMMA InitType == Init => TypeInv
BY DEF Init, TypeInv, TypeOK, Owns, Row, NoRow, Statuses, Active, Finished, Errors,
       Beats, PCs, ReapViews, CancelViews

LEMMA ApiType ==
    ASSUME TypeInv, NEW j \in Jobs, ApiStep(j)
    PROVE  TypeInv'
<1> USE DEF TypeInv, TypeOK, Owns, rowVars, queueVars, taskVars, workerVars
<1>1. CASE Create(j)
  BY <1>1 DEF Create, Row, Statuses, Active
<1>2. CASE CreateAgain(j)
  BY <1>2 DEF CreateAgain
<1>3. CASE Enqueue(j)
  BY <1>3 DEF Enqueue
<1>4. CASE EnqueueFails(j)
  BY <1>4 DEF EnqueueFails
<1>5. CASE CancelRead(j)
  BY <1>5 DEF CancelRead, CancelViews
<1>6. CASE CancelWrite(j)
  <2>1. rows[j] \in Row
    OBVIOUS
  <2>2. CancelOf(rows[j], cancelView[j]) \in Row
    BY <2>1, VerdictType
  <2>3. rows' \in [Jobs -> Row]
    BY <1>6, <2>2 DEF CancelWrite
  <2>4. QED
    BY <1>6, <2>3 DEF CancelWrite, CancelViews
<1>7. QED
  BY <1>1, <1>2, <1>3, <1>4, <1>5, <1>6 DEF ApiStep

LEMMA ReaperType ==
    ASSUME TypeInv, NEW j \in Jobs, ReaperStep(j) \/ Ages(j)
    PROVE  TypeInv'
<1> USE DEF TypeInv, TypeOK, Owns, rowVars, queueVars, taskVars, workerVars
<1>1. CASE ReapSelect(j)
  BY <1>1 DEF ReapSelect, ReapViewOf, ReapViews
<1>2. CASE ReapWrite(j)
  <2>1. rows[j] \in Row
    OBVIOUS
  <2>2. ReapOf(rows[j], reapView[j]) \in Row
    BY <2>1, VerdictType
  <2>3. rows' \in [Jobs -> Row]
    BY <1>2, <2>2 DEF ReapWrite
  <2>4. QED
    BY <1>2, <2>3 DEF ReapWrite, ReapViews
<1>3. CASE Ages(j)
  BY <1>3 DEF Ages, Beats
<1>4. QED
  BY <1>1, <1>2, <1>3 DEF ReaperStep

LEMMA WorkerType ==
    ASSUME TypeInv, WorkerStep
    PROVE  TypeInv'
<1> USE DEF TypeInv, TypeOK, Owns, rowVars, queueVars, taskVars, workerVars
<1>1. CASE WorkerDies
  <2>1. \A j \in Jobs : Cardinality(InFlight(j)) \in Nat
    <3>1. \A j \in Jobs : IsFiniteSet(InFlight(j))
      BY TasksAssumption, FS_Subset DEF InFlight
    <3>2. QED BY <3>1, FS_CardinalityType
  <2>2. deliveries' \in [Jobs -> Nat]
    BY <1>1, <2>1 DEF WorkerDies
  <2>3. QED
    BY <1>1, <2>2 DEF WorkerDies, PCs, NoRow, Row, Statuses, Errors, ReapViews
<1>2. CASE WorkerReady
  BY <1>2 DEF WorkerReady
<1>3. ASSUME NEW reaps \in BOOLEAN, WorkerStarts(reaps)
      PROVE  TypeInv'
  BY <1>3 DEF WorkerStarts, ReapViewOf, ReapViews
<1>4. QED
  BY <1>1, <1>2, <1>3 DEF WorkerStep

LEMMA TaskType ==
    ASSUME TypeInv, NEW t \in Tasks, TaskStep(t)
    PROVE  TypeInv'
<1> USE DEF TypeInv, TypeOK, Owns, rowVars, queueVars, taskVars, workerVars,
            Goto, Leaves, Reads, Stamps
<1>0. NoRow \in Row
  BY DEF NoRow, Row, Statuses, Errors
<1>1. ASSUME NEW j \in Jobs, Deliver(t, j)
      PROVE  TypeInv'
  BY <1>1 DEF Deliver, PCs
<1>2. CASE Start(t)
  <2> DEFINE new == [mem[t] EXCEPT !.status = "running", !.error = "none"]
  <2>1. new \in Row
    BY DEF Row, Statuses, Active, Errors
  <2>2. Flush(rows[own[t]], mem[t], new) \in Row
    BY <1>2, <2>1, FlushType DEF Start
  <2>3. QED
    BY <1>2, <2>1, <2>2 DEF Start, Commits, PCs, Beats
<1>3. ASSUME NEW label \in {"working", "publishing", "finishing"}, CheckpointTo(t, label)
      PROVE  TypeInv'
  BY <1>3 DEF CheckpointTo, PCs, Beats
<1>4. ASSUME NEW label \in {"working", "finishing"}, ObserveTo(t, label)
      PROVE  TypeInv'
  BY <1>4 DEF ObserveTo, PCs
<1>5. CASE Publish(t)
  BY <1>5 DEF Publish, PCs
<1>6. CASE Finish(t)
  <2> DEFINE new == [mem[t] EXCEPT !.status = "complete", !.error = "none", !.output = TRUE]
  <2>1. new \in Row
    BY ZenonT(40) DEF Row, Statuses, Finished, Errors
  <2>2. Flush(rows[own[t]], mem[t], new) \in Row
    BY <1>6, <2>1, FlushType DEF Finish
  <2>3. QED
    BY <1>0, <1>6, <2>2 DEF Finish, Commits, PCs, Beats
<1>7. CASE WriteCancelled(t)
  <2> DEFINE new == [mem[t] EXCEPT !.status = "cancelled"]
  <2>1. new \in Row
    BY DEF Row, Statuses, Finished
  <2>2. Flush(rows[own[t]], mem[t], new) \in Row
    BY <1>7, <2>1, FlushType DEF WriteCancelled
  <2>3. QED
    BY <1>0, <1>7, <2>2 DEF WriteCancelled, Commits, PCs
<1>8. ASSUME NEW again \in BOOLEAN, WriteFailed(t) \/ WriteInterrupted(t, again)
      PROVE  TypeInv'
  <2> DEFINE new == [mem[t] EXCEPT !.status = "failed", !.error = "raised"]
  <2>1. new \in Row
    BY ZenonT(40) DEF Row, Statuses, Finished, Errors
  <2>2. Flush(rows[own[t]], mem[t], new) \in Row
    BY <1>8, <2>1, FlushType DEF WriteFailed, WriteInterrupted
  <2>3. QED
    BY <1>0, <1>8, <2>2 DEF WriteFailed, WriteInterrupted, Redelivers, Commits, PCs
<1>9. CASE StartFails(t) \/ HandlerFails(t)
  BY <1>0, <1>9 DEF StartFails, HandlerFails, PCs
<1>10. CASE Raises(t) \/ InterruptRestore(t)
  BY <1>10 DEF Raises, InterruptRestore, Executing, PCs
<1>11. ASSUME NEW again \in BOOLEAN, Interrupt(t, again)
       PROVE  TypeInv'
  BY <1>0, <1>11 DEF Interrupt, Redelivers, PCs
<1>12. CASE EntersRestoring(t)
  BY <1>12 DEF EntersRestoring, Beats
<1>13. QED
  BY <1>1, <1>2, <1>3, <1>4, <1>5, <1>6, <1>7, <1>8, <1>9, <1>10, <1>11, <1>12
     DEF TaskStep, Progress, Checkpoint, LastCheckpoint, Observe, LastObserve

LEMMA WellTyped == Spec => []TypeInv
<1>1. TypeInv /\ UNCHANGED vars => TypeInv'
  BY DEF TypeInv, TypeOK, Owns, vars
<1>2. TypeInv /\ Next => TypeInv'
  BY ApiType, ReaperType, WorkerType, TaskType DEF Next
<1>3. QED
  BY <1>1, <1>2, InitType, PTL DEF Spec

\* Every reachable row, queue and session is well typed (models/backup_job.py:40).
THEOREM TypeCorrect == Spec => []TypeOK
<1>1. TypeInv => TypeOK
  BY DEF TypeInv
<1>2. QED
  BY <1>1, WellTyped, PTL

-----------------------------------------------------------------------------
(* Outputs.  "complete" implies an output, and an output implies an        *)
(* archive, only because a coroutine that is about to close its row has    *)
(* published the archive, and because a session whose copy already holds   *)
(* an output (so that its UPDATE will not name that column) is never ahead *)
(* of the row.                                                             *)

OutputInv ==
    /\ \A j \in Jobs : rows[j].status = "complete" => rows[j].output
    /\ \A j \in Exports : rows[j].output => j \in artifacts
    /\ \A t \in Tasks : pc[t] = "finishing" /\ own[t] \in Exports => own[t] \in artifacts
    /\ \A t \in Tasks : pc[t] # "idle" /\ mem[t].output => rows[own[t]].output

\* A running row always has a heartbeat: the reaper and Cancel read a missing
\* one as a dead worker.
RunningHasBeat ==
    \A j \in Jobs : rows[j].status = "running" => beat[j] # "never"

SafeInv == OutputInv /\ RunningHasBeat

\* What a commit by coroutine t does to the columns of every row.
LEMMA CommitColumns ==
    ASSUME TypeInv, NEW t \in Tasks, pc[t] # "idle", NEW new, Commits(t, new), NEW k \in Jobs
    PROVE  /\ own[t] \in Jobs
           /\ k # own[t] => rows'[k] = rows[k]
           /\ k = own[t] =>
                /\ rows'[k].status = Written(rows[k].status, mem[t].status, new.status)
                /\ rows'[k].cancel_requested =
                       Written(rows[k].cancel_requested, mem[t].cancel_requested,
                               new.cancel_requested)
                /\ rows'[k].error = Written(rows[k].error, mem[t].error, new.error)
                /\ rows'[k].output = Written(rows[k].output, mem[t].output, new.output)
<1>1. own[t] \in Jobs
  BY DEF TypeInv, Owns
<1>2. rows' = [rows EXCEPT ![own[t]] = Flush(rows[own[t]], mem[t], new)]
  BY DEF Commits
<1>3. k # own[t] => rows'[k] = rows[k]
  BY <1>1, <1>2 DEF TypeInv, TypeOK
<1>4. k = own[t] => rows'[k] = Flush(rows[k], mem[t], new)
  BY <1>1, <1>2 DEF TypeInv, TypeOK
<1>5. QED
  BY <1>1, <1>3, <1>4, FlushColumns

\* A commit that writes neither the output nor the cancel flag keeps both in
\* every row, and leaves no row in a status it held neither before nor in
\* the commit.
LEMMA PlainCommit ==
    ASSUME TypeInv, NEW t \in Tasks, pc[t] # "idle", NEW new, Commits(t, new),
           new.output = mem[t].output,
           new.cancel_requested = mem[t].cancel_requested, NEW k \in Jobs
    PROVE  /\ rows'[k].output = rows[k].output
           /\ rows'[k].cancel_requested = rows[k].cancel_requested
           /\ rows'[k].status # rows[k].status =>
                  k = own[t] /\ rows'[k].status = new.status
BY CommitColumns DEF Written

\* The verdicts of Cancel and of the reaper keep the output too, and make no
\* row running or complete.
LEMMA VerdictColumns ==
    ASSUME NEW row \in Row, NEW view
    PROVE  /\ CancelOf(row, view).output = row.output
           /\ CancelOf(row, view).cancel_requested
           /\ CancelOf(row, view).status \in {row.status, "cancelled"}
           /\ ReapOf(row, view).output = row.output
           /\ ReapOf(row, view).cancel_requested = row.cancel_requested
           /\ ReapOf(row, view).status \in {"failed", "cancelled"}
BY DEF CancelOf, ReapOf, Row

LEMMA InitSafe == Init => SafeInv
BY DEF Init, SafeInv, OutputInv, RunningHasBeat, NoRow, Jobs

\* Steps that change no coroutine: the API's, the reaper's, the clock's.
LEMMA OutsideSafe ==
    ASSUME TypeInv, SafeInv, NEW j \in Jobs, ApiStep(j) \/ ReaperStep(j) \/ Ages(j)
    PROVE  SafeInv'
<1> USE DEF SafeInv, OutputInv, RunningHasBeat, rowVars, queueVars, taskVars, workerVars
<1>0. \A t \in Tasks : pc[t] # "idle" => own[t] \in Jobs
  BY DEF TypeInv, Owns
<1>00. Exports \subseteq Jobs
  BY DEF Jobs
<1>000. rows \in [Jobs -> Row] /\ beat \in [Jobs -> Beats]
  BY DEF TypeInv, TypeOK
<1>1. CASE Create(j)
  <2>1. rows' = [rows EXCEPT ![j].status = "queued"]
    BY <1>1 DEF Create
  <2>2. \A k \in Jobs : /\ rows'[k].output = rows[k].output
                        /\ rows'[k].status \in {rows[k].status, "queued"}
    BY <2>1, <1>000 DEF Row
  <2>3. QED
    BY <1>1, <2>2, <1>0, <1>00 DEF Create
<1>2. CASE CreateAgain(j) \/ Enqueue(j) \/ EnqueueFails(j) \/ CancelRead(j) \/ ReapSelect(j)
  BY <1>2 DEF CreateAgain, Enqueue, EnqueueFails, CancelRead, ReapSelect
<1>3. CASE CancelWrite(j)
  <2>1. rows' = [rows EXCEPT ![j] = CancelOf(rows[j], cancelView[j])]
    BY <1>3 DEF CancelWrite
  <2>2. \A k \in Jobs : /\ rows'[k].output = rows[k].output
                        /\ rows'[k].status \in {rows[k].status, "cancelled"}
    BY <2>1, <1>000, VerdictColumns
  <2>3. QED
    BY <1>3, <2>2, <1>0, <1>00 DEF CancelWrite
<1>4. CASE ReapWrite(j)
  <2>1. rows' = [rows EXCEPT ![j] = ReapOf(rows[j], reapView[j])]
    BY <1>4 DEF ReapWrite
  <2>2. \A k \in Jobs : /\ rows'[k].output = rows[k].output
                        /\ rows'[k].status \in {rows[k].status, "failed", "cancelled"}
    BY <2>1, <1>000, VerdictColumns
  <2>3. QED
    BY <1>4, <2>2, <1>0, <1>00 DEF ReapWrite
<1>5. CASE Ages(j)
  BY <1>5, <1>000 DEF Ages
<1>6. QED
  BY <1>1, <1>2, <1>3, <1>4, <1>5 DEF ApiStep, ReaperStep

LEMMA WorkerSafe ==
    ASSUME TypeInv, SafeInv, WorkerStep
    PROVE  SafeInv'
<1> USE DEF SafeInv, OutputInv, RunningHasBeat, rowVars, queueVars, taskVars, workerVars
<1>1. CASE WorkerDies
  BY <1>1 DEF WorkerDies
<1>2. CASE WorkerReady
  BY <1>2 DEF WorkerReady
<1>3. ASSUME NEW reaps \in BOOLEAN, WorkerStarts(reaps)
      PROVE  SafeInv'
  BY <1>3 DEF WorkerStarts
<1>4. QED
  BY <1>1, <1>2, <1>3 DEF WorkerStep

\* The steps of a coroutine.
LEMMA TaskSafe ==
    ASSUME TypeInv, SafeInv, NEW t \in Tasks, TaskStep(t)
    PROVE  SafeInv'
<1> USE DEF SafeInv, OutputInv, RunningHasBeat, rowVars, queueVars, taskVars, workerVars,
            Goto, Leaves
<1>0. \A s \in Tasks : pc[s] # "idle" => own[s] \in Jobs
  BY DEF TypeInv, Owns
<1>00. Exports \subseteq Jobs
  BY DEF Jobs
<1>000. /\ rows \in [Jobs -> Row] /\ beat \in [Jobs -> Beats] /\ mem \in [Tasks -> Row]
        /\ pc \in [Tasks -> PCs] /\ own \in [Tasks -> Jobs \cup {NoJob}]
  BY DEF TypeInv, TypeOK
<1>1. ASSUME NEW j \in Jobs, Deliver(t, j)
      PROVE  SafeInv'
  BY <1>1, <1>000 DEF Deliver, Reads
<1>2. CASE Start(t)
  <2> DEFINE new == [mem[t] EXCEPT !.status = "running", !.error = "none"]
  <2>1. /\ new.output = mem[t].output
        /\ new.cancel_requested = mem[t].cancel_requested
        /\ new.status = "running"
    BY <1>000 DEF Row
  <2>2. /\ Commits(t, new) /\ pc[t] = "loaded"
        /\ mem' = [mem EXCEPT ![t] = new]
        /\ beat' = [beat EXCEPT ![own[t]] = "recent"]
        /\ pc' = [pc EXCEPT ![t] = "working"]
        /\ UNCHANGED <<artifacts, own>>
    BY <1>2 DEF Start, Stamps
  <2> HIDE DEF new
  <2>3. \A k \in Jobs : /\ rows'[k].output = rows[k].output
                        /\ rows'[k].status # rows[k].status =>
                              k = own[t] /\ rows'[k].status = "running"
    BY <2>1, <2>2, PlainCommit
  <2>4. QED
    BY <2>1, <2>2, <2>3, <1>0, <1>00, <1>000
<1>3. ASSUME NEW label \in {"working", "publishing", "finishing"}, CheckpointTo(t, label),
             label = "finishing" => own[t] \notin Exports
      PROVE  SafeInv'
  BY <1>3, <1>0, <1>00, <1>000 DEF CheckpointTo, Reads, Stamps
<1>4. ASSUME NEW label \in {"working", "finishing"}, ObserveTo(t, label)
      PROVE  SafeInv'
  BY <1>4, <1>0, <1>00, <1>000, JobsAssumption DEF ObserveTo, Reads
<1>5. CASE Publish(t)
  BY <1>5, <1>0, <1>00, <1>000 DEF Publish
<1>6. CASE Finish(t)
  <2> DEFINE new == [mem[t] EXCEPT !.status = "complete", !.error = "none", !.output = TRUE]
  <2>1. new.output = TRUE /\ new.status = "complete"
    BY <1>000 DEF Row
  <2>2. /\ Commits(t, new) /\ pc[t] = "finishing"
        /\ beat' \in {beat, [beat EXCEPT ![own[t]] = "recent"]}
        /\ pc' = [pc EXCEPT ![t] = "idle"]
        /\ own' = [own EXCEPT ![t] = NoJob]
        /\ mem' = [mem EXCEPT ![t] = NoRow]
        /\ UNCHANGED artifacts
    BY <1>6 DEF Finish, Stamps
  <2> HIDE DEF new
  <2>3. \A k \in Jobs :
           /\ k # own[t] => rows'[k] = rows[k]
           /\ k = own[t] => /\ rows'[k].output
                            /\ rows'[k].status \in {rows[k].status, "complete"}
    BY <2>1, <2>2, <1>000, CommitColumns DEF Written, Row
  <2>4. \A k \in Jobs : rows[k].output => rows'[k].output
    BY <2>3
  <2>5. QED
    BY <2>2, <2>3, <2>4, <1>0, <1>00, <1>000
<1>7. ASSUME NEW status \in {"cancelled", "failed"}, NEW new,
             new.output = mem[t].output,
             new.cancel_requested = mem[t].cancel_requested,
             new.status = status, pc[t] # "idle",
             Commits(t, new), Leaves(t), UNCHANGED <<beat, artifacts>>
      PROVE  SafeInv'
  <2>1. \A k \in Jobs : /\ rows'[k].output = rows[k].output
                        /\ rows'[k].status \in {rows[k].status, status}
    BY <1>7, PlainCommit
  <2>2. QED
    BY <1>7, <2>1, <1>0, <1>00, <1>000
<1>8. CASE WriteCancelled(t)
  <2> DEFINE new == [mem[t] EXCEPT !.status = "cancelled"]
  <2>1. /\ new.output = mem[t].output /\ new.status = "cancelled"
        /\ new.cancel_requested = mem[t].cancel_requested
    BY <1>000 DEF Row
  <2>2. QED
    BY <1>8, <2>1, <1>7 DEF WriteCancelled
<1>9. ASSUME NEW again \in BOOLEAN, WriteFailed(t) \/ WriteInterrupted(t, again)
      PROVE  SafeInv'
  <2> DEFINE new == [mem[t] EXCEPT !.status = "failed", !.error = "raised"]
  <2>1. /\ new.output = mem[t].output /\ new.status = "failed"
        /\ new.cancel_requested = mem[t].cancel_requested
    BY <1>000 DEF Row
  <2>2. QED
    BY <1>9, <2>1, <1>7 DEF WriteFailed, WriteInterrupted
<1>10. CASE StartFails(t) \/ HandlerFails(t)
  BY <1>10, <1>0, <1>00, <1>000 DEF StartFails, HandlerFails
<1>11. CASE Raises(t) \/ InterruptRestore(t)
  BY <1>11, <1>0, <1>00, <1>000 DEF Raises, InterruptRestore, Reads, Executing
<1>12. ASSUME NEW again \in BOOLEAN, Interrupt(t, again)
       PROVE  SafeInv'
  BY <1>12, <1>0, <1>00, <1>000 DEF Interrupt
<1>13. CASE EntersRestoring(t)
  BY <1>13, <1>0, <1>00, <1>000 DEF EntersRestoring, Stamps
<1>14. QED
  BY <1>1, <1>2, <1>3, <1>4, <1>5, <1>6, <1>8, <1>9, <1>10, <1>11, <1>12, <1>13
     DEF TaskStep, Progress, Checkpoint, LastCheckpoint, Observe, LastObserve

\* OutputInv and RunningHasBeat hold in every reachable state.
THEOREM SafeInvariant == Spec => []SafeInv
<1>1. TypeInv /\ SafeInv /\ UNCHANGED vars => SafeInv'
  BY DEF SafeInv, OutputInv, RunningHasBeat, vars
<1>2. TypeInv /\ SafeInv /\ Next => SafeInv'
  BY OutsideSafe, WorkerSafe, TaskSafe DEF Next
<1>3. QED
  BY <1>1, <1>2, InitSafe, WellTyped, PTL DEF Spec

\* A job shown as complete has its output recorded, and its archive stored.
THEOREM CompleteIsStored == Spec => []CompleteHasArtifact
<1>1. SafeInv => CompleteHasArtifact
  BY DEF SafeInv, OutputInv, CompleteHasArtifact
<1>2. QED
  BY <1>1, SafeInvariant, PTL

-----------------------------------------------------------------------------
(* Cancellation: the only ways from working to publishing or finishing     *)
(* read the row in the very step that leaves.                              *)

LEMMA UncancelledStep ==
    ASSUME TypeInv, Next, NEW t \in Tasks, pc[t] = "working",
           pc'[t] \in {"publishing", "finishing"}
    PROVE  ~rows[own[t]].cancel_requested
<1> USE DEF TypeInv, TypeOK, rowVars, queueVars, taskVars, workerVars, Goto, Leaves
<1>1. ASSUME NEW j \in Jobs, ApiStep(j) \/ ReaperStep(j) \/ Ages(j)
      PROVE  FALSE
  BY <1>1 DEF ApiStep, ReaperStep, Create, CreateAgain, Enqueue, EnqueueFails, CancelRead,
              CancelWrite, ReapSelect, ReapWrite, Ages
<1>2. ASSUME WorkerStep
      PROVE  FALSE
  BY <1>2 DEF WorkerStep, WorkerDies, WorkerReady, WorkerStarts
<1>3. ASSUME NEW s \in Tasks, TaskStep(s)
      PROVE  ~rows[own[t]].cancel_requested
  <2>1. CASE s = t
    <3>1. CASE \E label \in {"working", "publishing", "finishing"} :
                  CheckpointTo(t, label) \/ ObserveTo(t, label)
      BY <3>1 DEF CheckpointTo, ObserveTo
    <3>2. CASE EntersRestoring(t)
      BY <3>2 DEF EntersRestoring
    <3>3. CASE Raises(t) \/ InterruptRestore(t)
      BY <3>3 DEF Raises, InterruptRestore
    <3>4. ASSUME NEW again \in BOOLEAN, Interrupt(t, again)
          PROVE  FALSE
      BY <3>4 DEF Interrupt
    <3>5. \/ \E label \in {"working", "publishing", "finishing"} :
                CheckpointTo(t, label) \/ ObserveTo(t, label)
          \/ EntersRestoring(t) \/ Raises(t) \/ InterruptRestore(t)
          \/ \E again \in BOOLEAN : Interrupt(t, again)
      BY <1>3, <2>1 DEF TaskStep, Progress, Checkpoint, LastCheckpoint, Observe, LastObserve,
         Deliver, Start, Publish, Finish, WriteCancelled, WriteFailed, WriteInterrupted,
         StartFails, HandlerFails
    <3>6. QED
      BY <3>1, <3>2, <3>3, <3>4, <3>5
  <2>2. CASE s # t
    <3>1. pc'[t] = pc[t]
      BY <1>3, <2>2 DEF TaskStep, Progress, Checkpoint, LastCheckpoint, Observe, LastObserve,
         CheckpointTo, ObserveTo, EntersRestoring, Raises, InterruptRestore, Interrupt,
         Deliver, Start, Publish, Finish, WriteCancelled, WriteFailed, WriteInterrupted,
         StartFails, HandlerFails
    <3>2. QED BY <3>1
  <2>3. QED BY <2>1, <2>2
<1>4. QED
  BY <1>1, <1>2, <1>3 DEF Next

\* Nothing is published, and no restore closed, for a job whose cancel was
\* committed before its last checkpoint.
THEOREM PublishesUncancelled == Spec => PublishesOnlyUncancelled
<1> DEFINE A == \A t \in Tasks : pc[t] = "working" /\ pc'[t] \in {"publishing", "finishing"}
                  => ~rows[own[t]].cancel_requested
<1>1. TypeInv /\ Next => A
  BY UncancelledStep
<1>2. TypeInv /\ [Next]_vars => [A]_vars
  BY <1>1
<1>3. QED
  BY <1>2, WellTyped, PTL DEF Spec, PublishesOnlyUncancelled

-----------------------------------------------------------------------------
(* Refinement: every step of the sessions is a step of the promise, or     *)
(* changes nothing the promise speaks of.                                  *)

Offered == {j \in Jobs : rows[j].output}
Requested == {j \in Jobs : rows[j].cancel_requested}
Kept == UNCHANGED <<artifacts, Offered, Requested>>

LEMMA OutsidePromise ==
    ASSUME TypeInv, NEW j \in Jobs, ApiStep(j) \/ ReaperStep(j) \/ Ages(j)
    PROVE  \/ Kept
           \/ Requested' = Requested \cup {j} /\ UNCHANGED <<artifacts, Offered>>
<1> USE DEF rowVars, queueVars, taskVars, workerVars, Kept, Offered, Requested
<1>0. rows \in [Jobs -> Row]
  BY DEF TypeInv, TypeOK
<1>1. CASE Create(j)
  <2>1. rows' = [rows EXCEPT ![j].status = "queued"] /\ UNCHANGED artifacts
    BY <1>1 DEF Create
  <2>2. \A k \in Jobs : /\ rows'[k].output = rows[k].output
                        /\ rows'[k].cancel_requested = rows[k].cancel_requested
    BY <2>1, <1>0 DEF Row
  <2>3. QED
    BY <2>1, <2>2
<1>2. CASE \/ CreateAgain(j) \/ Enqueue(j) \/ EnqueueFails(j) \/ CancelRead(j)
           \/ ReapSelect(j) \/ Ages(j)
  BY <1>2 DEF CreateAgain, Enqueue, EnqueueFails, CancelRead, ReapSelect, Ages
<1>3. CASE CancelWrite(j)
  <2>1. /\ rows' = [rows EXCEPT ![j] = CancelOf(rows[j], cancelView[j])]
        /\ UNCHANGED artifacts
    BY <1>3 DEF CancelWrite
  <2>2. /\ \A k \in Jobs : rows'[k].output = rows[k].output
        /\ \A k \in Jobs : k # j => rows'[k].cancel_requested = rows[k].cancel_requested
        /\ rows'[j].cancel_requested
    BY <2>1, <1>0, VerdictColumns
  <2>3. Requested' = Requested \cup {j}
    BY <2>2
  <2>4. QED
    BY <2>1, <2>2, <2>3
<1>4. CASE ReapWrite(j)
  <2>1. /\ rows' = [rows EXCEPT ![j] = ReapOf(rows[j], reapView[j])]
        /\ UNCHANGED artifacts
    BY <1>4 DEF ReapWrite
  <2>2. \A k \in Jobs : /\ rows'[k].output = rows[k].output
                        /\ rows'[k].cancel_requested = rows[k].cancel_requested
    BY <2>1, <1>0, VerdictColumns
  <2>3. QED
    BY <2>1, <2>2
<1>5. QED
  BY <1>1, <1>2, <1>3, <1>4 DEF ApiStep, ReaperStep

LEMMA TaskPromise ==
    ASSUME TypeInv, SafeInv, NEW t \in Tasks, TaskStep(t)
    PROVE  \/ Kept
           \/ \E j \in Jobs : artifacts' = artifacts \cup {j} /\ UNCHANGED <<Offered, Requested>>
           \/ \E j \in Jobs : /\ j \in artifacts \cup Restores
                              /\ Offered' = Offered \cup {j}
                              /\ UNCHANGED <<artifacts, Requested>>
<1> USE DEF rowVars, queueVars, taskVars, workerVars, Kept, Offered, Requested
<1>0. pc[t] # "idle" => own[t] \in Jobs
  BY DEF TypeInv, Owns
<1>000. rows \in [Jobs -> Row] /\ mem \in [Tasks -> Row]
  BY DEF TypeInv, TypeOK
<1>1. ASSUME NEW new, pc[t] # "idle", Commits(t, new), UNCHANGED artifacts,
             new.output = mem[t].output, new.cancel_requested = mem[t].cancel_requested
      PROVE  Kept
  <2>1. \A k \in Jobs : /\ rows'[k].output = rows[k].output
                        /\ rows'[k].cancel_requested = rows[k].cancel_requested
    BY <1>1, PlainCommit
  <2>2. QED
    BY <1>1, <2>1
<1>2. CASE Start(t)
  <2> DEFINE new == [mem[t] EXCEPT !.status = "running", !.error = "none"]
  <2>1. /\ new.output = mem[t].output
        /\ new.cancel_requested = mem[t].cancel_requested
    BY <1>000 DEF Row
  <2>2. QED
    BY <1>2, <2>1, <1>1 DEF Start
<1>3. CASE WriteCancelled(t)
  <2> DEFINE new == [mem[t] EXCEPT !.status = "cancelled"]
  <2>1. /\ new.output = mem[t].output
        /\ new.cancel_requested = mem[t].cancel_requested
    BY <1>000 DEF Row
  <2>2. QED
    BY <1>3, <2>1, <1>1 DEF WriteCancelled
<1>4. ASSUME NEW again \in BOOLEAN, WriteFailed(t) \/ WriteInterrupted(t, again)
      PROVE  Kept
  <2> DEFINE new == [mem[t] EXCEPT !.status = "failed", !.error = "raised"]
  <2>1. /\ new.output = mem[t].output
        /\ new.cancel_requested = mem[t].cancel_requested
    BY <1>000 DEF Row
  <2>2. QED
    BY <1>4, <2>1, <1>1 DEF WriteFailed, WriteInterrupted
<1>5. CASE Finish(t)
  <2> DEFINE new == [mem[t] EXCEPT !.status = "complete", !.error = "none", !.output = TRUE]
  <2>1. new.output = TRUE /\ new.cancel_requested = mem[t].cancel_requested
    BY <1>000 DEF Row
  <2>2. Commits(t, new) /\ pc[t] = "finishing" /\ UNCHANGED artifacts
    BY <1>5 DEF Finish
  <2> HIDE DEF new
  <2>3. own[t] \in Jobs /\ own[t] \in artifacts \cup Restores
    BY <2>2, <1>0 DEF SafeInv, OutputInv, Jobs
  <2>4. \A k \in Jobs :
           /\ rows'[k].cancel_requested = rows[k].cancel_requested
           /\ k # own[t] => rows'[k].output = rows[k].output
           /\ k = own[t] => rows'[k].output
    <3>1. TAKE k \in Jobs
    <3>2. rows[k].output \in BOOLEAN
      BY <1>000 DEF Row
    <3>3. mem[t].output => rows[own[t]].output
      BY <2>2 DEF SafeInv, OutputInv
    <3>4. QED
      BY <2>1, <2>2, <3>2, <3>3, CommitColumns DEF Written
  <2>5. Offered' = Offered \cup {own[t]} /\ UNCHANGED Requested
    BY <2>3, <2>4
  <2>6. QED
    BY <2>2, <2>3, <2>5
<1>6. CASE Publish(t)
  BY <1>6, <1>0 DEF Publish
<1>7. ASSUME NEW again \in BOOLEAN, Interrupt(t, again)
      PROVE  Kept
  BY <1>7 DEF Interrupt
<1>8. ASSUME NEW j \in Jobs, Deliver(t, j)
      PROVE  Kept
  BY <1>8 DEF Deliver
<1>9. CASE \/ Checkpoint(t) \/ LastCheckpoint(t) \/ Observe(t) \/ LastObserve(t)
           \/ EntersRestoring(t) \/ StartFails(t) \/ Raises(t) \/ HandlerFails(t)
           \/ InterruptRestore(t)
  BY <1>9 DEF Checkpoint, LastCheckpoint, CheckpointTo, Observe, LastObserve, ObserveTo,
     EntersRestoring, StartFails, Raises, HandlerFails, InterruptRestore
<1>10. QED
  BY <1>2, <1>3, <1>4, <1>5, <1>6, <1>7, <1>8, <1>9 DEF TaskStep, Progress

\* The table of jobs keeps its promise: an archive is offered once stored, and
\* no session's stale copy takes back an offer, an archive or a cancel request.
THEOREM PromiseKept == Spec => KeepsPromise
<1>1. Init => Promise!PInit
  BY DEF Init, Promise!PInit, NoRow
<1>2. ASSUME TypeInv, SafeInv, Next
      PROVE  [Promise!PNext]_(Promise!pvars)
  <2>1. ASSUME NEW j \in Jobs, ApiStep(j) \/ ReaperStep(j) \/ Ages(j)
        PROVE  [Promise!PNext]_(Promise!pvars)
    BY <1>2, <2>1, OutsidePromise
       DEF Kept, Offered, Requested, Promise!PNext, Promise!RequestCancel, Promise!pvars
  <2>2. ASSUME NEW t \in Tasks, TaskStep(t)
        PROVE  [Promise!PNext]_(Promise!pvars)
    BY <1>2, <2>2, TaskPromise
       DEF Kept, Offered, Requested, Promise!PNext, Promise!Store, Promise!Offer, Promise!pvars
  <2>3. ASSUME WorkerStep
        PROVE  UNCHANGED <<rows, artifacts>>
    BY <2>3 DEF WorkerStep, WorkerDies, WorkerReady, WorkerStarts, rowVars
  <2>4. QED
    BY <1>2, <2>1, <2>2, <2>3 DEF Next, Promise!pvars
<1>3. UNCHANGED vars => UNCHANGED Promise!pvars
  BY DEF vars, Promise!pvars
<1>4. TypeInv /\ SafeInv /\ [Next]_vars => [Promise!PNext]_(Promise!pvars)
  BY <1>2, <1>3
<1>5. QED
  BY <1>1, <1>4, WellTyped, SafeInvariant, PTL DEF Spec, KeepsPromise, Promise!PSpec

-----------------------------------------------------------------------------
(* Rows that are enqueued once.  arq hands on the one delivery of a row    *)
(* that is not an automated backup: it waits to be sent, waits in the      *)
(* queue or is executed, and never two of these at a time.                 *)

ExecutedOnce(j) ==
    /\ deliveries[j] <= 1
    /\ rows[j].status = "absent" => j \notin unsent /\ deliveries[j] = 0
    /\ rows[j].status = "absent" \/ j \in unsent \/ deliveries[j] = 1 =>
          \A t \in Tasks : own[t] # j
    /\ j \in unsent => deliveries[j] = 0
    /\ \A s, t \in Tasks : own[s] = j /\ own[t] = j => s = t

Once == \A j \in Jobs \ Automated : ExecutedOnce(j)

\* A row that is there stays there: no commit writes "absent".
LEMMA RowsStay ==
    ASSUME TypeInv, Next, NEW k \in Jobs, rows[k].status # "absent"
    PROVE  rows'[k].status # "absent"
<1> USE DEF rowVars, queueVars, taskVars, workerVars
<1>0. rows \in [Jobs -> Row] /\ mem \in [Tasks -> Row]
  BY DEF TypeInv, TypeOK
<1>1. ASSUME NEW j \in Jobs, ApiStep(j) \/ ReaperStep(j) \/ Ages(j)
      PROVE  rows'[k].status # "absent"
  <2>1. CASE CancelWrite(j)
    BY <1>0, <2>1, VerdictColumns DEF CancelWrite
  <2>2. CASE ReapWrite(j)
    BY <1>0, <2>2, VerdictColumns DEF ReapWrite
  <2>3. CASE Create(j)
    BY <1>0, <2>3 DEF Create
  <2> QED
    BY <1>1, <2>1, <2>2, <2>3 DEF ApiStep, ReaperStep, CreateAgain, Enqueue, EnqueueFails,
       CancelRead, ReapSelect, Ages
<1>2. ASSUME NEW t \in Tasks, TaskStep(t)
      PROVE  rows'[k].status # "absent"
  <2>1. CASE rows' = rows
    BY <2>1
  <2>2. ASSUME NEW new, pc[t] # "idle", Commits(t, new), new.status # "absent"
        PROVE  rows'[k].status # "absent"
    BY <2>2, CommitColumns DEF Written
  <2>3. CASE Start(t)
    BY <1>0, <2>2, <2>3 DEF Start, Row
  <2>4. CASE Finish(t)
    BY <1>0, <2>2, <2>4 DEF Finish, Row
  <2>5. CASE WriteCancelled(t)
    BY <1>0, <2>2, <2>5 DEF WriteCancelled, Row
  <2>6. CASE WriteFailed(t) \/ \E again \in BOOLEAN : WriteInterrupted(t, again)
    BY <1>0, <2>2, <2>6 DEF WriteFailed, WriteInterrupted, Row
  <2> QED
    BY <1>2, <2>1, <2>3, <2>4, <2>5, <2>6 DEF TaskStep, Progress, Deliver, Checkpoint,
       LastCheckpoint, CheckpointTo, Observe, LastObserve, ObserveTo, EntersRestoring,
       StartFails, Raises, HandlerFails, InterruptRestore, Interrupt, Publish
<1>3. CASE WorkerStep
  BY <1>3 DEF WorkerStep, WorkerDies, WorkerReady, WorkerStarts
<1> QED BY <1>1, <1>2, <1>3 DEF Next

LEMMA OnceStep ==
    ASSUME TypeInv, Once, Next, NEW k \in Jobs \ Automated
    PROVE  ExecutedOnce(k)'
<1> USE DEF rowVars, queueVars, taskVars, workerVars
<1>0. /\ rows \in [Jobs -> Row] /\ unsent \subseteq Jobs /\ deliveries \in [Jobs -> Nat]
      /\ own \in [Tasks -> Jobs \cup {NoJob}] /\ NoJob \notin Jobs /\ k \in Jobs
      /\ \A t \in Tasks : pc[t] # "idle" => own[t] \in Jobs
  BY JobsAssumption DEF TypeInv, TypeOK, Owns
<1>1. ExecutedOnce(k)
  BY DEF Once
<1>2. rows[k].status # "absent" => rows'[k].status # "absent"
  BY <1>0, RowsStay
<1>3. ASSUME NEW j \in Jobs, ApiStep(j) \/ ReaperStep(j) \/ Ages(j)
      PROVE  ExecutedOnce(k)'
  <2>1. CASE Create(j)
    BY <1>0, <1>1, <2>1 DEF Create, ExecutedOnce, Row
  <2>2. CASE CreateAgain(j)
    BY <1>0, <1>1, <1>2, <2>2 DEF CreateAgain, ExecutedOnce
  <2>3. CASE Enqueue(j)
    <3>1. CASE j = k
      BY <1>0, <1>1, <1>2, <2>3, <3>1 DEF Enqueue, ExecutedOnce
    <3>2. CASE j # k
      BY <1>0, <1>1, <1>2, <2>3, <3>2 DEF Enqueue, ExecutedOnce
    <3> QED BY <3>1, <3>2
  <2>4. CASE EnqueueFails(j)
    BY <1>0, <1>1, <1>2, <2>4 DEF EnqueueFails, ExecutedOnce
  <2>5. CASE CancelRead(j) \/ CancelWrite(j) \/ ReapSelect(j) \/ ReapWrite(j) \/ Ages(j)
    <3>1. UNCHANGED <<unsent, deliveries, own>>
      BY <2>5 DEF CancelRead, CancelWrite, ReapSelect, ReapWrite, Ages
    <3> QED BY <1>0, <1>1, <1>2, <3>1 DEF ExecutedOnce
  <2> QED BY <1>3, <2>1, <2>2, <2>3, <2>4, <2>5 DEF ApiStep, ReaperStep
<1>4. ASSUME NEW t \in Tasks, UNCHANGED unsent,
             own' = [own EXCEPT ![t] = NoJob],
             \/ UNCHANGED deliveries
             \/ own[t] \in Jobs /\ deliveries' = [deliveries EXCEPT ![own[t]] = @ + 1]
      PROVE  ExecutedOnce(k)'
  <2>1. \A s \in Tasks : own'[s] = k => own[s] = k /\ s # t
    BY <1>0, <1>4
  <2>2. CASE own[t] = k
    BY <1>0, <1>1, <1>2, <1>4, <2>1, <2>2 DEF ExecutedOnce
  <2>3. CASE own[t] # k
    <3>1. deliveries'[k] = deliveries[k]
      BY <1>0, <1>4, <2>3
    <3> QED BY <1>1, <1>2, <1>4, <2>1, <3>1 DEF ExecutedOnce
  <2> QED BY <2>2, <2>3
<1>5. ASSUME NEW t \in Tasks, TaskStep(t)
      PROVE  ExecutedOnce(k)'
  <2>1. ASSUME NEW j \in Jobs, Deliver(t, j)
        PROVE  ExecutedOnce(k)'
    <3>1. /\ deliveries[j] > 0 /\ deliveries' = [deliveries EXCEPT ![j] = @ - 1]
          /\ UNCHANGED unsent
          /\ UNCHANGED own \/ own' = [own EXCEPT ![t] = j]
      BY <2>1 DEF Deliver
    <3>2. CASE j = k
      <4>1. /\ deliveries[k] = 1 /\ deliveries'[k] = 0 /\ k \notin unsent
            /\ rows[k].status # "absent" /\ \A s \in Tasks : own[s] # k
        BY <1>0, <1>1, <3>1, <3>2 DEF ExecutedOnce
      <4>2. \A s \in Tasks : own'[s] = k => s = t
        BY <1>0, <3>1, <4>1
      <4> QED BY <1>2, <3>1, <4>1, <4>2 DEF ExecutedOnce
    <3>3. CASE j # k
      <4>1. deliveries'[k] = deliveries[k]
        BY <1>0, <3>1, <3>3
      <4>2. \A s \in Tasks : own'[s] = k => own[s] = k
        BY <1>0, <3>1, <3>3
      <4> QED BY <1>1, <1>2, <3>1, <4>1, <4>2 DEF ExecutedOnce
    <3> QED BY <3>2, <3>3
  <2>2. CASE UNCHANGED <<unsent, deliveries, own>>
    BY <1>1, <1>2, <2>2 DEF ExecutedOnce
  <2>3. CASE StartFails(t) \/ Finish(t) \/ WriteCancelled(t) \/ WriteFailed(t) \/ HandlerFails(t)
    BY <1>4, <2>3 DEF StartFails, Finish, WriteCancelled, WriteFailed, HandlerFails, Leaves
  <2>4. ASSUME NEW again \in BOOLEAN, WriteInterrupted(t, again) \/ Interrupt(t, again)
        PROVE  ExecutedOnce(k)'
    <3>1. own[t] \in Jobs
      BY <1>0, <2>4 DEF WriteInterrupted, Interrupt
    <3> QED BY <1>4, <2>4, <3>1 DEF WriteInterrupted, Interrupt, Leaves, Redelivers
  <2> QED
    BY <1>5, <2>1, <2>2, <2>3, <2>4 DEF TaskStep, Progress, Start, Checkpoint, LastCheckpoint,
       CheckpointTo, Observe, LastObserve, ObserveTo, EntersRestoring, Raises,
       InterruptRestore, Publish
<1>6. CASE WorkerStep
  <2>1. CASE WorkerDies
    <3>1. /\ deliveries'[k] = deliveries[k] + Cardinality(InFlight(k))
          /\ UNCHANGED <<rows, unsent>> /\ \A t \in Tasks : own'[t] = NoJob
      BY <1>0, <2>1 DEF WorkerDies
    <3>2. CASE InFlight(k) = {}
      BY <1>0, <1>1, <3>1, <3>2, FS_EmptySet DEF ExecutedOnce
    <3>3. ASSUME NEW t \in InFlight(k) PROVE ExecutedOnce(k)'
      <4>1. InFlight(k) = {t}
        BY <1>1, <3>3 DEF ExecutedOnce, InFlight
      <4>2. Cardinality(InFlight(k)) = 1
        BY <4>1, FS_Singleton
      <4>3. deliveries[k] = 0 /\ k \notin unsent /\ rows[k].status # "absent"
        BY <1>0, <1>1, <3>3 DEF ExecutedOnce, InFlight
      <4> QED BY <1>0, <3>1, <4>2, <4>3 DEF ExecutedOnce
    <3> QED BY <3>2, <3>3
  <2>2. CASE UNCHANGED <<unsent, deliveries, own>>
    BY <1>1, <1>2, <2>2 DEF ExecutedOnce
  <2> QED BY <1>6, <2>1, <2>2 DEF WorkerStep, WorkerReady, WorkerStarts
<1> QED BY <1>3, <1>5, <1>6 DEF Next

LEMMA OnceHolds == Spec => []Once
<1>1. Init => Once
  BY JobsAssumption DEF Init, Once, ExecutedOnce, NoRow
<1>2. TypeInv /\ Once /\ [Next]_vars => Once'
  <2>1. TypeInv /\ Once /\ Next => Once'
    BY OnceStep DEF Once
  <2>2. Once /\ UNCHANGED vars => Once'
    BY DEF Once, ExecutedOnce, vars
  <2> QED BY <2>1, <2>2
<1> QED BY <1>1, <1>2, WellTyped, PTL DEF Spec

\* One worker never executes a row twice at once, unless it is an automated
\* backup that was enqueued again (modules/backup/automated.py:92).
THEOREM ExecutesOnce == Spec => []OneExecution
<1>1. Once => OneExecution
  BY DEF Once, ExecutedOnce, OneExecution
<1> QED BY <1>1, OnceHolds, PTL

-----------------------------------------------------------------------------
(* Why a row failed.  The reaper gives its reason only if the column does  *)
(* not hold it already, and a commit names a column only if its copy       *)
(* differs: both are right as long as a running row carries no error, and  *)
(* as long as one coroutine at a time takes the row on.                    *)

\* A coroutine that has read its row and has not yet made it running.
Loaded(t, j) ==
    /\ mem[t].status \in {"queued", "running", "failed"}
    /\ mem[t].status = "queued" =>
          /\ rows[j].status \in {"queued", "cancelled"} /\ rows[j].error = "none"
          /\ reapView[j] = "none"
    /\ mem[t].status # "queued" => rows[j].status \notin {"absent", "queued"}
    /\ (mem[t].error = "none") <=> (mem[t].status # "failed")

\* A coroutine about to say why it failed.
Giving(t, j) ==
    /\ mem[t].error = "raised" => rows[j].error # "none"
    /\ mem[t].status = "failed" => rows[j].status # "running"

Executes(t, j) ==
    /\ rows[j].status # "complete" /\ mem[t].status # "complete"
    /\ pc[t] = "loaded" => Loaded(t, j)
    /\ pc[t] # "loaded" => rows[j].status \notin {"absent", "queued"}
    /\ pc[t] \in {"failing", "interrupted"} => Giving(t, j)

ReasonKept(j) ==
    /\ rows[j].status = "running" => rows[j].error = "none"
    /\ rows[j].status = "failed" => rows[j].error # "none"
    /\ reapView[j] # "fail_again"
    /\ rows[j].status \in {"absent", "queued"} =>
          reapView[j] = "none" /\ rows[j].error = "none"
    /\ \A t \in Tasks : own[t] = j /\ pc[t] # "idle" => Executes(t, j)

Reasons == \A j \in Jobs \ Automated : ReasonKept(j)

\* Steps of the API, the reaper and the clock.
LEMMA OutsideReasons ==
    ASSUME TypeInv, Once, Reasons, NEW k \in Jobs \ Automated,
           NEW j \in Jobs, ApiStep(j) \/ ReaperStep(j) \/ Ages(j)
    PROVE  ReasonKept(k)'
<1> USE DEF rowVars, queueVars, taskVars, workerVars
<1>0. /\ rows \in [Jobs -> Row] /\ reapView \in [Jobs -> ReapViews] /\ k \in Jobs
      /\ rows[k] \in Row
  BY DEF TypeInv, TypeOK
<1>1. ReasonKept(k) /\ ExecutedOnce(k)
  BY DEF Reasons, Once
<1>2. CASE UNCHANGED <<rows, reapView, pc, own, mem>>
  BY <1>1, <1>2 DEF ReasonKept, Executes, Loaded, Giving
<1>3. CASE Create(j)
  <2>1. UNCHANGED <<reapView, pc, own, mem>>
    BY <1>3 DEF Create
  <2>2. CASE j = k
    <3>1. /\ rows[k].status = "absent" /\ rows'[k].status = "queued"
          /\ rows'[k].error = rows[k].error
      BY <1>0, <1>3, <2>2 DEF Create, Row
    <3>2. \A t \in Tasks : own[t] # k
      BY <1>1, <3>1 DEF ExecutedOnce
    <3> QED BY <1>1, <2>1, <3>1, <3>2 DEF ReasonKept
  <2>3. CASE j # k
    <3>1. rows'[k] = rows[k]
      BY <1>0, <1>3, <2>3 DEF Create
    <3> QED BY <1>1, <2>1, <3>1 DEF ReasonKept, Executes, Loaded, Giving
  <2> QED BY <2>2, <2>3
<1>4. CASE CancelWrite(j)
  <2>1. /\ UNCHANGED <<reapView, pc, own, mem>>
        /\ rows'[k].error = rows[k].error
        /\ rows'[k].status \in {rows[k].status, "cancelled"}
    BY <1>0, <1>4 DEF CancelWrite, CancelOf, Row
  <2> QED BY <1>1, <2>1 DEF ReasonKept, Executes, Loaded, Giving
<1>5. CASE ReapSelect(j)
  <2>1. /\ UNCHANGED <<rows, pc, own, mem>>
        /\ \/ reapView'[k] = reapView[k]
           \/ rows[k].status = "running" /\ reapView'[k] = ReapViewOf(rows[k])
    BY <1>0, <1>5 DEF ReapSelect
  <2> QED BY <1>1, <2>1 DEF ReasonKept, Executes, Loaded, Giving, ReapViewOf
<1>6. CASE ReapWrite(j)
  <2>1. CASE j # k
    <3>1. UNCHANGED <<pc, own, mem>> /\ rows'[k] = rows[k] /\ reapView'[k] = reapView[k]
      BY <1>0, <1>6, <2>1 DEF ReapWrite
    <3> QED BY <1>1, <3>1 DEF ReasonKept, Executes, Loaded, Giving
  <2>2. CASE j = k
    <3>1. /\ UNCHANGED <<pc, own, mem>> /\ reapView'[k] = "none"
          /\ reapView[k] \in {"fail", "cancel"}
          /\ rows'[k] = ReapOf(rows[k], reapView[k])
      BY <1>0, <1>1, <1>6, <2>2 DEF ReapWrite, ReapViews, ReasonKept
    <3>2. /\ reapView[k] = "fail" => rows'[k].status = "failed" /\ rows'[k].error = "reaped"
          /\ reapView[k] = "cancel" => /\ rows'[k].status = "cancelled"
                                       /\ rows'[k].error = rows[k].error
      BY <1>0, <3>1 DEF ReapOf, Row
    <3> QED BY <1>1, <3>1, <3>2 DEF ReasonKept, Executes, Loaded, Giving
  <2> QED BY <2>1, <2>2
<1>7. CASE \/ CreateAgain(j) \/ Enqueue(j) \/ EnqueueFails(j) \/ CancelRead(j) \/ Ages(j)
  BY <1>2, <1>7 DEF CreateAgain, Enqueue, EnqueueFails, CancelRead, Ages
<1> QED BY <1>3, <1>4, <1>5, <1>6, <1>7 DEF ApiStep, ReaperStep

LEMMA WorkerReasons ==
    ASSUME TypeInv, Reasons, WorkerStep, NEW k \in Jobs \ Automated
    PROVE  ReasonKept(k)'
<1> USE DEF rowVars, queueVars, taskVars, workerVars
<1>1. ReasonKept(k) /\ k \in Jobs
  BY DEF Reasons
<1>2. CASE WorkerDies
  BY <1>1, <1>2 DEF WorkerDies, ReasonKept, Executes
<1>3. CASE WorkerReady
  BY <1>1, <1>3 DEF WorkerReady, ReasonKept, Executes, Loaded, Giving
<1>4. ASSUME NEW reaps \in BOOLEAN, WorkerStarts(reaps)
      PROVE  ReasonKept(k)'
  <2>1. /\ UNCHANGED <<rows, pc, own, mem>>
        /\ \/ reapView'[k] = "none"
           \/ rows[k].status = "running" /\ reapView'[k] = ReapViewOf(rows[k])
    BY <1>1, <1>4 DEF WorkerStarts
  <2> QED BY <1>1, <2>1 DEF ReasonKept, Executes, Loaded, Giving, ReapViewOf
<1> QED BY <1>2, <1>3, <1>4 DEF WorkerStep

\* A coroutine's step says nothing of a row it does not execute.
LEMMA TaskReasons ==
    ASSUME TypeInv, Once, Reasons, NEW t \in Tasks, TaskStep(t), NEW k \in Jobs \ Automated
    PROVE  ReasonKept(k)'
<1> USE DEF rowVars, queueVars, taskVars, workerVars, Goto
<1>0. /\ rows \in [Jobs -> Row] /\ mem \in [Tasks -> Row] /\ pc \in [Tasks -> PCs]
      /\ own \in [Tasks -> Jobs \cup {NoJob}] /\ NoJob \notin Jobs /\ k \in Jobs
      /\ \A s \in Tasks : pc[s] # "idle" => own[s] \in Jobs
      /\ rows[k] \in Row /\ mem[t] \in Row
  BY JobsAssumption DEF TypeInv, TypeOK, Owns
<1>1. ReasonKept(k) /\ ExecutedOnce(k)
  BY DEF Reasons, Once
<1>2. UNCHANGED reapView /\ \A s \in Tasks \ {t} : /\ pc'[s] = pc[s] /\ own'[s] = own[s]
                                                  /\ mem'[s] = mem[s]
  BY <1>0 DEF TaskStep, Progress, Deliver, Start, Checkpoint, LastCheckpoint, CheckpointTo,
     Observe, LastObserve, ObserveTo, Publish, Finish, WriteCancelled, WriteFailed,
     WriteInterrupted, EntersRestoring, StartFails, Raises, HandlerFails, InterruptRestore,
     Interrupt, Leaves, Reads
\* The row as a whole is as it was, and the coroutine is idle or as it should be.
<1>3. ASSUME rows'[k] = rows[k], own'[t] = k /\ pc'[t] # "idle" => Executes(t, k)'
      PROVE  ReasonKept(k)'
  <2>1. ASSUME NEW s \in Tasks, own'[s] = k, pc'[s] # "idle", s # t
        PROVE  Executes(s, k)'
    BY <1>1, <1>2, <1>3, <2>1 DEF ReasonKept, Executes, Loaded, Giving
  <2> QED BY <1>1, <1>2, <1>3, <2>1 DEF ReasonKept
<1>4. ASSUME NEW new, pc[t] # "idle", Commits(t, new), own[t] # k,
             own'[t] = k => pc'[t] = "idle"
      PROVE  ReasonKept(k)'
  BY <1>0, <1>3, <1>4, CommitColumns
\* No other coroutine has the row.
<1>5. ASSUME own[t] = k PROVE \A s \in Tasks \ {t} : own'[s] # k
  BY <1>1, <1>2, <1>5 DEF ExecutedOnce
<1>6. ASSUME own[t] = k, pc[t] # "idle" PROVE Executes(t, k)
  BY <1>1, <1>6 DEF ReasonKept
<1>7. ASSUME NEW j \in Jobs, Deliver(t, j)
      PROVE  ReasonKept(k)'
  <2>1. /\ UNCHANGED rows
        /\ \/ UNCHANGED <<pc, own, mem>>
           \/ /\ rows[j].status \in {"queued", "running", "failed"}
              /\ pc'[t] = "loaded" /\ own'[t] = j /\ mem'[t] = rows[j]
    BY <1>0, <1>7 DEF Deliver, Reads
  <2>2. CASE UNCHANGED <<pc, own, mem>>
    BY <1>1, <1>2, <2>1, <2>2 DEF ReasonKept, Executes, Loaded, Giving
  <2>3. CASE j # k /\ own'[t] = j
    BY <1>3, <2>1, <2>3
  <2>4. CASE /\ j = k /\ rows[k].status \in {"queued", "running", "failed"}
             /\ pc'[t] = "loaded" /\ mem'[t] = rows[k]
    <3>1. Executes(t, k)'
      BY <1>1, <1>2, <2>1, <2>4 DEF ReasonKept, Executes, Loaded, Giving
    <3> QED BY <1>3, <2>1, <3>1
  <2> QED BY <2>1, <2>2, <2>3, <2>4
<1>8. CASE Start(t)
  <2> DEFINE new == [mem[t] EXCEPT !.status = "running", !.error = "none"]
  <2>1. new.status = "running" /\ new.error = "none"
    BY <1>0 DEF Row
  <2>2. /\ Commits(t, new) /\ pc[t] = "loaded" /\ pc'[t] = "working" /\ mem'[t] = new
        /\ own' = own
    BY <1>0, <1>8 DEF Start
  <2> HIDE DEF new
  <2>3. CASE own[t] # k
    BY <1>4, <2>2, <2>3
  <2>4. CASE own[t] = k
    <3>1. Executes(t, k)
      BY <1>6, <2>2, <2>4
    <3>2. /\ rows'[k].status = Written(rows[k].status, mem[t].status, "running")
          /\ rows'[k].error = Written(rows[k].error, mem[t].error, "none")
      BY <1>0, <2>1, <2>2, <2>4, CommitColumns
    <3>3. Loaded(t, k) /\ rows[k].status # "complete"
      BY <2>2, <3>1 DEF Executes
    <3>4. \/ rows'[k].status = "running" /\ rows'[k].error = "none"
          \/ /\ rows'[k].status = rows[k].status /\ rows'[k].error = rows[k].error
             /\ rows[k].status \notin {"absent", "queued"}
      BY <3>2, <3>3 DEF Loaded, Written
    <3>5. Executes(t, k)'
      BY <2>1, <2>2, <3>3, <3>4 DEF Executes
    <3> QED BY <1>1, <1>2, <1>5, <2>4, <3>4, <3>5 DEF ReasonKept
  <2> QED BY <2>3, <2>4
<1>9. ASSUME NEW label \in {"working", "publishing", "finishing", "cancelling", "failing",
                            "interrupted"},
             rows' = rows, own' = own, pc[t] \notin {"idle", "loaded"},
             pc' = [pc EXCEPT ![t] = label], mem' = [mem EXCEPT ![t] = rows[own[t]]]
      PROVE  ReasonKept(k)'
  <2>1. ASSUME own[t] = k PROVE Executes(t, k)'
    <3>1. Executes(t, k) /\ mem'[t] = rows[k] /\ pc'[t] = label
      BY <1>0, <1>6, <1>9, <2>1
    <3> QED BY <1>9, <3>1 DEF Executes, Giving
  <2> QED BY <1>3, <1>9, <2>1
<1>10. CASE \/ Checkpoint(t) \/ LastCheckpoint(t) \/ Observe(t) \/ LastObserve(t)
            \/ Raises(t) \/ InterruptRestore(t)
  <2>1. \E label \in {"working", "publishing", "finishing", "cancelling", "failing",
                      "interrupted"} : pc' = [pc EXCEPT ![t] = label]
    BY <1>10 DEF Checkpoint, LastCheckpoint, CheckpointTo, Observe, LastObserve, ObserveTo,
       Raises, InterruptRestore
  <2>2. /\ rows' = rows /\ own' = own /\ pc[t] \notin {"idle", "loaded"}
        /\ mem' = [mem EXCEPT ![t] = rows[own[t]]]
    BY <1>10 DEF Checkpoint, LastCheckpoint, CheckpointTo, Observe, LastObserve, ObserveTo,
       Raises, InterruptRestore, Reads, Executing
  <2> QED BY <1>9, <2>1, <2>2
<1>11. CASE Publish(t) \/ EntersRestoring(t)
  <2>1. /\ rows' = rows /\ own' = own /\ mem' = mem /\ pc[t] \in {"working", "publishing"}
        /\ pc'[t] \in {"working", "finishing"}
    BY <1>0, <1>11 DEF Publish, EntersRestoring
  <2>2. ASSUME own[t] = k PROVE Executes(t, k)'
    BY <1>6, <2>1, <2>2 DEF Executes
  <2> QED BY <1>3, <2>1, <2>2
<1>12. CASE Finish(t)
  <2> DEFINE new == [mem[t] EXCEPT !.status = "complete", !.error = "none", !.output = TRUE]
  <2>1. new.status = "complete"
    BY <1>0 DEF Row
  <2>2. Commits(t, new) /\ pc[t] = "finishing" /\ pc'[t] = "idle" /\ own'[t] = NoJob
    BY <1>0, <1>12 DEF Finish, Leaves
  <2> HIDE DEF new
  <2>3. CASE own[t] # k
    BY <1>4, <2>2, <2>3
  <2>4. CASE own[t] = k
    <3>1. rows'[k].status = "complete"
      BY <1>0, <1>6, <2>1, <2>2, <2>4, CommitColumns DEF Written, Executes
    <3> QED BY <1>1, <1>2, <1>5, <2>2, <2>4, <3>1 DEF ReasonKept
  <2> QED BY <2>3, <2>4
<1>13. CASE WriteCancelled(t)
  <2> DEFINE new == [mem[t] EXCEPT !.status = "cancelled"]
  <2>1. new.status = "cancelled" /\ new.error = mem[t].error
    BY <1>0 DEF Row
  <2>2. Commits(t, new) /\ pc[t] = "cancelling" /\ pc'[t] = "idle" /\ own'[t] = NoJob
    BY <1>0, <1>13 DEF WriteCancelled, Leaves
  <2> HIDE DEF new
  <2>3. CASE own[t] # k
    BY <1>4, <2>2, <2>3
  <2>4. CASE own[t] = k
    <3>1. /\ rows'[k].status \in {rows[k].status, "cancelled"}
          /\ rows'[k].error = rows[k].error
      BY <1>0, <2>1, <2>2, <2>4, CommitColumns DEF Written
    <3> QED BY <1>1, <1>2, <1>5, <2>2, <2>4, <3>1 DEF ReasonKept
  <2> QED BY <2>3, <2>4
<1>14. ASSUME NEW again \in BOOLEAN, WriteFailed(t) \/ WriteInterrupted(t, again)
       PROVE  ReasonKept(k)'
  <2> DEFINE new == [mem[t] EXCEPT !.status = "failed", !.error = "raised"]
  <2>1. new.status = "failed" /\ new.error = "raised"
    BY <1>0 DEF Row
  <2>2. /\ Commits(t, new) /\ pc[t] \in {"failing", "interrupted"} /\ pc'[t] = "idle"
        /\ own'[t] = NoJob
    BY <1>0, <1>14 DEF WriteFailed, WriteInterrupted, Leaves
  <2> HIDE DEF new
  <2>3. CASE own[t] # k
    BY <1>4, <2>2, <2>3
  <2>4. CASE own[t] = k
    <3>1. /\ rows'[k].status = Written(rows[k].status, mem[t].status, "failed")
          /\ rows'[k].error = Written(rows[k].error, mem[t].error, "raised")
      BY <1>0, <2>1, <2>2, <2>4, CommitColumns
    <3>2. Giving(t, k) /\ rows[k].status \notin {"absent", "queued"}
      BY <1>6, <2>2, <2>4 DEF Executes
    <3>3. /\ rows'[k].error # "none"
          /\ rows'[k].status \notin {"absent", "queued", "running"}
      BY <3>1, <3>2 DEF Written, Giving
    <3> QED BY <1>1, <1>2, <1>5, <2>2, <2>4, <3>3 DEF ReasonKept
  <2> QED BY <2>3, <2>4
<1>15. ASSUME NEW again \in BOOLEAN, StartFails(t) \/ HandlerFails(t) \/ Interrupt(t, again)
       PROVE  ReasonKept(k)'
  <2>1. rows' = rows /\ pc'[t] = "idle"
    BY <1>0, <1>15 DEF StartFails, HandlerFails, Interrupt, Leaves
  <2> QED BY <1>3, <2>1
<1> QED
  BY <1>7, <1>8, <1>10, <1>11, <1>12, <1>13, <1>14, <1>15 DEF TaskStep, Progress

LEMMA ReasonsHold == Spec => []Reasons
<1>1. Init => Reasons
  BY DEF Init, Reasons, ReasonKept, NoRow
<1>2. TypeInv /\ Once /\ Reasons /\ [Next]_vars => Reasons'
  <2>1. TypeInv /\ Once /\ Reasons /\ Next => Reasons'
    BY OutsideReasons, WorkerReasons, TaskReasons DEF Next, Reasons
  <2>2. Reasons /\ UNCHANGED vars => Reasons'
    BY DEF Reasons, ReasonKept, Executes, Loaded, Giving, vars
  <2> QED BY <2>1, <2>2
<1> QED BY <1>1, <1>2, WellTyped, OnceHolds, PTL DEF Spec

\* A failed row says why, unless it is an automated backup that two coroutines
\* execute at once (modules/backup/jobs.py:190, 547).
THEOREM FailuresSayWhy == Spec => []FailedSaysWhy
<1>1. Reasons => FailedSaysWhy
  BY DEF Reasons, ReasonKept, FailedSaysWhy
<1> QED BY <1>1, ReasonsHold, PTL
=============================================================================
