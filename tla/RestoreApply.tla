---------------------------- MODULE RestoreApply ----------------------------
(***************************************************************************)
(* Applying a restore: what BackupService.restore_full_package (modules/   *)
(* backup/service.py) writes to the database and to the object store while *)
(* the job of modules/backup/jobs.py goes on, is cancelled, fails, is      *)
(* interrupted or dies, and is executed or asked for again.                *)
(*                                                                         *)
(* A holder is a page, a user or an issue: what the archive brings files   *)
(* for.  A plain restore leaves the holders that exist alone and commits   *)
(* whenever it reports progress; one that overwrites works inside a        *)
(* savepoint and commits once.  The session's changes (tx) are seen by     *)
(* others when it commits; the store is not part of any transaction.       *)
(*                                                                         *)
(* Not modelled: spaces, groups, permissions and comments, which are in    *)
(* the same transaction; archives restored in part; the request that       *)
(* restores without a job; heartbeats (BackupJobs has them); a second      *)
(* restore beside one that goes on.                                        *)
(***************************************************************************)
EXTENDS Naturals

CONSTANTS
    Holders,
    NFiles, HolderOf,   \* the files of the archive, in its order, and whose they are
    Present,            \* holders that exist before, with the same files
    Repaired,           \* holders whose text names its files by ids of another instance
    Every,              \* a plain restore commits at every so many files, and at the last
    MaxTries,           \* bound: executions
    MaxJobs,            \* bound: restores asked for
    MaxFaults,          \* bound: errors, interruptions, deaths
    MaxEdits            \* bound: pages edited meanwhile

Files == 1 .. NFiles

ASSUME ArchiveAssumption ==
    /\ NFiles \in Nat \ {0} /\ Every \in Nat \ {0}
    /\ HolderOf \in [Files -> Holders]
    /\ Present \subseteq Holders /\ Repaired \subseteq Holders
ASSUME RestoreBounds ==
    MaxTries \in Nat /\ MaxJobs \in Nat /\ MaxFaults \in Nat /\ MaxEdits \in Nat

VARIABLES
    db,         \* what is committed: the text of each holder, the rows of files
    tx,         \* what the restore's session has changed since
    blobs,      \* the objects in the store
    status, cancel, due,    \* the job: its row, and whether an execution is to come
    over,       \* holders the job is to overwrite
    pc, run,    \* the execution: its place and what it knows
    left,       \* holders of plain restores that stopped half way
    tries, jobs, faults, edits

vars == <<db, tx, blobs, status, cancel, due, over, pc, run, left, tries, jobs, faults, edits>>
jobVars == <<status, cancel, due, over>>
boundVars == <<tries, jobs, faults, edits>>

\* A file's object and its row have one key; those of execution n are its own.
Key == Files \X (0 .. MaxTries)
KeysOf(h) == {k \in Key : HolderOf[k[1]] = h}

Text == {"absent", "old", "restored", "repaired", "edited"}
Tx == [texts : [Holders -> Text \cup {"same"}], added : SUBSET Key, gone : SUBSET Key]
NoTx == [texts |-> [h \in Holders |-> "same"], added |-> {}, gone |-> {}]

\* "read": the pages it holds for the relinking, with their texts; "created":
\* the objects it has stored; "old": those of the pages it replaces.
Run == [n : 0 .. MaxTries, existing : SUBSET Holders, next : 1 .. NFiles + 1,
        read : [Holders -> Text], created : SUBSET Key, old : SUBSET Key,
        cancelled : BOOLEAN]
NoRun == [n |-> 0, existing |-> Holders, next |-> 1, read |-> [h \in Holders |-> "absent"],
          created |-> {}, old |-> {}, cancelled |-> FALSE]

Places == {"idle", "surveying", "importing", "next", "copying", "relinking", "closing",
           "deleting", "finishing", "cleaning", "ending"}

Init ==
    /\ db = [texts |-> [h \in Holders |-> IF h \in Present THEN "old" ELSE "absent"],
             files |-> {k \in Key : k[2] = 0 /\ HolderOf[k[1]] \in Present}]
    /\ tx = NoTx
    /\ blobs = db.files
    /\ status = "queued" /\ cancel = FALSE /\ due = TRUE
    /\ over \in SUBSET Present
    /\ pc = "idle" /\ run = NoRun
    /\ left = {}
    /\ tries = 0 /\ jobs = 1 /\ faults = 0 /\ edits = 0

-----------------------------------------------------------------------------
(* The session. *)

Visible == {h \in Holders : db.texts[h] # "absent"}
View(h) == IF tx.texts[h] = "same" THEN db.texts[h] ELSE tx.texts[h]
Savepoint == over # {}

Committed ==
    [texts |-> [h \in Holders |-> View(h)],
     files |-> (db.files \ tx.gone) \cup tx.added]

Commit == db' = Committed /\ tx' = NoTx
Rollback == tx' = NoTx /\ UNCHANGED db

\* Holders this execution has made and committed.
Made == Visible \ run.existing

\* A plain restore that stops has left behind what it has committed.
Stops == left' = IF Savepoint THEN left ELSE left \cup Made

-----------------------------------------------------------------------------
(* The execution. *)

Start ==
    /\ pc = "idle" /\ due /\ status \in {"queued", "running", "failed"}
    /\ tries < MaxTries
    /\ tries' = tries + 1
    /\ pc' = "surveying" /\ run' = [NoRun EXCEPT !.n = tries + 1]
    /\ status' = "running" /\ due' = FALSE
    /\ UNCHANGED <<db, tx, blobs, cancel, over, left, jobs, faults, edits>>

\* Wrong: the holders that exist are listed before the old ones are deleted.
ExistingBefore == Visible
Existing == Visible \ over

\* Inside the savepoint, if there is one, the pages to replace are deleted and
\* their rows of files with them.
Survey ==
    LET old == UNION {db.files \cap KeysOf(h) : h \in over} IN
    /\ pc = "surveying"
    /\ tx' = [texts |-> [h \in Holders |-> IF h \in over THEN "absent" ELSE "same"],
              added |-> {}, gone |-> old]
    /\ run' = [run EXCEPT !.existing = Existing, !.old = old]
    /\ pc' = "importing"
    /\ UNCHANGED <<db, blobs, jobVars, left, boundVars>>

\* import_document: everything that is not there is created, in a savepoint of
\* its own.  A cancel request is observed before it and on the way.
Import ==
    /\ pc = "importing"
    /\ tx' = [tx EXCEPT !.texts = [h \in Holders |->
                IF View(h) = "absent" THEN "restored" ELSE @[h]]]
    /\ pc' = "next"
    /\ UNCHANGED <<db, blobs, jobVars, run, left, boundVars>>

ImportCancelled ==
    /\ pc \in {"surveying", "importing"} /\ cancel
    /\ Rollback
    /\ pc' = "ending" /\ run' = [run EXCEPT !.cancelled = TRUE]
    /\ UNCHANGED <<blobs, jobVars, left, boundVars>>

AtCheckpoint == run.next % Every = 0 \/ run.next = NFiles

\* Wrong: progress is reported inside the savepoint, too.
CommitsAlways == AtCheckpoint
Commits == AtCheckpoint /\ ~Savepoint

\* _report_progress before each file: a commit, or inside the savepoint a look
\* at the cancel flag.
Progress ==
    /\ pc = "next" /\ run.next <= NFiles
    /\ ~(cancel /\ (Commits \/ Savepoint))
    /\ IF Commits THEN Commit ELSE UNCHANGED <<db, tx>>
    /\ pc' = "copying"
    /\ UNCHANGED <<blobs, jobVars, run, left, boundVars>>

ProgressCancelled ==
    /\ pc = "next" /\ run.next <= NFiles
    /\ cancel /\ (Commits \/ Savepoint)
    /\ Rollback
    /\ pc' = "cleaning" /\ run' = [run EXCEPT !.cancelled = TRUE]
    /\ UNCHANGED <<blobs, jobVars, left, boundVars>>

\* The object is stored, its row added.  The page is the one the session holds
\* since the import, or is read again.
Copy ==
    LET f == run.next
        h == HolderOf[f]
        k == <<f, run.n>>
    IN
    /\ pc = "copying" /\ h \notin run.existing
    /\ blobs' = blobs \cup {k}
    /\ tx' = [tx EXCEPT !.added = @ \cup {k}]
    /\ \E text \in IF run.read[h] = "absent" THEN {"restored", View(h)} ELSE {run.read[h]} :
        run' = [run EXCEPT !.created = @ \cup {k}, !.next = @ + 1, !.read[h] = text]
    /\ pc' = "next"
    /\ UNCHANGED <<db, jobVars, left, boundVars>>

\* Wrong: a file that is passed over is counted twice.
SkipTwo ==
    /\ pc = "copying" /\ HolderOf[run.next] \in run.existing
    /\ run' = [run EXCEPT !.next = @ + 2]
    /\ pc' = "next"
    /\ UNCHANGED <<db, tx, blobs, jobVars, left, boundVars>>

Skip ==
    /\ pc = "copying" /\ HolderOf[run.next] \in run.existing
    /\ run' = [run EXCEPT !.next = @ + 1]
    /\ pc' = "next"
    /\ UNCHANGED <<db, tx, blobs, jobVars, left, boundVars>>

LastCopied ==
    /\ pc = "next" /\ run.next > NFiles
    /\ pc' = "relinking"
    /\ UNCHANGED <<db, tx, blobs, jobVars, run, left, boundVars>>

\* Wrong: the pages that were there before are relinked, too.
RelinkedAll == Repaired \cap {h \in Holders : View(h) # "absent"}
Relinked == {h \in Repaired : run.read[h] # "absent"}

\* A text whose links change is written as it was read, with the new links.
Relink ==
    /\ pc = "relinking"
    /\ tx' = [tx EXCEPT !.texts = [h \in Holders |->
                IF h \in Relinked
                  THEN (IF run.read[h] = "edited" THEN "edited" ELSE "repaired")
                  ELSE @[h]]]
    /\ pc' = IF Savepoint THEN "closing" ELSE "finishing"
    /\ UNCHANGED <<db, blobs, jobVars, run, left, boundVars>>

\* The savepoint and the transaction are committed.
Close ==
    /\ pc = "closing"
    /\ Commit
    /\ left' = left \ over
    /\ pc' = "deleting"
    /\ UNCHANGED <<blobs, jobVars, run, boundVars>>

\* The objects of the replaced pages go one by one; a failure leaves one behind.
DeleteOld ==
    /\ pc = "deleting" /\ run.old # {}
    /\ \E k \in run.old :
        /\ run' = [run EXCEPT !.old = @ \ {k}]
        /\ \/ blobs' = blobs \ {k} /\ UNCHANGED faults
           \/ faults < MaxFaults /\ faults' = faults + 1 /\ UNCHANGED blobs
    /\ UNCHANGED <<db, tx, jobVars, pc, left, tries, jobs, edits>>

OldDeleted ==
    /\ pc = "deleting" /\ run.old = {}
    /\ pc' = "finishing"
    /\ UNCHANGED <<db, tx, blobs, jobVars, run, left, boundVars>>

\* The job is complete; what is not committed yet is committed with its row.
Finish ==
    /\ pc = "finishing"
    /\ Commit
    /\ status' = "complete"
    /\ pc' = "idle" /\ run' = NoRun
    /\ UNCHANGED <<blobs, cancel, due, over, left, boundVars>>

-----------------------------------------------------------------------------
(* What goes wrong. *)

Fault == faults < MaxFaults /\ faults' = faults + 1

\* An error outside the copying of files: nothing has been stored, or nothing
\* that is stored is cleaned up.
Raises ==
    /\ pc \in {"surveying", "importing", "closing", "finishing"}
    /\ Fault
    /\ Rollback
    /\ pc' = "ending"
    /\ UNCHANGED <<blobs, jobVars, run, left, tries, jobs, edits>>

\* An error while files are copied: the database, the archive or the store,
\* which may have stored the object all the same.
CopyingFails ==
    /\ pc \in {"next", "copying", "relinking"}
    /\ Fault
    /\ Rollback
    /\ \/ UNCHANGED blobs
       \/ /\ pc = "copying" /\ HolderOf[run.next] \notin run.existing
          /\ blobs' = blobs \cup {<<run.next, run.n>>}
    /\ pc' = "cleaning"
    /\ UNCHANGED <<jobVars, run, left, tries, jobs, edits>>

\* Every object this execution has stored is deleted, or a failure leaves it.
CleanUp ==
    /\ pc = "cleaning" /\ run.created # {}
    /\ \E k \in run.created :
        /\ run' = [run EXCEPT !.created = @ \ {k}]
        /\ \/ blobs' = blobs \ {k} /\ UNCHANGED faults
           \/ faults < MaxFaults /\ faults' = faults + 1 /\ UNCHANGED blobs
    /\ UNCHANGED <<db, tx, jobVars, pc, left, tries, jobs, edits>>

CleanedUp ==
    /\ pc = "cleaning" /\ run.created = {}
    /\ pc' = "ending"
    /\ UNCHANGED <<db, tx, blobs, jobVars, run, left, boundVars>>

\* The handlers of _run_restore_job.
End ==
    /\ pc = "ending"
    /\ Stops
    /\ status' = IF run.cancelled THEN "cancelled" ELSE "failed"
    /\ pc' = "idle" /\ run' = NoRun
    /\ UNCHANGED <<db, tx, blobs, cancel, due, over, boundVars>>

\* The worker's time limit or its shutdown: not an Exception, so that nothing is
\* cleaned up.  arq may execute the job again.
Interrupt ==
    /\ pc # "idle"
    /\ Fault
    /\ Rollback /\ Stops
    /\ status' = "failed" /\ due' \in BOOLEAN
    /\ pc' = "idle" /\ run' = NoRun
    /\ UNCHANGED <<blobs, cancel, over, tries, jobs, edits>>

\* The process dies; arq executes the job again.
WorkerDies ==
    /\ pc # "idle"
    /\ Fault
    /\ Rollback /\ Stops
    /\ due' = TRUE
    /\ pc' = "idle" /\ run' = NoRun
    /\ UNCHANGED <<blobs, status, cancel, over, tries, jobs, edits>>

-----------------------------------------------------------------------------
(* Administrators and users. *)

\* A job that waits is finalised, and one whose heartbeat is late, which that of
\* a live restore can be, too; otherwise it is asked to stop.
Cancel ==
    /\ status \in {"queued", "running"} /\ ~cancel
    /\ cancel' = TRUE
    /\ status' \in IF status = "queued" THEN {"cancelled"} ELSE {status, "cancelled"}
    /\ UNCHANGED <<db, tx, blobs, due, over, pc, run, left, boundVars>>

\* The archive is restored again by another job, which may overwrite what is there.
RestoreAgain ==
    /\ pc = "idle" /\ status \in {"complete", "failed", "cancelled"}
    /\ status = "failed" => ~due
    /\ jobs < MaxJobs
    /\ jobs' = jobs + 1
    /\ over' \in SUBSET Visible
    /\ status' = "queued" /\ cancel' = FALSE /\ due' = TRUE
    /\ UNCHANGED <<db, tx, blobs, pc, run, left, tries, faults, edits>>

\* A page others can see is edited, unless the restore has it locked.
Edit(h) ==
    /\ h \in Visible /\ tx.texts[h] = "same" /\ db.texts[h] # "edited"
    /\ edits < MaxEdits
    /\ edits' = edits + 1
    /\ db' = [db EXCEPT !.texts[h] = "edited"]
    /\ UNCHANGED <<tx, blobs, jobVars, pc, run, left, tries, jobs, faults>>

Next ==
    \/ Start \/ Survey \/ Import \/ ImportCancelled
    \/ Progress \/ ProgressCancelled \/ Copy \/ Skip \/ LastCopied \/ Relink
    \/ Close \/ DeleteOld \/ OldDeleted \/ Finish
    \/ Raises \/ CopyingFails \/ CleanUp \/ CleanedUp \/ End
    \/ Interrupt \/ WorkerDies
    \/ Cancel \/ RestoreAgain
    \/ \E h \in Holders : Edit(h)

Spec == Init /\ [][Next]_vars

-----------------------------------------------------------------------------
(* Properties. *)

TypeOK ==
    /\ db \in [texts : [Holders -> Text], files : SUBSET Key]
    /\ tx \in Tx
    /\ blobs \subseteq Key
    /\ status \in {"queued", "running", "complete", "failed", "cancelled"}
    /\ cancel \in BOOLEAN /\ due \in BOOLEAN
    /\ over \subseteq Holders /\ left \subseteq Holders
    /\ pc \in Places /\ run \in Run
    /\ tries \in 0 .. MaxTries /\ jobs \in Nat /\ faults \in Nat /\ edits \in Nat

\* All files of h have rows, and all rows of h objects.
Whole(h) ==
    /\ \A f \in Files : HolderOf[f] = h => \E k \in db.files : k[1] = f
    /\ db.files \cap KeysOf(h) \subseteq blobs

\* What a plain restore that goes on has committed so far.
UnderWay == IF pc # "idle" /\ ~Savepoint THEN Made ELSE {}

\* Whatever fails, dies, is cancelled or is executed again: a holder that can be
\* seen has all its files, and they can be read ("never a broken restored
\* attachment", service.py:1793), but for what a plain restore has committed
\* and goes on with, or has left behind when it stopped.
HoldersAreWhole == \A h \in Visible \ (left \cup UnderWay) : Whole(h)

\* A restore that fails or is cancelled has left nothing that others can see
\* ("a restore is all-or-nothing", service.py:1863).
RestoreIsAllOrNothing == status \in {"failed", "cancelled"} => left = {}

\* A restore that overwrites shows others all of its work in one step: the new
\* texts of what it replaces or creates, with their files in the store, and
\* nothing of what was there before (service.py:1617).
ReplacesAtOnce ==
    [][(Savepoint /\ db' # db /\ edits' = edits) =>
          /\ \A h \in Holders \ run.existing :
                /\ db'.texts[h] \in {"restored", "repaired"}
                /\ db'.files \cap KeysOf(h) = {k \in KeysOf(h) : k[2] = run.n}
                /\ db'.files \cap KeysOf(h) \subseteq blobs'
          /\ \A h \in run.existing :
                /\ db'.texts[h] = db.texts[h]
                /\ db'.files \cap KeysOf(h) = db.files \cap KeysOf(h)]_vars

\* An edited text is taken away by a restore that was asked to overwrite it, or
\* by the relinking of a page that the same plain restore has made; never on a
\* page that was there when the restore looked (service.py:1811).
EditsSurvive ==
    [][\A h \in Holders :
          db.texts[h] = "edited" /\ db'.texts[h] # "edited" =>
              IF Savepoint THEN h \in over ELSE h \in Repaired \cap Made]_vars
=============================================================================
