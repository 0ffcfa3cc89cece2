--------------------------- MODULE DocumentImport ---------------------------
(***************************************************************************)
(* One import of documents: the rows of a job and its files               *)
(* (models/document_import.py), the worker that makes pages of the files   *)
(* (modules/document_import/jobs.py), the request that cancels it          *)
(* (api/v1/document_imports.py) and the sweep that finalises it when its   *)
(* worker is silent.  Each works on a copy of the rows it has read, and    *)
(* its UPDATEs name only the columns that differ from that copy.           *)
(*                                                                         *)
(* Of a page only that it was made is there, with the rows of its images;  *)
(* whether a file replaces a page or gets a name of its own, its sheets,   *)
(* and what a review or a translation makes of the text, are left out.     *)
(***************************************************************************)
EXTENDS Naturals, FiniteSets

CONSTANTS
    NItems,         \* the files of the job are 1 .. NItems, in their order
    Images,
    OwnerOf,        \* the file each image is in
    MaxTries,       \* bound: deliveries of the job to a worker
    MaxCancels,     \* bound: requests to cancel
    MaxFaults       \* bound: errors, interruptions, deaths

Items == 1 .. NItems

ASSUME ImportAssumption ==
    /\ NItems \in Nat \ {0}
    /\ OwnerOf \in [Images -> Items]
    /\ MaxTries \in Nat /\ MaxCancels \in Nat /\ MaxFaults \in Nat

VARIABLES
    row,            \* what is committed of the job and its files
    beat,           \* the job's heartbeat: none yet, fresh, or late (past five minutes)
    staged,         \* files whose upload is in the store
    attached,       \* images whose row is committed with their page
    objects,        \* images in the store
    due, up,        \* arq is to deliver the job; a worker process is there
    pc, mem, cur,   \* the execution: its place, its copy of the rows, the file in hand
    written,        \* images it has stored for that file
    requests,       \* requests to cancel that have read and not committed
    sweep,          \* what the reaper has selected: no row, or a copy of it
    made,           \* how often a page was made of each file
    overtaken,      \* the job was finalised under a live execution, or from an old copy
    tries, cancels, faults

vars == <<row, beat, staged, attached, objects, due, up, pc, mem, cur, written,
          requests, sweep, made, overtaken, tries, cancels, faults>>
storeVars == <<staged, attached, objects, made>>
outsideVars == <<requests, sweep, overtaken, cancels>>

Pending == {"queued", "running"}
Finished == {"complete", "failed", "cancelled"}
Row == [status : Pending \cup Finished, cancel : BOOLEAN,
        item : [Items -> Pending \cup Finished], failed : 0 .. NItems, created : 0 .. NItems]
Request == [copy : Row, final : BOOLEAN]

Blank == [status |-> "queued", cancel |-> FALSE, item |-> [i \in Items |-> "queued"],
          failed |-> 0, created |-> 0]

Places == {"idle", "starting", "checking", "taking", "importing", "made", "broken",
           "reviewing", "cancelling", "failing", "tidying"}

\* The job and the uploads are there; Redis has taken the job, or refused it.
Init ==
    /\ row = Blank /\ beat = "none"
    /\ staged = Items /\ attached = {} /\ objects = {}
    /\ due \in BOOLEAN /\ up = TRUE
    /\ pc = "idle" /\ mem = Blank /\ cur = 0 /\ written = {}
    /\ requests = {} /\ sweep = {}
    /\ made = [i \in Items |-> 0] /\ overtaken = FALSE
    /\ tries = 0 /\ cancels = 0 /\ faults = 0

-----------------------------------------------------------------------------
(* Copies of the rows. *)

\* A session that holds `old` and has changed it to `new` commits.
Flush(old, new) ==
    [status |-> IF new.status = old.status THEN row.status ELSE new.status,
     cancel |-> IF new.cancel = old.cancel THEN row.cancel ELSE new.cancel,
     item |-> [i \in Items |->
                  IF new.item[i] = old.item[i] THEN row.item[i] ELSE new.item[i]],
     failed |-> IF new.failed = old.failed THEN row.failed ELSE new.failed,
     created |-> IF new.created = old.created THEN row.created ELSE new.created]

With(r, status) == {i \in Items : r.item[i] = status}

\* Wrong: what is counted is added to the counters.
RecountAdds(r) == [r EXCEPT !.failed = @ + Cardinality(With(r, "failed")),
                            !.created = @ + Cardinality(With(r, "complete"))]
\* _recount: from the files' rows, as the session holds them.
Recount(r) == [r EXCEPT !.failed = Cardinality(With(r, "failed")),
                        !.created = Cardinality(With(r, "complete"))]

\* The job is finalised, and with it the files that are not done.
Settled(r, status) ==
    [r EXCEPT !.status = status,
              !.item = [i \in Items |-> IF @[i] \in Pending THEN status ELSE @[i]]]

Fault == faults < MaxFaults /\ faults' = faults + 1
Forget == mem' = Blank /\ cur' = 0 /\ written' = {}

-----------------------------------------------------------------------------
(* The worker. *)

\* Wrong: a job whose worker died is taken up again.
ToBeRunAgain == row.status \in Pending
ToBeRun == row.status = "queued"

Deliver ==
    /\ up /\ due /\ pc = "idle" /\ tries < MaxTries
    /\ tries' = tries + 1 /\ due' = FALSE
    /\ IF ToBeRun THEN pc' = "starting" /\ mem' = row ELSE UNCHANGED <<pc, mem>>
    /\ UNCHANGED <<row, beat, storeVars, up, cur, written, outsideVars, faults>>

Start ==
    LET new == [mem EXCEPT !.status = "running"] IN
    /\ pc = "starting"
    /\ row' = Flush(mem, new) /\ mem' = new /\ beat' = "fresh"
    /\ pc' = "checking"
    /\ UNCHANGED <<storeVars, due, up, cur, written, outsideVars, tries, faults>>

\* The space or the user is gone.
NobodyToImportFor ==
    /\ pc = "checking" /\ cur = 0
    /\ pc' = "failing"
    /\ UNCHANGED <<row, beat, storeVars, due, up, mem, cur, written, outsideVars, tries, faults>>

\* checkpoint_job before each file: the job is read again, and its files with
\* it or not.
Checkpoint ==
    /\ pc = "checking" /\ cur < NItems /\ ~row.cancel
    /\ mem' \in {row, [row EXCEPT !.item = mem.item]}
    /\ beat' = "fresh"
    /\ cur' = cur + 1 /\ pc' = "taking"
    /\ UNCHANGED <<row, storeVars, due, up, written, outsideVars, tries, faults>>

CheckpointCancelled ==
    /\ pc = "checking" /\ cur < NItems /\ row.cancel
    /\ mem' = row
    /\ pc' = "cancelling"
    /\ UNCHANGED <<row, beat, storeVars, due, up, cur, written, outsideVars, tries, faults>>

TakeUp ==
    LET new == [mem EXCEPT !.item[cur] = "running"] IN
    /\ pc = "taking"
    /\ row' = Flush(mem, new) /\ mem' = new
    /\ written' = {}
    /\ pc' = "importing"
    /\ UNCHANGED <<beat, storeVars, due, up, cur, outsideVars, tries, faults>>

ImagesOf(i) == {g \in Images : OwnerOf[g] = i}

\* _attach_media: the rows are flushed, then the images stored.
StoreImage ==
    /\ pc = "importing"
    /\ \E g \in ImagesOf(cur) \ written :
        objects' = objects \cup {g} /\ written' = written \cup {g}
    /\ UNCHANGED <<row, beat, staged, attached, made, due, up, pc, mem, cur, outsideVars,
                   tries, faults>>

ImportDone ==
    /\ pc = "importing" /\ cur \in staged /\ written = ImagesOf(cur)
    /\ pc' = "made"
    /\ UNCHANGED <<row, beat, storeVars, due, up, mem, cur, written, outsideVars, tries, faults>>

\* The file cannot be read or converted, or the store fails.  What was stored is
\* deleted, but for what a further failure keeps, or the image whose storing failed.
ImportFails ==
    /\ pc = "importing"
    /\ \E kept \in SUBSET ImagesOf(cur) :
        /\ Cardinality(kept \ written) <= 1
        /\ objects' = (objects \ written) \cup kept
        /\ IF kept = {} THEN UNCHANGED faults ELSE Fault
    /\ pc' = "broken"
    /\ UNCHANGED <<row, beat, staged, attached, made, due, up, mem, cur, written, outsideVars,
                   tries>>

\* Wrong: without the savepoint the rows of a file that fails are committed, too.
KeptRowsAlways == ImagesOf(cur)
\* The savepoint keeps the rows of a file that was imported.
KeptRows == IF pc = "made" THEN ImagesOf(cur) ELSE {}

\* The file's status, the counters and the page with its images are committed;
\* a review and a translation may follow.
CommitItem ==
    LET new == Recount([mem EXCEPT !.item[cur] =
                           IF pc = "made" THEN "complete" ELSE "failed"]) IN
    /\ pc \in {"made", "broken"}
    /\ row' = Flush(mem, new) /\ mem' = new
    /\ attached' = attached \cup KeptRows
    /\ made' = IF pc = "made" THEN [made EXCEPT ![cur] = @ + 1] ELSE made
    /\ pc' \in IF pc = "made" THEN {"reviewing", "checking"} ELSE {"checking"}
    /\ UNCHANGED <<beat, staged, objects, due, up, cur, written, outsideVars, tries, faults>>

\* _review_page, _translate_page: their commits change the log of the file and
\* count again; none writes the heartbeat.
Reviewed ==
    /\ pc = "reviewing"
    /\ row' = Flush(mem, Recount(mem)) /\ mem' = Recount(mem)
    /\ pc' = "checking"
    /\ UNCHANGED <<beat, storeVars, due, up, cur, written, outsideVars, tries, faults>>

Finish ==
    LET new == [Recount(mem) EXCEPT !.status =
                   IF With(mem, "complete") = {} THEN "failed" ELSE "complete"] IN
    /\ pc = "checking" /\ cur = NItems
    /\ row' = Flush(mem, new) /\ beat' = "fresh"
    /\ Forget
    /\ pc' = "tidying"
    /\ UNCHANGED <<storeVars, due, up, outsideVars, tries, faults>>

WriteCancelled ==
    /\ pc = "cancelling"
    /\ row' = Flush(mem, Recount(Settled(mem, "cancelled")))
    /\ Forget
    /\ pc' = "tidying"
    /\ UNCHANGED <<beat, storeVars, due, up, outsideVars, tries, faults>>

\* An error outside the import of a file: everything uncommitted is taken back,
\* the images in the store stay, and the job is read again.
Raises ==
    /\ pc \in {"checking", "taking", "made", "broken", "reviewing"}
    /\ Fault
    /\ mem' = row
    /\ pc' = "failing"
    /\ UNCHANGED <<row, beat, storeVars, due, up, cur, written, outsideVars, tries>>

\* The files that are not done are left as they are.
WriteFailed ==
    /\ pc = "failing"
    /\ row' = Flush(mem, [mem EXCEPT !.status = "failed"])
    /\ Forget
    /\ pc' = "tidying"
    /\ UNCHANGED <<beat, storeVars, due, up, outsideVars, tries, faults>>

\* _delete_staged_uploads, as far as it gets.
Tidy ==
    /\ pc = "tidying"
    /\ \E kept \in SUBSET staged :
        staged' = kept /\ IF kept = {} THEN UNCHANGED faults ELSE Fault
    /\ pc' = "idle"
    /\ UNCHANGED <<row, beat, attached, objects, made, due, up, mem, cur, written, outsideVars,
                   tries>>

\* The time limit, a shutdown, or a failure of the first or the closing commit:
\* the row stays as it is, the uploads are deleted once the import has begun.
\* arq may deliver the job again.
Interrupt ==
    /\ pc \notin {"idle", "tidying"}
    /\ Fault
    /\ Forget
    /\ due' \in BOOLEAN
    /\ pc' = IF pc = "starting" THEN "idle" ELSE "tidying"
    /\ UNCHANGED <<row, beat, storeVars, up, outsideVars, tries>>

\* The process dies, a sweep with it; arq delivers again what it was executing.
WorkerDies ==
    /\ up /\ Fault
    /\ up' = FALSE
    /\ due' = (due \/ pc # "idle")
    /\ pc' = "idle" /\ Forget
    /\ sweep' = {}
    /\ UNCHANGED <<row, beat, storeVars, requests, overtaken, tries, cancels>>

-----------------------------------------------------------------------------
(* Those who finalise the job from outside. *)

Executing == pc \notin {"idle", "starting", "tidying"}

Overtakes(copy) == Executing \/ row.status # copy.status \/ row.item # copy.item

\* Wrong: only a job without any heartbeat is taken for abandoned.
SilentWithoutBeat == beat = "none"
\* STALE_JOB_AFTER_SECONDS.
Silent == beat # "fresh"

\* cancel_document_import: it finalises the job when nobody is left to do so.
CancelRead ==
    /\ row.status \in Pending /\ cancels < MaxCancels
    /\ cancels' = cancels + 1
    /\ requests' = requests \cup {[copy |-> row, final |-> row.status = "queued" \/ Silent]}
    /\ UNCHANGED <<row, beat, storeVars, due, up, pc, mem, cur, written, sweep, overtaken,
                   tries, faults>>

CancelWrite(q) ==
    LET asked == [q.copy EXCEPT !.cancel = TRUE] IN
    /\ row' = Flush(q.copy, IF q.final THEN Settled(asked, "cancelled") ELSE asked)
    /\ overtaken' = (overtaken \/ (q.final /\ Overtakes(q.copy)))
    /\ requests' = requests \ {q}
    /\ UNCHANGED <<beat, storeVars, due, up, pc, mem, cur, written, sweep, cancels, tries, faults>>

\* reap_abandoned_document_imports, every minute.
ReapSelect ==
    /\ up /\ sweep = {}
    /\ row.status = "running" /\ Silent
    /\ sweep' = {row}
    /\ UNCHANGED <<row, beat, storeVars, due, up, pc, mem, cur, written, requests, overtaken,
                   cancels, tries, faults>>

ReapWrite(copy) ==
    /\ row' = Flush(copy, Settled(copy, IF copy.cancel THEN "cancelled" ELSE "failed"))
    /\ overtaken' = (overtaken \/ Overtakes(copy))
    /\ sweep' = {}
    /\ UNCHANGED <<beat, storeVars, due, up, pc, mem, cur, written, requests, cancels,
                   tries, faults>>

\* A worker starts, and sweeps up every running job, unless that fails.
WorkerStarts ==
    /\ ~up
    /\ up' = TRUE
    /\ sweep' \in IF row.status = "running" THEN {{}, {row}} ELSE {{}}
    /\ UNCHANGED <<row, beat, storeVars, due, pc, mem, cur, written, requests, overtaken,
                   cancels, tries, faults>>

\* Five minutes pass without a heartbeat.
Ages ==
    /\ row.status = "running" /\ beat = "fresh"
    /\ beat' = "late"
    /\ UNCHANGED <<row, storeVars, due, up, pc, mem, cur, written, outsideVars, tries, faults>>

-----------------------------------------------------------------------------
Work ==
    \/ Start \/ Checkpoint \/ CheckpointCancelled \/ TakeUp
    \/ StoreImage \/ ImportDone \/ ImportFails \/ CommitItem \/ Reviewed
    \/ Finish \/ WriteCancelled \/ WriteFailed \/ Tidy

Next ==
    \/ Work \/ Deliver \/ NobodyToImportFor \/ Raises \/ Interrupt \/ WorkerDies
    \/ CancelRead \/ (\E q \in requests : CancelWrite(q))
    \/ ReapSelect \/ (\E copy \in sweep : ReapWrite(copy))
    \/ WorkerStarts \/ Ages

Spec == Init /\ [][Next]_vars

\* The event loop runs what can run and a long phase ends; requests are
\* answered; the sweep is due every minute, a worker that is gone is started
\* again, and time passes.
FairSpec ==
    /\ Spec
    /\ WF_vars(Work)
    /\ WF_vars(\E q \in requests : CancelWrite(q))
    /\ WF_vars(ReapSelect) /\ WF_vars(\E copy \in sweep : ReapWrite(copy))
    /\ WF_vars(WorkerStarts) /\ WF_vars(Ages)

-----------------------------------------------------------------------------
(* Properties. *)

TypeOK ==
    /\ row \in Row /\ beat \in {"none", "fresh", "late"}
    /\ staged \subseteq Items /\ attached \subseteq Images /\ objects \subseteq Images
    /\ due \in BOOLEAN /\ up \in BOOLEAN
    /\ pc \in Places /\ mem \in Row /\ cur \in 0 .. NItems
    /\ pc \in {"taking", "importing", "made", "broken", "reviewing"} => cur \in Items
    /\ written \subseteq Images
    /\ requests \subseteq Request /\ sweep \subseteq Row
    /\ made \in [Items -> Nat] /\ overtaken \in BOOLEAN
    /\ tries \in Nat /\ cancels \in Nat /\ faults \in Nat

\* Whatever is delivered again, fails, dies, is cancelled or swept up: of no
\* file is a page made twice ("Idempotent under arq retry", jobs.py:104), and a
\* file reported as complete has its page.  Unless the job was finalised under a
\* live worker, all it reports is what was done: pages are those of the complete
\* files, the counters agree with the rows ("Recomputing is what keeps the
\* counters honest across a retry or a partial rollback", jobs.py:737), and a job
\* that is complete or cancelled leaves no file waiting.  (The sweep does not
\* count again, and an error outside the files leaves them as they are.)
ReportIsTrue ==
    /\ \A i \in Items : made[i] <= 1 /\ (row.item[i] = "complete" => made[i] = 1)
    /\ ~overtaken =>
        /\ \A i \in Items : made[i] = 1 => row.item[i] = "complete"
        /\ row.created = Cardinality(With(row, "complete"))
        /\ row.status # "failed" => row.failed = Cardinality(With(row, "failed"))
        /\ row.status \in {"complete", "cancelled"} =>
              \A i \in Items : row.item[i] \in Finished
        /\ row.status = "complete" => With(row, "complete") # {}

\* Every image a page shows is in the store, whatever was taken back on the
\* way, and every upload is there as long as an execution may ask for it.
StoreHasWhatIsNeeded ==
    /\ attached \subseteq objects
    /\ row.status = "queued" \/ Executing => staged = Items

\* An import that was taken up comes to an end on its row, and so does one that
\* somebody wants cancelled, whether or not a worker is left.
ImportsEnd ==
    /\ row.status = "running" ~> row.status \in Finished
    /\ row.cancel ~> row.status \in Finished
=============================================================================
