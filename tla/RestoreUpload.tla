---------------------------- MODULE RestoreUpload ----------------------------
(***************************************************************************)
(* Uploading a restore archive in parts from one or several browser tabs   *)
(* of an administrator, and stopping, resuming and cancelling the upload:  *)
(* the restore card of components/admin/backup-panel.tsx, the handlers of  *)
(* api/v1/backup.py (archives) with modules/backup/archives.py, and the    *)
(* multipart uploads of services/storage.py.                               *)
(*                                                                         *)
(* A call is on its way from the step that makes it to the step that       *)
(* serves it; a tab that stops, restarts or goes away leaves its call      *)
(* behind, and the server may still serve it.  A handler that writes both  *)
(* the store and a row does so in two steps: it "begins" with what it      *)
(* read and what it did in the store, and its transaction commits later.   *)
(* An answer reaches its tab in the step that commits.                     *)
(*                                                                         *)
(* Not modelled: sizes and progress, session renewal, a second             *)
(* administrator, objects deleted by hand, and a file that differs from    *)
(* the one waited for (its dialog discards and starts, two steps here).    *)
(***************************************************************************)
EXTENDS Naturals, FiniteSets

CONSTANTS
    Tabs,       \* tabs that show the restore card
    Files,      \* backup files; the fingerprint of a file stands for the file
    Archives,   \* archive rows and their objects, in no order
    NParts,     \* parts a file is cut into
    MaxActs,    \* bound: decisions of the user that start, stop or discard something
    MaxFaults   \* bound: calls that fail, before or after they reach the store

ASSUME PartsAssumption == NParts \in Nat \ {0}
ASSUME UploadBounds == MaxActs \in Nat /\ MaxFaults \in Nat

None == "none"
Nobody == "nobody"

ASSUME NoneAssumption == None \notin Archives

VARIABLES
    row,        \* the backup_archives rows
    open,       \* archives with a live multipart upload in the store
    parts,      \* the parts stored for each of them
    object,     \* archives whose object the store has, whole
    calls,      \* what is under way: calls to the server, and fingerprints
    card,       \* the restore card of each tab
    acts, faults

vars == <<row, open, parts, object, calls, card, acts, faults>>
store == <<open, parts, object>>

Parts == 1 .. NParts

-----------------------------------------------------------------------------
(* State *)

\* A row; "job" says whether a restore job was made from it and goes on.
Row == [status : {"none", "uploading", "uploaded", "scanned", "cancelled"},
        mp : BOOLEAN, file : Files \cup {None}, spaces : BOOLEAN,
        job : {"none", "active", "ended"}]

NewRow(f) == [status |-> "uploading", mp |-> TRUE, file |-> f, spaces |-> FALSE, job |-> "none"]
NoRow == [status |-> "none", mp |-> FALSE, file |-> None, spaces |-> FALSE, job |-> "none"]

\* The refs and states of the card: the file chosen, restoreArchiveIdRef,
\* pendingRestoreUpload, backupArchive, and what the last run came to.
Card == [file : Files \cup {None}, archive : Archives \cup {None},
         pending : Archives \cup {None}, picker : Archives \cup {None},
         outcome : {"none", "failed", "rejected", "ready"}]

\* "hash" is the fingerprint of the file, in the tab.  "have" are the parts
\* the run counts as stored, "seen" the status its handler read.
Call == [kind : {"hash", "start", "put", "complete", "scan", "delete"},
         by : Tabs \cup {Nobody}, file : Files \cup {None},
         archive : Archives \cup {None}, have : SUBSET Parts,
         part : Parts \cup {0}, stage : {"sent", "begun"},
         seen : {"none", "uploading", "uploaded", "scanned", "cancelled"}]

EmptyCard == [file |-> None, archive |-> None, pending |-> None,
              picker |-> None, outcome |-> "none"]

NewCall(kind, t, f, a, have) ==
    [kind |-> kind, by |-> t, file |-> f, archive |-> a, have |-> have,
     part |-> 0, stage |-> "sent", seen |-> "none"]

Init ==
    /\ row = [a \in Archives |-> NoRow]
    /\ open = {} /\ object = {} /\ calls = {}
    /\ parts = [a \in Archives |-> {}]
    /\ card = [t \in Tabs |-> EmptyCard]
    /\ acts = 0 /\ faults = 0

Status(a) == row[a].status

Runs(t) == {c \in calls : c.by = t}
Preparing(t) == \E c \in Runs(t) : c.kind # "start"

\* The calls once t has let go of its run: the fingerprint stops, the rest
\* may still reach the server.
LeftBehind(t) ==
    (calls \ Runs(t)) \cup {[c EXCEPT !.by = Nobody] : c \in {d \in Runs(t) : d.kind # "hash"}}

Deletes(a) == IF a = None THEN {} ELSE {NewCall("delete", Nobody, None, a, {})}

-----------------------------------------------------------------------------
(* The user *)

Acts == acts < MaxActs /\ acts' = acts + 1 /\ UNCHANGED <<row, store, faults>>

\* uploadAndScanBackupArchive: a new run takes over from whatever t was running.
StartsRun(t, c) ==
    /\ card' = [card EXCEPT ![t] = [c EXCEPT !.pending = None, !.picker = None, !.outcome = "none"]]
    /\ calls' = LeftBehind(t) \cup {NewCall("hash", t, c.file, None, {})}

\* A file is chosen.
SelectFile(t, f) ==
    LET c == [card[t] EXCEPT !.file = f, !.archive = None, !.outcome = "none"]
        resumes == card[t].pending # None /\ row[card[t].pending].file = f
    IN
    /\ card[t].picker = None /\ ~Preparing(t)
    /\ \/ ~resumes
          /\ card' = [card EXCEPT ![t] = c]
          /\ UNCHANGED <<row, store, calls, acts, faults>>
       \* One that an unfinished upload waits for is resumed on the spot.
       \/ resumes /\ Acts /\ StartsRun(t, c)

\* "Upload and scan", or "Resume upload".  The button is there again while the
\* call that starts the upload is under way.
PressUpload(t) ==
    /\ Acts
    /\ card[t].file # None /\ card[t].picker = None /\ card[t].outcome # "rejected"
    /\ ~Preparing(t)
    /\ StartsRun(t, card[t])

Pause(t) ==
    /\ Acts
    /\ \E c \in Runs(t) : c.kind \in {"put", "complete"}
    /\ calls' = LeftBehind(t)
    /\ UNCHANGED card

\* The dialog may have been opened earlier in the run than it is answered.
CancelUpload(t) ==
    /\ Acts
    /\ Runs(t) # {} \/ card[t].archive # None
    /\ calls' = LeftBehind(t) \cup Deletes(card[t].archive)
    /\ card' = [card EXCEPT ![t] = [EmptyCard EXCEPT !.picker = card[t].picker]]

DiscardPending(t) ==
    /\ Acts
    /\ card[t].pending # None /\ card[t].archive = None /\ card[t].picker = None
    /\ ~Preparing(t) /\ card[t].outcome # "rejected"
    /\ calls' = calls \cup Deletes(card[t].pending)
    /\ card' = [card EXCEPT ![t].pending = None]

\* uploadAnotherAfterRejection
UploadAnother(t) ==
    /\ Acts
    /\ card[t].outcome = "rejected" /\ card[t].picker = None
    /\ calls' = LeftBehind(t) \cup Deletes(card[t].archive)
    /\ card' = [card EXCEPT ![t].file = None, ![t].archive = None, ![t].outcome = "none"]

\* "Cancel restore" of a scanned archive; a run that is on goes on.
DiscardPicked(t) ==
    /\ Acts
    /\ card[t].picker # None
    /\ calls' = calls \cup Deletes(card[t].picker)
    /\ card' = [card EXCEPT ![t] = [EmptyCard EXCEPT !.archive = card[t].archive]]

\* The tab is left, closed or reloaded.
Leave(t) ==
    /\ Acts
    /\ card[t] # EmptyCard \/ Runs(t) # {}
    /\ calls' = LeftBehind(t)
    /\ card' = [card EXCEPT ![t] = EmptyCard]

\* create_import_job, for the archive in the picker
Restore(t) ==
    LET a == card[t].picker IN
    /\ acts < MaxActs /\ acts' = acts + 1
    /\ a # None
    /\ Status(a) \in {"uploaded", "scanned"} /\ row[a].job # "active"
    /\ row' = [row EXCEPT ![a].job = "active"]
    /\ UNCHANGED <<store, calls, card, faults>>

JobEnds(a) ==
    /\ row[a].job = "active"
    /\ row' = [row EXCEPT ![a].job = "ended"]
    /\ UNCHANGED <<store, calls, card, acts, faults>>

\* restoreActiveBackupArchive, on mount and whenever the tab is looked at: the
\* first of the user's rows that list_active returns, if listing every one of
\* them finds its multipart upload.
Look(t) ==
    LET active == {a \in Archives : /\ Status(a) \in {"uploading", "scanned"}
                                    /\ row[a].job = "none"}
        lists == \A a \in active : row[a].mp => a \in open
    IN
    /\ lists
    /\ \E a \in active :
        LET field == IF Status(a) = "scanned" THEN "picker" ELSE "pending" IN
        /\ card[t][field] = None
        /\ card' = [card EXCEPT ![t][field] = a]
    /\ UNCHANGED <<row, store, calls, acts, faults>>

-----------------------------------------------------------------------------
(* The tab, when an answer comes *)

\* Wrong: the loop over the parts goes one too far.
NextCallPastLast(t, a, have) ==
    LET missing == (1 .. NParts + 1) \ have
        call == NewCall("put", t, None, a, have)
    IN IF missing = {}
       THEN [call EXCEPT !.kind = "complete"]
       ELSE [call EXCEPT !.part = CHOOSE p \in missing : \A q \in missing : p <= q]

\* Wrong: the loop over the parts stops before the last.
NextCallShortLoop(t, a, have) ==
    LET missing == (Parts \ {NParts}) \ have
        call == NewCall("put", t, None, a, have)
    IN IF missing = {}
       THEN [call EXCEPT !.kind = "complete"]
       ELSE [call EXCEPT !.part = CHOOSE p \in missing : \A q \in missing : p <= q]

\* The call a run makes next: the first part it does not count as stored, or
\* the one that completes the upload.
NextCall(t, a, have) ==
    LET missing == Parts \ have
        call == NewCall("put", t, None, a, have)
    IN IF missing = {}
       THEN [call EXCEPT !.kind = "complete"]
       ELSE [call EXCEPT !.part = CHOOSE p \in missing : \A q \in missing : p <= q]

\* The run of call c goes on with call d; a run nobody waits for ends.
Continues(c, d) == calls' = (calls \ {c}) \cup (IF c.by = Nobody THEN {} ELSE {d})

\* The call failed: the run, when somebody waits for it, has come to an end.
EndsRun(c, outcome) ==
    /\ calls' = calls \ {c}
    /\ card' = IF c.by = Nobody THEN card ELSE [card EXCEPT ![c.by].outcome = outcome]

Hashed(c) ==
    /\ c.kind = "hash"
    /\ Continues(c, NewCall("start", c.by, c.file, None, {}))
    /\ UNCHANGED <<row, store, card, acts, faults>>

-----------------------------------------------------------------------------
(* The server *)

IsCall(c, kind, stage) == c.kind = kind /\ c.stage = stage

Begun(c, a, status) ==
    calls' = (calls \ {c}) \cup {[c EXCEPT !.stage = "begun", !.archive = a, !.seen = status]}

\* Wrong: the row is believed, the store is not asked.
ReusableByRow(f) ==
    {a \in Archives : /\ Status(a) \in {"uploaded", "scanned", "cancelled"}
                      /\ ~row[a].mp /\ row[a].file = f}

\* find_reusable_archive
Reusable(f) ==
    {a \in object : /\ Status(a) \in {"uploaded", "scanned", "cancelled"}
                    /\ ~row[a].mp /\ row[a].file = f}

\* Wrong: an upload the store no longer knows is resumed.
ResumableByRow(f) ==
    {a \in Archives : Status(a) = "uploading" /\ row[a].mp /\ row[a].file = f}

\* find_resumable_archive
Resumable(f) ==
    {a \in open : Status(a) = "uploading" /\ row[a].mp /\ row[a].file = f}

Unused == {a \in Archives \ open : Status(a) = "none" /\ \A c \in calls : c.archive # a}

\* start_upload: reuse, else resume, else make a row and a multipart upload
BeginStart(c) ==
    /\ IsCall(c, "start", "sent")
    /\ \/ \E a \in Reusable(c.file) : Begun(c, a, Status(a)) /\ UNCHANGED open
       \/ /\ Reusable(c.file) = {}
          /\ \E a \in Resumable(c.file) : Begun(c, a, "uploading") /\ UNCHANGED open
       \/ /\ Reusable(c.file) = {} /\ Resumable(c.file) = {}
          /\ Unused # {}
          /\ LET a == CHOOSE b \in Unused : TRUE
             IN Begun(c, a, "none") /\ open' = open \cup {a}
    /\ UNCHANGED <<row, parts, object, card, acts, faults>>

Revived(r) == [r EXCEPT !.status = IF r.spaces THEN "scanned" ELSE "uploaded"]

StartedRow(c) ==
    CASE c.seen = "none" -> NewRow(c.file)
      [] c.seen = "cancelled" -> Revived(row[c.archive])
      [] OTHER -> row[c.archive]

\* The target of a fresh or resumed upload lists the parts in the store; the
\* upload may have been aborted by now.
CommitStart(c) ==
    LET a == c.archive
        reused == c.seen \notin {"none", "uploading"}
    IN
    /\ IsCall(c, "start", "begun")
    /\ IF reused \/ a \in open
       THEN /\ row' = [row EXCEPT ![a] = StartedRow(c)]
            /\ Continues(c, IF reused THEN NewCall("scan", c.by, None, a, {})
                                      ELSE NextCall(c.by, a, parts[a]))
            /\ card' = IF c.by = Nobody THEN card ELSE [card EXCEPT ![c.by].archive = a]
       ELSE EndsRun(c, "failed") /\ UNCHANGED row
    /\ UNCHANGED <<store, acts, faults>>

\* A part is put with the address get_backup_archive_upload_part_urls gave for
\* it: as long as the multipart upload lives.
PutPart(c) ==
    LET a == c.archive IN
    /\ IsCall(c, "put", "sent")
    /\ IF a \in open
       THEN /\ parts' = [parts EXCEPT ![a] = @ \cup {c.part}]
            /\ Continues(c, NextCall(c.by, a, c.have \cup {c.part}))
            /\ UNCHANGED card
       ELSE EndsRun(c, "failed") /\ UNCHANGED parts
    /\ UNCHANGED <<row, open, object, acts, faults>>

\* complete_upload refuses an upload that is over or lacks a part, and has the
\* store put the parts together before its row says so.
BeginComplete(c) ==
    LET a == c.archive IN
    /\ IsCall(c, "complete", "sent")
    /\ IF Status(a) = "uploading" /\ row[a].mp /\ a \in open /\ parts[a] = Parts
       THEN /\ open' = open \ {a} /\ object' = object \cup {a}
            /\ parts' = [parts EXCEPT ![a] = {}]
            /\ Begun(c, a, Status(a)) /\ UNCHANGED card
       ELSE EndsRun(c, "failed") /\ UNCHANGED store
    /\ UNCHANGED <<row, acts, faults>>

CommitComplete(c) ==
    LET a == c.archive IN
    /\ IsCall(c, "complete", "begun")
    /\ row' = [row EXCEPT ![a].mp = FALSE, ![a].status = "uploaded"]
    /\ Continues(c, NewCall("scan", c.by, None, a, {}))
    /\ UNCHANGED <<store, card, acts, faults>>

\* Wrong: cancelling marks the row and leaves the multipart upload open.
BeginDeleteOfRow(c) ==
    LET a == c.archive IN
    /\ IsCall(c, "delete", "sent")
    /\ IF row[a].job = "active"
       THEN EndsRun(c, "failed")
       ELSE Begun(c, a, Status(a)) /\ UNCHANGED card
    /\ UNCHANGED <<row, store, acts, faults>>

\* abort_upload refuses while a restore runs, and aborts an open multipart
\* upload before its row says so.
BeginDelete(c) ==
    LET a == c.archive IN
    /\ IsCall(c, "delete", "sent")
    /\ IF row[a].job = "active"
       THEN EndsRun(c, "failed") /\ UNCHANGED store
       ELSE /\ Begun(c, a, Status(a)) /\ UNCHANGED <<object, card>>
            /\ IF row[a].mp
               THEN open' = open \ {a} /\ parts' = [parts EXCEPT ![a] = {}]
               ELSE UNCHANGED <<open, parts>>
    /\ UNCHANGED <<row, acts, faults>>

\* Only what the handler changed is written: a row it read as cancelled is not.
CommitDelete(c) ==
    LET a == c.archive IN
    /\ IsCall(c, "delete", "begun")
    /\ row' = IF c.seen = "cancelled" THEN row
              ELSE [row EXCEPT ![a].mp = FALSE, ![a].status = "cancelled"]
    /\ EndsRun(c, "failed")
    /\ UNCHANGED <<store, acts, faults>>

\* scan asks for the object, not for the status, and takes minutes to read it
BeginScan(c) ==
    /\ IsCall(c, "scan", "sent")
    /\ IF Status(c.archive) = "scanned" \/ c.archive \in object
       THEN Begun(c, c.archive, Status(c.archive)) /\ UNCHANGED card
       ELSE EndsRun(c, "rejected")
    /\ UNCHANGED <<row, store, acts, faults>>

CommitScan(c) ==
    LET a == c.archive IN
    /\ IsCall(c, "scan", "begun")
    /\ row' = [row EXCEPT ![a].spaces = TRUE,
                          ![a].status = IF c.seen = "scanned" THEN @ ELSE "scanned"]
    /\ calls' = calls \ {c}
    /\ card' = IF c.by = Nobody THEN card
               ELSE [card EXCEPT ![c.by].archive = None, ![c.by].picker = a,
                                 ![c.by].outcome = "ready"]
    /\ UNCHANGED <<store, acts, faults>>

\* A call is lost or answered with an error; what it did in the store stays,
\* what it did to the row does not.  Whatever goes wrong while a scan reads the
\* store is answered like a file the server refuses.
CallFails(c) ==
    /\ faults < MaxFaults /\ faults' = faults + 1
    /\ c.kind # "hash"
    /\ \E outcome \in IF c.kind = "scan" THEN {"failed", "rejected"} ELSE {"failed"} :
        EndsRun(c, outcome)
    /\ UNCHANGED <<row, store, acts>>

-----------------------------------------------------------------------------
Serve(c) ==
    \/ Hashed(c)
    \/ BeginStart(c) \/ CommitStart(c)
    \/ PutPart(c)
    \/ BeginComplete(c) \/ CommitComplete(c)
    \/ BeginDelete(c) \/ CommitDelete(c)
    \/ BeginScan(c) \/ CommitScan(c)

User(t) ==
    \/ \E f \in Files : SelectFile(t, f)
    \/ PressUpload(t) \/ Pause(t) \/ CancelUpload(t)
    \/ DiscardPending(t) \/ UploadAnother(t) \/ DiscardPicked(t)
    \/ Restore(t) \/ Leave(t) \/ Look(t)

Next ==
    \/ \E c \in calls : Serve(c) \/ CallFails(c)
    \/ \E t \in Tabs : User(t)
    \/ \E a \in Archives : JobEnds(a)

Spec == Init /\ [][Next]_vars

-----------------------------------------------------------------------------
(* Properties *)

TypeOK ==
    /\ row \in [Archives -> Row]
    /\ open \subseteq Archives /\ object \subseteq Archives
    /\ parts \in [Archives -> SUBSET Parts]
    /\ calls \subseteq Call
    /\ card \in [Tabs -> Card]
    /\ acts \in 0 .. MaxActs /\ faults \in 0 .. MaxFaults

\* As long as no call has failed, a multipart upload is open exactly for the
\* rows that say so, but for the archives a handler is at work on.
RowsAgreeWithStore ==
    faults = 0 =>
        \A a \in Archives :
            \/ a \in open <=> Status(a) = "uploading"
            \/ \E c \in calls : c.archive = a /\ c.stage = "begun"

\* What is offered for restore, or restored from, is whole in the store.
BytesBehindRows ==
    \A a \in Archives :
        Status(a) \in {"uploaded", "scanned"} \/ row[a].job = "active" => a \in object

\* A run asks to complete an upload only when all its parts are stored.
CompletesWholeUploads ==
    \A c \in calls :
        IsCall(c, "complete", "sent") /\ c.archive \in open => parts[c.archive] = Parts

\* A run started when nothing else is under way and nothing fails any more
\* ends with the archive in the picker, whatever went before.
Alone(t) == acts = MaxActs /\ faults = MaxFaults /\ calls = Runs(t)
StartsAfresh(t) == Alone(t) /\ \E c \in Runs(t) : c.kind = "hash"
RunsReachThePicker ==
    \A t \in Tabs : StartsAfresh(t) ~> (card[t].outcome = "ready" /\ card[t].picker # None)

-----------------------------------------------------------------------------
\* Calls are served in the end.  Nobody has to look, decide or finish a restore.
FairSpec == Spec /\ WF_vars(\E c \in calls : Serve(c))
=============================================================================
