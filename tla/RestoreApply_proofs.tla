------------------------ MODULE RestoreApply_proofs ------------------------
(***************************************************************************)
(* Theorems about RestoreApply, for any archive, any holders and any bound *)
(* on executions, restores, faults and edits.                              *)
(***************************************************************************)
EXTENDS RestoreApply, TLAPS

-----------------------------------------------------------------------------
(* The inductive invariant. *)

\* The files are being copied, or are copied and not committed yet.
Copying ==
    \/ pc \in {"next", "copying", "relinking", "closing"}
    \/ pc = "finishing" /\ ~Savepoint
Applying == pc = "importing" \/ Copying

RunNumbered ==
    /\ pc = "surveying" => run = [NoRun EXCEPT !.n = tries]
    /\ pc # "idle" => run.n = tries
    /\ \A k \in db.files : k[2] <= tries
    /\ Savepoint /\ pc \in {"surveying", "importing", "next", "copying", "relinking",
                            "closing", "cleaning"} =>
          \A k \in db.files : k[2] # run.n

\* Outside the work on a restore the session has nothing to commit.
SessionClean ==
    /\ pc \in {"closing", "deleting"} => Savepoint
    /\ ~Applying => tx = NoTx
    /\ pc = "importing" =>
          tx.added = {} /\ \A h \in Holders : tx.texts[h] = IF h \in over THEN "absent" ELSE "same"

\* What the execution has stored is its own and not yet deleted.
CopiesKept ==
    /\ tx.added \subseteq run.created
    /\ \A k \in run.created : k[2] = run.n /\ HolderOf[k[1]] \notin run.existing
    /\ Applying => run.created \subseteq blobs
    /\ Applying /\ ~Savepoint =>
          \A k \in db.files : HolderOf[k[1]] \in run.existing \/ k \in run.created

NextFile == pc = "copying" => run.next \in Files

FilesCopied ==
    /\ pc = "importing" => run.next = 1
    /\ pc \in {"relinking", "closing", "deleting", "finishing"} => run.next = NFiles + 1
    /\ Copying => \A f \in Files : f < run.next /\ HolderOf[f] \notin run.existing =>
                      <<f, run.n>> \in db.files \cup tx.added

\* What the survey has seen is so until the work is committed.
SurveyHolds ==
    /\ Applying => run.existing \subseteq Visible /\ run.existing \cap over = {}
    /\ pc = "importing" \/ (Savepoint /\ Copying) => run.existing = Visible \ over
    /\ Applying => tx.gone = {k \in db.files : HolderOf[k[1]] \in over} /\ run.old = tx.gone
    /\ pc = "deleting" => run.old \cap db.files = {}
    /\ over \subseteq Visible

TextsApart ==
    /\ Copying => \A h \in Holders :
          /\ View(h) # "absent"
          /\ h \in run.existing => tx.texts[h] = "same"
          /\ Savepoint /\ h \notin run.existing =>
                tx.texts[h] \in {"restored", "repaired"}
          /\ Savepoint /\ h \notin run.existing /\ pc \in {"next", "copying", "relinking"} =>
                tx.texts[h] = "restored"
          /\ ~Savepoint /\ tx.texts[h] # "same" =>
                db.texts[h] = "absent" \/ h \in Repaired
          /\ ~Savepoint /\ tx.texts[h] # "same" /\ pc \in {"next", "copying", "relinking"} =>
                db.texts[h] = "absent"
    /\ \A h \in Holders :
          /\ run.read[h] # "absent" => h \notin run.existing
          /\ Savepoint /\ Applying => run.read[h] \in {"absent", "restored"}

RowsOfVisible == \A k \in db.files : HolderOf[k[1]] \in Visible

RestoreInvariant ==
    /\ TypeOK /\ NextFile /\ RunNumbered /\ SessionClean /\ CopiesKept /\ FilesCopied
    /\ SurveyHolds /\ TextsApart /\ RowsOfVisible /\ HoldersAreWhole
-----------------------------------------------------------------------------
(* Types, and what a commit does. *)

LEMMA NoRunTyped ==
    /\ NoRun \in Run /\ NoTx \in Tx
    /\ \A n \in 0 .. MaxTries : [NoRun EXCEPT !.n = n] \in Run
<1>1. 0 \in 0 .. MaxTries /\ 1 \in 1 .. NFiles + 1
  BY ArchiveAssumption, RestoreBounds
<1>2. NoRun \in Run
  BY <1>1 DEF NoRun, Run, Text
<1>3. NoTx \in Tx
  BY DEF NoTx, Tx, Text
<1>4. ASSUME NEW n \in 0 .. MaxTries PROVE [NoRun EXCEPT !.n = n] \in Run
  BY <1>2 DEF Run
<1> QED BY <1>2, <1>3, <1>4

LEMMA CommittedTyped ==
    ASSUME TypeOK
    PROVE  /\ \A h \in Holders : View(h) \in Text
           /\ Committed \in [texts : [Holders -> Text], files : SUBSET Key]
<1>1. \A h \in Holders : View(h) \in Text
  BY DEF TypeOK, Tx, View, Text
<1> QED BY <1>1 DEF TypeOK, Tx, Committed

LEMMA InitTyped == Init => TypeOK
<1> SUFFICES ASSUME Init PROVE TypeOK
  OBVIOUS
<1>1. db \in [texts : [Holders -> Text], files : SUBSET Key]
  BY DEF Init, Text
<1>2. over \subseteq Holders
  BY ArchiveAssumption DEF Init
<1>3. blobs \subseteq Key
  BY <1>1 DEF Init
<1>4. cancel \in BOOLEAN /\ due \in BOOLEAN
  BY DEF Init
<1>5. tries \in 0 .. MaxTries /\ jobs \in Nat /\ faults \in Nat /\ edits \in Nat
  BY RestoreBounds DEF Init
<1>6. tx \in Tx /\ run \in Run /\ pc \in Places /\ status = "queued" /\ left = {}
  BY NoRunTyped DEF Init, Places
<1> QED BY <1>1, <1>2, <1>3, <1>4, <1>5, <1>6 DEF TypeOK

LEMMA TypeStep == TypeOK /\ NextFile /\ [Next]_vars => TypeOK'
<1> SUFFICES ASSUME TypeOK, NextFile, [Next]_vars PROVE TypeOK'
  OBVIOUS
<1> USE DEF jobVars, boundVars
<1>1. CASE Start
  <2>1. tries + 1 \in 0 .. MaxTries
    BY <1>1, RestoreBounds DEF Start, TypeOK
  <2>2. run' \in Run
    BY <1>1, <2>1, NoRunTyped DEF Start
  <2> QED BY <1>1, <2>1, <2>2 DEF Start, TypeOK, Places
<1>2. CASE Survey
  <2> DEFINE old == UNION {db.files \cap KeysOf(h) : h \in over}
  <2>1. old \subseteq Key
    BY DEF KeysOf
  <2>2. tx' \in Tx
    BY <1>2, <2>1 DEF Survey, Tx, Text
  <2>3. run' \in Run
    BY <1>2, <2>1 DEF Survey, TypeOK, Run, Existing, Visible
  <2> QED BY <1>2, <2>2, <2>3 DEF Survey, TypeOK, Places
<1>3. CASE Import
  <2>1. tx' \in Tx
    BY <1>3 DEF Import, TypeOK, Tx, Text
  <2> QED BY <1>3, <2>1 DEF Import, TypeOK, Places
<1>4. CASE ImportCancelled \/ ProgressCancelled
  <2>1. run' \in Run
    BY <1>4 DEF ImportCancelled, ProgressCancelled, TypeOK, Run
  <2> QED BY <1>4, <2>1, NoRunTyped
          DEF ImportCancelled, ProgressCancelled, Rollback, TypeOK, Places
<1>5. CASE Progress
  BY <1>5, CommittedTyped, NoRunTyped DEF Progress, Commit, TypeOK, Places
<1>6. CASE Copy
  <2> DEFINE f == run.next
             h == HolderOf[f]
             k == <<f, run.n>>
  <2>1. f \in Files
    BY <1>6 DEF Copy, NextFile, Files
  <2>2. h \in Holders /\ k \in Key
    BY <2>1, ArchiveAssumption DEF TypeOK, Run, Key
  <2>3. PICK text \in IF run.read[h] = "absent" THEN {"restored", View(h)} ELSE {run.read[h]} :
          run' = [run EXCEPT !.created = @ \cup {k}, !.next = @ + 1, !.read[h] = text]
    BY <1>6 DEF Copy
  <2>4. text \in Text
    BY <2>2, <2>3 DEF TypeOK, Run, Tx, View, Text
  <2>5. f + 1 \in 1 .. NFiles + 1
    BY <2>1, ArchiveAssumption DEF Files
  <2>6. run' \in Run
    BY <2>2, <2>3, <2>4, <2>5 DEF TypeOK, Run
  <2>7. tx' \in Tx /\ blobs' \subseteq Key
    BY <1>6, <2>2 DEF Copy, TypeOK, Tx
  <2> QED BY <1>6, <2>6, <2>7 DEF Copy, TypeOK, Places
<1>7. CASE Skip
  <2>1. run.next + 1 \in 1 .. NFiles + 1
    BY <1>7, ArchiveAssumption DEF Skip, NextFile, Files
  <2>2. run' \in Run
    BY <1>7, <2>1 DEF Skip, TypeOK, Run
  <2> QED BY <1>7, <2>2 DEF Skip, TypeOK, Places
<1>8. CASE LastCopied \/ OldDeleted \/ CleanedUp
  BY <1>8 DEF LastCopied, OldDeleted, CleanedUp, TypeOK, Places
<1>9. CASE Relink
  <2>1. tx' \in Tx
    BY <1>9 DEF Relink, TypeOK, Tx, Text
  <2> QED BY <1>9, <2>1 DEF Relink, TypeOK, Places
<1>10. CASE Close \/ Finish
  BY <1>10, CommittedTyped, NoRunTyped DEF Close, Finish, Commit, TypeOK, Places
<1>11. CASE DeleteOld \/ CleanUp
  <2>1. run' \in Run
    BY <1>11 DEF DeleteOld, CleanUp, TypeOK, Run
  <2>2. blobs' \subseteq Key /\ faults' \in Nat
    BY <1>11 DEF DeleteOld, CleanUp, TypeOK, Run
  <2> QED BY <1>11, <2>1, <2>2 DEF DeleteOld, CleanUp, TypeOK
<1>12. CASE Raises
  BY <1>12, NoRunTyped DEF Raises, Fault, Rollback, TypeOK, Places
<1>13. CASE CopyingFails
  <2>1. blobs' \subseteq Key
    <3>1. CASE UNCHANGED blobs
      BY <3>1 DEF TypeOK
    <3>2. CASE /\ pc = "copying" /\ HolderOf[run.next] \notin run.existing
               /\ blobs' = blobs \cup {<<run.next, run.n>>}
      <4>1. run.n \in 0 .. MaxTries /\ run.next \in Files
        BY <3>2 DEF TypeOK, Run, NextFile
      <4> QED BY <3>2, <4>1 DEF TypeOK, Key
    <3> QED BY <1>13, <3>1, <3>2 DEF CopyingFails
  <2> QED BY <1>13, <2>1, NoRunTyped DEF CopyingFails, Fault, Rollback, TypeOK, Places
<1>14. CASE End \/ Interrupt \/ WorkerDies
  <2>1. left' \subseteq Holders
    BY <1>14 DEF End, Interrupt, WorkerDies, Stops, Made, Visible, TypeOK
  <2>2. tx' \in Tx /\ run' \in Run
    BY <1>14, NoRunTyped DEF End, Interrupt, WorkerDies, Rollback, TypeOK
  <2>3. /\ status' \in {"queued", "running", "complete", "failed", "cancelled"}
        /\ faults' \in Nat
    BY <1>14 DEF End, Interrupt, WorkerDies, Fault, TypeOK
  <2>4. due' \in BOOLEAN
    BY <1>14 DEF End, Interrupt, WorkerDies, TypeOK
  <2> QED BY <1>14, <2>1, <2>2, <2>3, <2>4
          DEF End, Interrupt, WorkerDies, Rollback, TypeOK, Places
<1>15. CASE Cancel
  BY <1>15 DEF Cancel, TypeOK
<1>16. CASE RestoreAgain
  <2>1. over' \subseteq Holders
    BY <1>16 DEF RestoreAgain, Visible
  <2>2. cancel' \in BOOLEAN /\ due' \in BOOLEAN
    BY <1>16 DEF RestoreAgain
  <2>3. status' = "queued" /\ jobs' \in Nat
    BY <1>16 DEF RestoreAgain, TypeOK
  <2> QED BY <1>16, <2>1, <2>2, <2>3 DEF RestoreAgain, TypeOK
<1>17. ASSUME NEW h \in Holders, Edit(h) PROVE TypeOK'
  BY <1>17 DEF Edit, TypeOK, Text
<1>18. CASE UNCHANGED vars
  BY <1>18 DEF vars, TypeOK
<1> QED BY <1>1, <1>2, <1>3, <1>4, <1>5, <1>6, <1>7, <1>8, <1>9, <1>10, <1>11, <1>12,
          <1>13, <1>14, <1>15, <1>16, <1>17, <1>18 DEF Next

LEMMA NextFileStep == TypeOK /\ NextFile /\ [Next]_vars => NextFile'
<1> SUFFICES ASSUME TypeOK, NextFile, [Next]_vars, pc' = "copying"
             PROVE  run'.next \in Files
  BY DEF NextFile
<1>1. CASE Progress
  BY <1>1, ArchiveAssumption DEF Progress, TypeOK, Run, Files
<1>2. CASE Cancel \/ RestoreAgain \/ UNCHANGED vars \/ \E h \in Holders : Edit(h)
  BY <1>2 DEF Cancel, RestoreAgain, Edit, vars, NextFile
<1> QED BY <1>1, <1>2
        DEF Next, Start, Survey, Import, ImportCancelled, ProgressCancelled, Copy, Skip,
            LastCopied, Relink, Close, DeleteOld, OldDeleted, Finish, Raises,
            CopyingFails, CleanUp, CleanedUp, End, Interrupt, WorkerDies

\* Whatever happens, every state and every step has the shape the model gives it.
THEOREM TypeCorrect == Spec => []TypeOK
<1>1. Init => TypeOK /\ NextFile
  BY InitTyped DEF Init, NextFile
<1>2. TypeOK /\ NextFile /\ [Next]_vars => TypeOK' /\ NextFile'
  BY TypeStep, NextFileStep
<1> QED BY <1>1, <1>2, PTL DEF Spec

-----------------------------------------------------------------------------
(* What others see. *)

\* Nothing is seen of a change until the session commits.
LEMMA NothingCommitted ==
    ASSUME TypeOK, [Next]_vars, ~Progress, ~Close, ~Finish
    PROVE  db'.files = db.files /\ Visible' = Visible
<1>1. ASSUME NEW h \in Holders, Edit(h) PROVE db'.files = db.files /\ Visible' = Visible
  BY <1>1 DEF Edit, Visible, TypeOK
<1> QED BY <1>1
        DEF Next, vars, Visible, Start, Survey, Import, ImportCancelled,
            ProgressCancelled, Copy, Skip, LastCopied, Relink, DeleteOld, OldDeleted,
            Raises, CopyingFails, CleanUp, CleanedUp, End, Interrupt, WorkerDies,
            Rollback, Cancel, RestoreAgain

\* A commit shows what the session has changed, and nothing after it was closed.
LEMMA CommitFacts ==
    ASSUME TypeOK, TextsApart, SessionClean, Commit, Progress \/ Close \/ Finish
    PROVE  /\ tx' = NoTx
           /\ ~Copying => db' = db
           /\ db'.files = (db.files \ tx.gone) \cup tx.added
           /\ Copying => Visible' = Holders
           /\ \A h \in Holders : db'.texts[h] = View(h)
<1>1. tx' = NoTx /\ db' = Committed
  BY DEF Commit
<1>2. ASSUME ~Copying PROVE db' = db
  <2>1. tx = NoTx
    BY <1>2 DEF Progress, Close, Finish, Copying, Applying, SessionClean
  <2>2. Committed = [texts |-> [h \in Holders |-> db.texts[h]], files |-> db.files]
    BY <2>1 DEF Committed, NoTx, View
  <2> QED BY <1>1, <2>2 DEF TypeOK
<1>3. \A h \in Holders : db'.texts[h] = View(h)
  BY <1>1 DEF Committed
<1> QED BY <1>1, <1>2, <1>3 DEF Committed, TextsApart, Visible

\* Pages are never taken from what others see.
LEMMA VisibleStays ==
    ASSUME TypeOK, TextsApart, SessionClean, [Next]_vars
    PROVE  Visible \subseteq Visible'
<1>1. CASE Commit /\ (Progress \/ Close \/ Finish)
  BY <1>1, CommitFacts DEF Visible
<1>2. CASE Progress /\ ~Commit
  BY <1>2 DEF Progress, Visible
<1> QED BY <1>1, <1>2, NothingCommitted DEF Close, Finish

-----------------------------------------------------------------------------
(* Every step keeps the invariant. *)

LEMMA RunNumberedStep == RestoreInvariant /\ [Next]_vars => RunNumbered'
<1> SUFFICES ASSUME RestoreInvariant, [Next]_vars PROVE RunNumbered'
  OBVIOUS
<1> USE DEF RestoreInvariant, jobVars, boundVars, Savepoint
<1>1. CASE Start
  BY <1>1 DEF Start, RunNumbered, TypeOK, NoRun, Key
<1>2. CASE Commit /\ (Progress \/ Close \/ Finish)
  <2>1. \A k \in db'.files : k \in db.files \/ k[2] = run.n
    BY <1>2, CommitFacts DEF CopiesKept
  <2>2. pc # "idle"
    BY <1>2 DEF Progress, Close, Finish
  <2>3. run.n = tries /\ \A k \in db'.files : k[2] <= tries
    BY <2>1, <2>2 DEF RunNumbered, TypeOK
  <2>4. CASE Progress
    <3>1. ~Savepoint \/ db' = db
      BY <2>4 DEF Progress, Commits
    <3> QED BY <2>2, <2>3, <2>4, <3>1 DEF Progress, RunNumbered
  <2>5. CASE Close
    BY <2>2, <2>3, <2>5 DEF Close, RunNumbered
  <2>6. CASE Finish
    BY <2>2, <2>3, <2>6 DEF Finish, RunNumbered
  <2> QED BY <1>2, <2>4, <2>5, <2>6
<1>3. CASE Progress /\ ~Commit
  BY <1>3 DEF Progress, RunNumbered
<1>4. CASE Survey
  BY <1>4 DEF Survey, RunNumbered, TypeOK, Run
<1>5. CASE Copy \/ Skip \/ CleanUp \/ DeleteOld \/ ImportCancelled \/ ProgressCancelled
  <2>1. run'.n = run.n
    BY <1>5 DEF Copy, Skip, CleanUp, DeleteOld, ImportCancelled, ProgressCancelled, TypeOK, Run
  <2> QED BY <1>5, <2>1
          DEF Copy, Skip, CleanUp, DeleteOld, ImportCancelled, ProgressCancelled, Rollback,
              RunNumbered
<1>6. CASE \/ Import \/ LastCopied \/ Relink \/ OldDeleted \/ Raises \/ CopyingFails
           \/ CleanedUp
  BY <1>6 DEF Import, LastCopied, Relink, OldDeleted, Raises, CopyingFails, CleanedUp,
              Rollback, RunNumbered
<1>7. CASE End \/ Interrupt \/ WorkerDies \/ RestoreAgain
  BY <1>7 DEF End, Interrupt, WorkerDies, RestoreAgain, Rollback, RunNumbered
<1>8. CASE Cancel \/ UNCHANGED vars
  BY <1>8 DEF Cancel, vars, RunNumbered
<1>9. ASSUME NEW h \in Holders, Edit(h) PROVE RunNumbered'
  BY <1>9, NothingCommitted DEF Edit, RunNumbered, TypeOK
<1> QED BY <1>1, <1>2, <1>3, <1>4, <1>5, <1>6, <1>7, <1>8, <1>9 DEF Next, Close, Finish

LEMMA SessionCleanStep == RestoreInvariant /\ [Next]_vars => SessionClean'
<1> SUFFICES ASSUME RestoreInvariant, [Next]_vars PROVE SessionClean'
  OBVIOUS
<1> USE DEF RestoreInvariant, jobVars, boundVars, Savepoint, SessionClean, Applying, Copying
<1>1. CASE Survey
  BY <1>1 DEF Survey
<1>2. CASE Start \/ Import \/ Copy \/ Skip \/ LastCopied \/ Relink
  BY <1>2 DEF Start, Import, Copy, Skip, LastCopied, Relink
<1>3. CASE Progress \/ Close \/ Finish
  BY <1>3 DEF Progress, Close, Finish, Commit
<1>4. CASE \/ ImportCancelled \/ ProgressCancelled \/ Raises \/ CopyingFails
           \/ End \/ Interrupt \/ WorkerDies
  BY <1>4 DEF ImportCancelled, ProgressCancelled, Raises, CopyingFails, End, Interrupt,
              WorkerDies, Rollback
<1>5. CASE DeleteOld \/ OldDeleted \/ CleanUp \/ CleanedUp
  BY <1>5 DEF DeleteOld, OldDeleted, CleanUp, CleanedUp
<1>6. CASE Cancel \/ RestoreAgain \/ UNCHANGED vars \/ \E h \in Holders : Edit(h)
  BY <1>6 DEF Cancel, RestoreAgain, Edit, vars
<1> QED BY <1>1, <1>2, <1>3, <1>4, <1>5, <1>6 DEF Next

LEMMA CopiesKeptStep == RestoreInvariant /\ [Next]_vars => CopiesKept'
<1> SUFFICES ASSUME RestoreInvariant, [Next]_vars PROVE CopiesKept'
  OBVIOUS
<1> USE DEF RestoreInvariant, jobVars, boundVars, Savepoint, Applying, Copying
<1>1. CASE Start \/ End \/ Interrupt \/ WorkerDies \/ Finish
  BY <1>1 DEF Start, End, Interrupt, WorkerDies, Finish, Commit, Rollback, SessionClean,
              CopiesKept, NoTx, NoRun
<1>2. CASE Survey
  BY <1>2 DEF Survey, CopiesKept, RunNumbered, RowsOfVisible, Existing, NoRun, TypeOK, Run
<1>3. CASE Copy
  BY <1>3 DEF Copy, CopiesKept, TypeOK, Run, Tx
<1>4. CASE Skip
  BY <1>4 DEF Skip, CopiesKept, TypeOK, Run
<1>5. CASE LastCopied \/ OldDeleted \/ CleanedUp
  BY <1>5 DEF LastCopied, OldDeleted, CleanedUp, SessionClean, CopiesKept
<1>6. CASE Import \/ Relink
  BY <1>6 DEF Import, Relink, CopiesKept, TypeOK, Tx
<1>7. CASE ImportCancelled \/ ProgressCancelled \/ Raises
  BY <1>7 DEF ImportCancelled, ProgressCancelled, Raises, Rollback, CopiesKept, NoTx,
              TypeOK, Run
<1>8. CASE Progress \/ Close
  BY <1>8 DEF Progress, Close, Commit, Committed, CopiesKept, NoTx
<1>9. CASE CopyingFails
  BY <1>9 DEF CopyingFails, Rollback, CopiesKept, NoTx
<1>10. CASE DeleteOld \/ CleanUp
  <2>1. tx' = NoTx /\ run'.created \subseteq run.created
    BY <1>10 DEF DeleteOld, CleanUp, SessionClean, TypeOK, Run
  <2>2. run'.n = run.n /\ run'.existing = run.existing
    BY <1>10 DEF DeleteOld, CleanUp, TypeOK, Run
  <2> QED BY <1>10, <2>1, <2>2 DEF DeleteOld, CleanUp, CopiesKept, NoTx
<1>11. CASE Cancel \/ RestoreAgain \/ UNCHANGED vars
  BY <1>11 DEF Cancel, RestoreAgain, vars, CopiesKept
<1>12. ASSUME NEW h \in Holders, Edit(h) PROVE CopiesKept'
  BY <1>12 DEF Edit, CopiesKept, TypeOK
<1> QED BY <1>1, <1>2, <1>3, <1>4, <1>5, <1>6, <1>7, <1>8, <1>9, <1>10, <1>11, <1>12
        DEF Next

LEMMA FilesCopiedStep == RestoreInvariant /\ [Next]_vars => FilesCopied'
<1> SUFFICES ASSUME RestoreInvariant, [Next]_vars PROVE FilesCopied'
  OBVIOUS
<1> USE DEF RestoreInvariant, jobVars, boundVars, Savepoint, Copying
<1>1. CASE \/ Start \/ Raises \/ End \/ Interrupt \/ WorkerDies \/ ImportCancelled
           \/ ProgressCancelled \/ CopyingFails \/ CleanUp \/ CleanedUp
  BY <1>1 DEF Start, Raises, End, Interrupt, WorkerDies, ImportCancelled, ProgressCancelled,
              CopyingFails, CleanUp, CleanedUp, FilesCopied
<1>2. CASE Survey
  BY <1>2 DEF Survey, FilesCopied, RunNumbered, NoRun
<1>3. CASE Import
  BY <1>3, ArchiveAssumption DEF Import, FilesCopied, Files
<1>4. CASE Progress
  <2>1. db'.files \cup tx'.added = db.files \cup tx.added
    <3>1. CASE UNCHANGED <<db, tx>>
      BY <3>1
    <3>2. CASE Commit /\ ~Savepoint
      BY <1>4, <3>2, CommitFacts DEF SurveyHolds, Applying, NoTx, Progress
    <3> QED BY <1>4, <3>1, <3>2 DEF Progress, Commits
  <2> QED BY <1>4, <2>1 DEF Progress, FilesCopied
<1>5. CASE Copy
  <2>1. tx'.added = tx.added \cup {<<run.next, run.n>>} /\ db' = db
    BY <1>5 DEF Copy, TypeOK, Tx
  <2>2. run'.next = run.next + 1 /\ run'.n = run.n /\ run'.existing = run.existing
    BY <1>5 DEF Copy, TypeOK, Run
  <2>3. \A f \in Files : f < run.next + 1 => f < run.next \/ f = run.next
    BY <1>5, ArchiveAssumption DEF Copy, NextFile, Files
  <2> QED BY <1>5, <2>1, <2>2, <2>3 DEF Copy, FilesCopied
<1>6. CASE Skip
  <2>1. run'.next = run.next + 1 /\ run'.n = run.n /\ run'.existing = run.existing
    BY <1>6 DEF Skip, TypeOK, Run
  <2>2. \A f \in Files : f < run.next + 1 => f < run.next \/ f = run.next
    BY <1>6, ArchiveAssumption DEF Skip, NextFile, Files
  <2> QED BY <1>6, <2>1, <2>2 DEF Skip, FilesCopied
<1>7. CASE LastCopied
  <2>1. run.next = NFiles + 1
    BY <1>7, ArchiveAssumption DEF LastCopied, TypeOK, Run
  <2> QED BY <1>7, <2>1 DEF LastCopied, FilesCopied
<1>8. CASE Relink
  BY <1>8 DEF Relink, FilesCopied, TypeOK, Tx
<1>9. CASE Close \/ Finish \/ OldDeleted
  BY <1>9 DEF Close, Finish, OldDeleted, FilesCopied, SessionClean
<1>10. CASE DeleteOld
  BY <1>10 DEF DeleteOld, FilesCopied, TypeOK, Run
<1>11. CASE Cancel \/ RestoreAgain \/ UNCHANGED vars
  BY <1>11 DEF Cancel, RestoreAgain, vars, FilesCopied
<1>12. ASSUME NEW h \in Holders, Edit(h) PROVE FilesCopied'
  BY <1>12 DEF Edit, FilesCopied, TypeOK
<1> QED BY <1>1, <1>2, <1>3, <1>4, <1>5, <1>6, <1>7, <1>8, <1>9, <1>10, <1>11, <1>12 DEF Next

LEMMA SurveyHoldsStep == RestoreInvariant /\ [Next]_vars => SurveyHolds'
<1> SUFFICES ASSUME RestoreInvariant, [Next]_vars PROVE SurveyHolds'
  OBVIOUS
<1> USE DEF RestoreInvariant, jobVars, boundVars, Savepoint, Applying, Copying
<1>0. Visible \subseteq Visible'
  BY VisibleStays
<1>1. CASE \/ Start \/ Raises \/ End \/ Interrupt \/ WorkerDies \/ ImportCancelled
           \/ ProgressCancelled \/ CopyingFails \/ CleanUp \/ CleanedUp
  BY <1>0, <1>1 DEF Start, Raises, End, Interrupt, WorkerDies, ImportCancelled,
        ProgressCancelled, CopyingFails, CleanUp, CleanedUp, SurveyHolds
<1>2. CASE Survey
  <2>1. UNION {db.files \cap KeysOf(h) : h \in over}
          = {k \in db.files : HolderOf[k[1]] \in over}
    BY DEF KeysOf, TypeOK
  <2>2. /\ tx'.gone = {k \in db.files : HolderOf[k[1]] \in over}
        /\ run'.old = tx'.gone /\ run'.existing = Visible \ over
    BY <1>2, <2>1 DEF Survey, Existing, TypeOK, Run
  <2>3. Visible' = Visible
    BY <1>2, NothingCommitted DEF Survey, Progress, Close, Finish
  <2> QED BY <1>2, <2>2, <2>3 DEF Survey, SurveyHolds
<1>3. CASE Import \/ Copy \/ Skip \/ LastCopied \/ Relink
  <2>1. Visible' = Visible /\ db' = db /\ over' = over
    BY <1>3 DEF Import, Copy, Skip, LastCopied, Relink, Visible
  <2>2. tx'.gone = tx.gone
    BY <1>3 DEF Import, Copy, Skip, LastCopied, Relink, TypeOK, Tx
  <2>3. run'.existing = run.existing /\ run'.old = run.old
    BY <1>3 DEF Import, Copy, Skip, LastCopied, Relink, TypeOK, Run
  <2> QED BY <1>3, <2>1, <2>2, <2>3 DEF Import, Copy, Skip, LastCopied, Relink, SurveyHolds
<1>4. CASE Progress
  <2>1. CASE UNCHANGED <<db, tx>>
    BY <1>4, <2>1 DEF Progress, SurveyHolds, Visible
  <2>2. CASE Commit /\ ~Savepoint
    <3>1. tx' = NoTx /\ pc' = "copying" /\ over' = {} /\ over = {} /\ run' = run
      BY <1>4, <2>2 DEF Progress, Commit
    <3>2. tx.gone = {} /\ run.old = {}
      BY <1>4, <3>1 DEF Progress, SurveyHolds
    <3>3. run.existing \subseteq Visible'
      BY <1>0, <1>4 DEF Progress, SurveyHolds
    <3> QED BY <3>1, <3>2, <3>3 DEF SurveyHolds, NoTx
  <2> QED BY <1>4, <2>1, <2>2 DEF Progress, Commits
<1>5. CASE Close
  <2>1. db'.files = (db.files \ tx.gone) \cup tx.added
    BY <1>5, CommitFacts DEF Close
  <2>2. run.old \cap db'.files = {}
    BY <1>5, <2>1 DEF Close, SurveyHolds, CopiesKept, RunNumbered, SessionClean
  <2> QED BY <1>0, <1>5, <2>2 DEF Close, SurveyHolds
<1>6. CASE Finish \/ OldDeleted
  BY <1>0, <1>6 DEF Finish, OldDeleted, SurveyHolds, SessionClean
<1>7. CASE DeleteOld
  <2>1. run'.old \subseteq run.old
    BY <1>7 DEF DeleteOld, TypeOK, Run
  <2> QED BY <1>0, <1>7, <2>1 DEF DeleteOld, SurveyHolds
<1>8. CASE Cancel \/ RestoreAgain \/ UNCHANGED vars
  BY <1>8 DEF Cancel, RestoreAgain, vars, SurveyHolds, Visible
<1>9. ASSUME NEW h \in Holders, Edit(h) PROVE SurveyHolds'
  <2>1. db'.files = db.files /\ Visible' = Visible
    BY <1>9, NothingCommitted DEF Edit, Progress, Close, Finish, TypeOK, Visible
  <2> QED BY <1>9, <2>1 DEF Edit, SurveyHolds
<1> QED BY <1>1, <1>2, <1>3, <1>4, <1>5, <1>6, <1>7, <1>8, <1>9 DEF Next

LEMMA TextsApartStep == RestoreInvariant /\ [Next]_vars => TextsApart'
<1> SUFFICES ASSUME RestoreInvariant, [Next]_vars PROVE TextsApart'
  OBVIOUS
<1> USE DEF RestoreInvariant, jobVars, boundVars, Savepoint, Applying, Copying
<1>1. CASE \/ Start \/ End \/ Interrupt \/ WorkerDies \/ Finish
  BY <1>1 DEF Start, End, Interrupt, WorkerDies, Finish, TextsApart, NoRun
<1>2. CASE \/ Raises \/ CopyingFails \/ CleanedUp \/ OldDeleted \/ Close
  BY <1>2 DEF Raises, CopyingFails, CleanedUp, OldDeleted, Close, SessionClean, TextsApart
<1>3. CASE ImportCancelled \/ ProgressCancelled \/ CleanUp \/ DeleteOld
  <2>1. run'.read = run.read /\ run'.existing = run.existing
    BY <1>3 DEF ImportCancelled, ProgressCancelled, CleanUp, DeleteOld, TypeOK, Run
  <2> QED BY <1>3, <2>1
          DEF ImportCancelled, ProgressCancelled, CleanUp, DeleteOld, TextsApart
<1>4. CASE Survey
  <2>1. \A h \in Holders : run'.read[h] = "absent"
    BY <1>4 DEF Survey, RunNumbered, NoRun
  <2> QED BY <1>4, <2>1 DEF Survey, TextsApart
<1>5. CASE Import
  <2>1. \A h \in Holders : tx'.texts[h] = IF View(h) = "absent" THEN "restored" ELSE tx.texts[h]
    BY <1>5 DEF Import, TypeOK, Tx
  <2>2. \A h \in Holders : tx.texts[h] = IF h \in over THEN "absent" ELSE "same"
    BY <1>5 DEF Import, SessionClean
  <2>3. \A h \in Holders : h \in run.existing <=> db.texts[h] # "absent" /\ h \notin over
    BY <1>5 DEF Import, SurveyHolds, Visible
  <2>4. ASSUME NEW h \in Holders
        PROVE  tx'.texts[h] = IF h \in run.existing THEN "same" ELSE "restored"
    BY <2>1, <2>2, <2>3 DEF View
  <2> QED BY <1>5, <2>2, <2>3, <2>4 DEF Import, TextsApart, View
<1>6. CASE Progress
  <2>1. CASE UNCHANGED <<db, tx>>
    BY <1>6, <2>1 DEF Progress, TextsApart, View
  <2>2. CASE Commit /\ ~Savepoint
    <3>1. \A h \in Holders : tx'.texts[h] = "same" /\ db'.texts[h] = View(h)
      BY <1>6, <2>2, CommitFacts DEF NoTx
    <3> QED BY <1>6, <2>2, <3>1 DEF Progress, TextsApart, View
  <2> QED BY <1>6, <2>1, <2>2 DEF Progress, Commits
<1>7. CASE Copy
  <2> DEFINE g == HolderOf[run.next]
  <2>1. PICK text \in IF run.read[g] = "absent" THEN {"restored", View(g)} ELSE {run.read[g]} :
          run' = [run EXCEPT !.created = @ \cup {<<run.next, run.n>>}, !.next = @ + 1,
                             !.read[g] = text]
    BY <1>7 DEF Copy
  <2>2. /\ run'.existing = run.existing /\ tx'.texts = tx.texts
        /\ \A h \in Holders : run'.read[h] = IF h = g THEN text ELSE run.read[h]
    BY <1>7, <2>1 DEF Copy, TypeOK, Run, Tx
  <2>3. g \in Holders /\ g \notin run.existing
    BY <1>7, ArchiveAssumption DEF Copy, NextFile
  <2>4. Savepoint => text = "restored"
    BY <1>7, <2>1, <2>3 DEF Copy, TextsApart, View
  <2> QED BY <1>7, <2>2, <2>3, <2>4 DEF Copy, TextsApart, View
<1>8. CASE Skip \/ LastCopied
  <2>1. run'.existing = run.existing /\ run'.read = run.read
    BY <1>8 DEF Skip, LastCopied, TypeOK, Run
  <2> QED BY <1>8, <2>1 DEF Skip, LastCopied, TextsApart, View
<1>9. CASE Relink
  <2>1. \A h \in Holders : tx'.texts[h] =
          IF h \in Relinked THEN (IF run.read[h] = "edited" THEN "edited" ELSE "repaired")
                            ELSE tx.texts[h]
    BY <1>9 DEF Relink, TypeOK, Tx
  <2>2. \A h \in Relinked : /\ h \in Repaired /\ h \notin run.existing
                            /\ Savepoint => run.read[h] = "restored"
    BY <1>9, ArchiveAssumption DEF Relink, Relinked, TextsApart
  <2>3. UNCHANGED <<db, run, over>> /\ pc = "relinking" /\ pc' \in {"closing", "finishing"}
    BY <1>9 DEF Relink
  <2>4. ASSUME NEW h \in Holders, h \in Relinked
        PROVE  /\ tx'.texts[h] \in {"edited", "repaired"}
               /\ Savepoint => tx'.texts[h] = "repaired"
    BY <2>1, <2>2, <2>4
  <2>5. ASSUME NEW h \in Holders, h \notin Relinked
        PROVE  tx'.texts[h] = tx.texts[h]
    BY <2>1, <2>5
  <2> QED BY <2>2, <2>3, <2>4, <2>5 DEF TextsApart, View
<1>10. CASE Cancel \/ RestoreAgain \/ UNCHANGED vars
  BY <1>10 DEF Cancel, RestoreAgain, vars, TextsApart, View
<1>11. ASSUME NEW g \in Holders, Edit(g) PROVE TextsApart'
  <2>1. \A h \in Holders : db'.texts[h] = IF h = g THEN "edited" ELSE db.texts[h]
    BY <1>11 DEF Edit, TypeOK
  <2>2. tx.texts[g] = "same" /\ UNCHANGED <<tx, pc, run, over>>
    BY <1>11 DEF Edit
  <2> QED BY <2>1, <2>2 DEF TextsApart, View
<1> QED BY <1>1, <1>2, <1>3, <1>4, <1>5, <1>6, <1>7, <1>8, <1>9, <1>10, <1>11 DEF Next

LEMMA RowsOfVisibleStep == RestoreInvariant /\ [Next]_vars => RowsOfVisible'
<1> SUFFICES ASSUME RestoreInvariant, [Next]_vars, TypeOK' PROVE RowsOfVisible'
  BY TypeStep DEF RestoreInvariant
<1> USE DEF RestoreInvariant
<1>1. CASE Commit /\ Copying /\ (Progress \/ Close \/ Finish)
  <2>1. Visible' = Holders
    BY <1>1, CommitFacts
  <2> QED BY <2>1, ArchiveAssumption DEF RowsOfVisible, TypeOK, Key
<1>2. CASE db' = db
  BY <1>2 DEF RowsOfVisible, Visible
<1>3. CASE ~Progress /\ ~Close /\ ~Finish
  BY <1>3, NothingCommitted DEF RowsOfVisible
<1> QED BY <1>1, <1>2, <1>3, CommitFacts DEF Progress, Close, Finish

-----------------------------------------------------------------------------
(* Whole holders. *)

\* Where no row changes and none loses its object, what was whole is whole.
LEMMA WholeKept ==
    ASSUME HoldersAreWhole, db'.files = db.files, Visible' = Visible,
           left \cup UnderWay \subseteq left' \cup UnderWay',
           \A h \in Visible \ (left \cup UnderWay) :
              db.files \cap KeysOf(h) \cap blobs \subseteq blobs'
    PROVE  HoldersAreWhole'
<1> SUFFICES ASSUME NEW h \in Visible \ (left \cup UnderWay) PROVE Whole(h)'
  BY DEF HoldersAreWhole
<1>1. Whole(h)
  BY DEF HoldersAreWhole
<1> QED BY <1>1 DEF Whole, KeysOf

\* What is committed of a holder that the execution found is left alone.
LEMMA ExistingKept ==
    ASSUME RestoreInvariant, Copying, Commit, Progress \/ Close \/ Finish,
           NEW h \in run.existing
    PROVE  /\ db'.texts[h] = db.texts[h]
           /\ db'.files \cap KeysOf(h) = db.files \cap KeysOf(h)
<1> USE DEF RestoreInvariant
<1>1. h \in Holders /\ h \notin over
  BY DEF SurveyHolds, Applying, TypeOK, Run
<1>2. db'.texts[h] = db.texts[h]
  BY <1>1, CommitFacts DEF TextsApart, View
<1>3. /\ \A k \in tx.gone : HolderOf[k[1]] # h
      /\ \A k \in tx.added : HolderOf[k[1]] # h
  BY <1>1 DEF SurveyHolds, Applying, CopiesKept
<1> QED BY <1>2, <1>3, CommitFacts DEF KeysOf

\* At the end of the work all files of a holder that the execution made are
\* there, and in the store; and if it overwrites, nothing else.
LEMMA WholeWhenDone ==
    ASSUME RestoreInvariant, Commit, Close \/ (Finish /\ Copying),
           NEW h \in Holders \ run.existing
    PROVE  /\ Whole(h)'
           /\ Savepoint => db'.files \cap KeysOf(h) = {k \in KeysOf(h) : k[2] = run.n}
<1> USE DEF RestoreInvariant
<1>0. Copying /\ Applying /\ run.next = NFiles + 1 /\ blobs' = blobs
  BY DEF Close, Finish, Copying, Applying, FilesCopied
<1>1. db'.files = (db.files \ tx.gone) \cup tx.added
  BY CommitFacts
<1>2. \A f \in Files : HolderOf[f] = h => <<f, run.n>> \in db.files \cup tx.added
  BY <1>0, ArchiveAssumption DEF FilesCopied, Files
<1>3. CASE Savepoint
  <2>0. pc = "closing"
    BY <1>3 DEF Close, Finish, Copying
  <2>1. \A k \in db.files : k[2] # run.n
    BY <1>3, <2>0 DEF RunNumbered
  <2>2. \A f \in Files : HolderOf[f] = h => <<f, run.n>> \in tx.added
    BY <1>2, <2>1
  <2>3. ASSUME NEW k \in db.files, k \in KeysOf(h) PROVE k \in tx.gone
    BY <1>0, <1>3, <2>3 DEF SurveyHolds, RowsOfVisible, KeysOf
  <2>4. db'.files \cap KeysOf(h) = tx.added \cap KeysOf(h)
    BY <1>1, <2>3
  <2>5. \A k \in tx.added : k \in blobs /\ k[2] = run.n
    BY <1>0 DEF CopiesKept
  <2>6. ASSUME NEW k \in KeysOf(h), k[2] = run.n PROVE k \in tx.added
    BY <2>2, <2>6 DEF KeysOf, Key
  <2>7. \A f \in Files : HolderOf[f] = h => <<f, run.n>> \in db'.files
    BY <1>1, <2>2
  <2> QED BY <1>0, <2>4, <2>5, <2>6, <2>7 DEF Whole, KeysOf
<1>4. CASE ~Savepoint
  <2>1. tx.gone = {}
    BY <1>0, <1>4 DEF SurveyHolds, Savepoint
  <2>2. \A f \in Files : HolderOf[f] = h => <<f, run.n>> \in db'.files
    BY <1>1, <1>2, <2>1
  <2>3. ASSUME NEW k \in db'.files, k \in KeysOf(h) PROVE k \in blobs
    BY <1>0, <1>1, <1>4, <2>3 DEF CopiesKept, KeysOf
  <2> QED BY <1>0, <1>4, <2>2, <2>3 DEF Whole, KeysOf
<1> QED BY <1>3, <1>4

LEMMA HoldersAreWholeStep == RestoreInvariant /\ [Next]_vars => HoldersAreWhole'
<1> SUFFICES ASSUME RestoreInvariant, [Next]_vars PROVE HoldersAreWhole'
  OBVIOUS
<1> USE DEF RestoreInvariant
<1>1. CASE db' = db /\ Finish
  <2>1. Visible' = Visible /\ left' = left /\ UnderWay' = {}
    BY <1>1 DEF Finish, Visible, UnderWay
  <2>2. CASE Copying
    <3>1. Visible = Holders
      BY <1>1, <2>1, <2>2, CommitFacts DEF Finish
    <3> SUFFICES ASSUME NEW h \in Visible \ left PROVE Whole(h)'
      BY <2>1 DEF HoldersAreWhole
    <3>2. CASE h \in run.existing
      <4>1. Whole(h)
        BY <3>2 DEF HoldersAreWhole, UnderWay, Made
      <4> QED BY <1>1, <4>1 DEF Finish, Whole, KeysOf
    <3>3. CASE h \notin run.existing
      BY <1>1, <2>2, <3>1, <3>3, WholeWhenDone DEF Finish
    <3> QED BY <3>2, <3>3
  <2>3. CASE ~Copying
    <3>1. UnderWay = {}
      BY <1>1, <2>3 DEF Finish, Copying, UnderWay
    <3> QED BY <1>1, <2>1, <3>1, WholeKept DEF Finish
  <2> QED BY <2>2, <2>3
<1>2. CASE Finish /\ db' # db
  <2>1. Copying /\ Commit
    BY <1>2, CommitFacts DEF Finish
  <2>2. Visible' = Holders /\ left' = left /\ UnderWay' = {} /\ blobs' = blobs
    BY <1>2, <2>1, CommitFacts DEF Finish, UnderWay
  <2> SUFFICES ASSUME NEW h \in Holders \ left PROVE Whole(h)'
    BY <2>2 DEF HoldersAreWhole
  <2>3. CASE h \in run.existing
    <3>1. h \in Visible /\ h \notin Made
      BY <2>1, <2>3 DEF SurveyHolds, Applying, Made
    <3>2. Whole(h)
      BY <3>1 DEF HoldersAreWhole, UnderWay
    <3>3. db'.files \cap KeysOf(h) = db.files \cap KeysOf(h)
      BY <1>2, <2>1, <2>3, ExistingKept
    <3>4. \A f \in Files : HolderOf[f] = h => \E k \in db'.files : k[1] = f
      BY <3>2, <3>3 DEF Whole, KeysOf, TypeOK
    <3> QED BY <2>2, <3>2, <3>3, <3>4 DEF Whole, KeysOf
  <2>4. CASE h \notin run.existing
    BY <1>2, <2>1, <2>4, WholeWhenDone
  <2> QED BY <2>3, <2>4
<1>3. CASE Close
  <2>1. Copying /\ Commit /\ Savepoint /\ UnderWay = {}
    BY <1>3 DEF Close, Copying, SessionClean, UnderWay
  <2>2. Visible' = Holders /\ left' = left \ over /\ blobs' = blobs
    BY <1>3, <2>1, CommitFacts DEF Close
  <2> SUFFICES ASSUME NEW h \in Holders \ (left \ over) PROVE Whole(h)'
    BY <2>2 DEF HoldersAreWhole
  <2>3. CASE h \in run.existing
    <3>1. h \in Visible /\ h \notin over
      BY <2>1, <2>3 DEF SurveyHolds, Applying
    <3>2. Whole(h)
      BY <2>1, <3>1 DEF HoldersAreWhole
    <3>3. db'.files \cap KeysOf(h) = db.files \cap KeysOf(h)
      BY <1>3, <2>1, <2>3, ExistingKept
    <3>4. \A f \in Files : HolderOf[f] = h => \E k \in db'.files : k[1] = f
      BY <3>2, <3>3 DEF Whole, KeysOf, TypeOK
    <3> QED BY <2>2, <3>2, <3>3, <3>4 DEF Whole, KeysOf
  <2>4. CASE h \notin run.existing
    BY <1>3, <2>1, <2>4, WholeWhenDone
  <2> QED BY <2>3, <2>4
<1>4. CASE Progress
  <2>1. CASE UNCHANGED <<db, tx>>
    <3>1. Visible' = Visible /\ left' = left /\ UnderWay' = UnderWay
      BY <1>4, <2>1 DEF Progress, Visible, UnderWay, Made, jobVars, Savepoint
    <3> QED BY <1>4, <2>1, <3>1, WholeKept DEF Progress
  <2>2. CASE Commit /\ ~Savepoint
    <3>1. Copying
      BY <1>4 DEF Progress, Copying
    <3>2. /\ Visible' = Holders /\ left' = left /\ blobs' = blobs
          /\ UnderWay' = Holders \ run.existing
      BY <1>4, <2>2, <3>1, CommitFacts DEF Progress, UnderWay, Made, jobVars, Savepoint
    <3> SUFFICES ASSUME NEW h \in Holders, h \in run.existing \ left PROVE Whole(h)'
      BY <3>2 DEF HoldersAreWhole
    <3>3. h \in Visible /\ h \notin Made
      BY <3>1 DEF SurveyHolds, Applying, Made
    <3>4. Whole(h)
      BY <3>3 DEF HoldersAreWhole, UnderWay
    <3>5. db'.files \cap KeysOf(h) = db.files \cap KeysOf(h)
      BY <1>4, <2>2, <3>1, ExistingKept
    <3>6. \A f \in Files : HolderOf[f] = h => \E k \in db'.files : k[1] = f
      BY <3>4, <3>5 DEF Whole, KeysOf, TypeOK
    <3> QED BY <3>2, <3>4, <3>5, <3>6 DEF Whole, KeysOf
  <2> QED BY <1>4, <2>1, <2>2 DEF Progress, Commits
<1>5. CASE ~Progress /\ ~Close /\ ~Finish
  <2>1. db'.files = db.files /\ Visible' = Visible
    BY <1>5, NothingCommitted
  <2>2. CASE Start \/ RestoreAgain
    <3>1. UnderWay = {} /\ UNCHANGED <<left, blobs>>
      BY <2>2 DEF Start, RestoreAgain, UnderWay
    <3> QED BY <2>1, <3>1, WholeKept
  <2>3. CASE End \/ Interrupt \/ WorkerDies
    <3>1. left' = (IF Savepoint THEN left ELSE left \cup Made) /\ UNCHANGED blobs
      BY <2>3 DEF End, Interrupt, WorkerDies, Stops
    <3> QED BY <2>1, <3>1, WholeKept DEF UnderWay
  <2>4. CASE Survey
    <3>1. Made = {} /\ UNCHANGED <<left, blobs>>
      BY <2>4 DEF Survey, RunNumbered, NoRun, Made, Visible
    <3> QED BY <2>1, <3>1, WholeKept DEF UnderWay
  <2>5. CASE CleanUp
    <3>1. PICK k \in run.created : blobs \ {k} \subseteq blobs'
      BY <2>5 DEF CleanUp
    <3>2. left' = left /\ over' = over /\ pc = "cleaning" /\ pc' = pc
          /\ run'.existing = run.existing
      BY <2>5 DEF CleanUp, jobVars, TypeOK, Run
    <3>3. UnderWay' = UnderWay
      BY <2>1, <3>2 DEF UnderWay, Made, Savepoint
    <3>4. ASSUME NEW h \in Visible \ (left \cup UnderWay), k \in db.files \cap KeysOf(h)
          PROVE  FALSE
      <4>1. k[2] = run.n /\ HolderOf[k[1]] = h /\ h \notin run.existing
        BY <3>4 DEF CopiesKept, KeysOf
      <4>2. Savepoint
        BY <3>2, <3>4, <4>1 DEF UnderWay, Made
      <4> QED BY <3>2, <3>4, <4>1, <4>2 DEF RunNumbered
    <3> QED BY <2>1, <3>1, <3>2, <3>3, <3>4, WholeKept
  <2>6. CASE DeleteOld
    <3>1. PICK k \in run.old : blobs \ {k} \subseteq blobs'
      BY <2>6 DEF DeleteOld
    <3>2. k \notin db.files /\ left' = left /\ Savepoint
      BY <2>6 DEF DeleteOld, SurveyHolds, SessionClean
    <3> QED BY <2>1, <3>1, <3>2, WholeKept DEF UnderWay
  <2>7. CASE \/ Import \/ ImportCancelled \/ ProgressCancelled \/ Copy \/ Skip \/ LastCopied
             \/ Relink \/ OldDeleted \/ Raises \/ CopyingFails \/ CleanedUp
    <3>1. UNCHANGED <<left, over>> /\ pc # "idle" /\ pc' # "idle" /\ blobs \subseteq blobs'
      BY <2>7 DEF Import, ImportCancelled, ProgressCancelled, Copy, Skip, LastCopied, Relink,
                  OldDeleted, Raises, CopyingFails, CleanedUp, jobVars
    <3>2. run'.existing = run.existing
      BY <2>7 DEF Import, ImportCancelled, ProgressCancelled, Copy, Skip, LastCopied, Relink,
                  OldDeleted, Raises, CopyingFails, CleanedUp, TypeOK, Run
    <3>3. UnderWay' = UnderWay
      BY <2>1, <3>1, <3>2 DEF UnderWay, Made, Savepoint
    <3> QED BY <2>1, <3>1, <3>3, WholeKept
  <2>8. CASE Cancel \/ UNCHANGED vars \/ \E h \in Holders : Edit(h)
    <3>1. UNCHANGED <<left, over, pc, run, blobs>>
      BY <2>8 DEF Cancel, Edit, vars, jobVars
    <3>2. UnderWay' = UnderWay
      BY <2>1, <3>1 DEF UnderWay, Made, Savepoint
    <3> QED BY <2>1, <3>1, <3>2, WholeKept
  <2> QED BY <1>5, <2>2, <2>3, <2>4, <2>5, <2>6, <2>7, <2>8 DEF Next
<1> QED BY <1>1, <1>2, <1>3, <1>4, <1>5

-----------------------------------------------------------------------------
(* The theorems. *)

LEMMA InitHolds == Init => RestoreInvariant
<1> SUFFICES ASSUME Init PROVE RestoreInvariant
  OBVIOUS
<1>1. TypeOK
  BY InitTyped
<1>2. pc = "idle" /\ tx = NoTx /\ run = NoRun /\ db.files = blobs
  BY DEF Init
<1>3. Visible = Present
  BY ArchiveAssumption DEF Init, Visible
<1>4. db.files = {k \in Key : k[2] = 0 /\ HolderOf[k[1]] \in Present}
  BY DEF Init
<1>5. NextFile /\ SessionClean /\ CopiesKept /\ FilesCopied /\ TextsApart
  BY <1>2 DEF NextFile, SessionClean, CopiesKept, FilesCopied, TextsApart, Applying,
              Copying, NoTx, NoRun
<1>6. RunNumbered /\ SurveyHolds /\ RowsOfVisible
  BY <1>2, <1>3, <1>4 DEF Init, RunNumbered, SurveyHolds, RowsOfVisible, Applying, Copying
<1>7. ASSUME NEW h \in Visible PROVE Whole(h)
  <2>1. \A f \in Files : HolderOf[f] = h => <<f, 0>> \in db.files
    BY <1>3, <1>4, RestoreBounds DEF Key
  <2> QED BY <1>2, <2>1 DEF Whole
<1> QED BY <1>1, <1>5, <1>6, <1>7 DEF RestoreInvariant, HoldersAreWhole

LEMMA InvariantHolds == Spec => []RestoreInvariant
<1>1. RestoreInvariant /\ [Next]_vars => RestoreInvariant'
  BY TypeStep, NextFileStep, RunNumberedStep, SessionCleanStep, CopiesKeptStep,
     FilesCopiedStep, SurveyHoldsStep, TextsApartStep, RowsOfVisibleStep, HoldersAreWholeStep
     DEF RestoreInvariant
<1> QED BY InitHolds, <1>1, PTL DEF Spec

\* Whatever fails, dies, is cancelled or is executed again, what others can see has
\* all its files, but for what a plain restore goes on with or has left behind.
THEOREM RestoredIsWhole == Spec => []HoldersAreWhole
<1>1. RestoreInvariant => HoldersAreWhole
  BY DEF RestoreInvariant
<1> QED BY InvariantHolds, <1>1, PTL

\* A restore that overwrites shows others all of its work in one step.
THEOREM ReplacedAtOnce == Spec => ReplacesAtOnce
<1> DEFINE AtOnce ==
      Savepoint /\ db' # db /\ edits' = edits =>
          /\ \A h \in Holders \ run.existing :
                /\ db'.texts[h] \in {"restored", "repaired"}
                /\ db'.files \cap KeysOf(h) = {k \in KeysOf(h) : k[2] = run.n}
                /\ db'.files \cap KeysOf(h) \subseteq blobs'
          /\ \A h \in run.existing :
                /\ db'.texts[h] = db.texts[h]
                /\ db'.files \cap KeysOf(h) = db.files \cap KeysOf(h)
<1>1. ASSUME RestoreInvariant, [Next]_vars PROVE [AtOnce]_vars
  <2> SUFFICES ASSUME Savepoint, db' # db, edits' = edits PROVE AtOnce
    OBVIOUS
  <2> USE <1>1 DEF RestoreInvariant
  <2>1. ~\E h \in Holders : Edit(h)
    BY DEF Edit, TypeOK
  <2>2. Close \/ Finish \/ Progress
    BY <2>1 DEF Next, vars, Start, Survey, Import, ImportCancelled, ProgressCancelled, Copy,
        Skip, LastCopied, Relink, DeleteOld, OldDeleted, Raises, CopyingFails, CleanUp,
        CleanedUp, End, Interrupt, WorkerDies, Rollback, Cancel, RestoreAgain
  <2>3. ~Progress
    BY DEF Progress, Commits
  <2>4. Commit
    BY <2>2, <2>3 DEF Close, Finish
  <2>5. Copying
    BY <2>2, <2>4, CommitFacts
  <2>6. Close
    BY <2>2, <2>3, <2>5 DEF Finish, Copying
  <2>7. ASSUME NEW h \in Holders \ run.existing
        PROVE  /\ db'.texts[h] \in {"restored", "repaired"}
               /\ db'.files \cap KeysOf(h) = {k \in KeysOf(h) : k[2] = run.n}
               /\ db'.files \cap KeysOf(h) \subseteq blobs'
    <3>1. db'.texts[h] \in {"restored", "repaired"}
      BY <2>4, <2>5, <2>6, CommitFacts DEF TextsApart, View
    <3> QED BY <2>4, <2>6, <3>1, WholeWhenDone DEF Whole
  <2> QED BY <2>4, <2>5, <2>6, <2>7, ExistingKept
<1> QED BY InvariantHolds, <1>1, PTL DEF Spec, ReplacesAtOnce

\* A user's edit is lost only where the restore was asked to overwrite, or to the
\* relinking of a page that the same plain restore has made.
THEOREM EditsAreKept == Spec => EditsSurvive
<1> DEFINE Kept ==
      \A h \in Holders :
          db.texts[h] = "edited" /\ db'.texts[h] # "edited" =>
              IF Savepoint THEN h \in over ELSE h \in Repaired \cap Made
<1>1. ASSUME RestoreInvariant, [Next]_vars PROVE [Kept]_vars
  <2> SUFFICES ASSUME NEW h \in Holders, db.texts[h] = "edited", db'.texts[h] # "edited"
               PROVE  IF Savepoint THEN h \in over ELSE h \in Repaired \cap Made
    OBVIOUS
  <2> USE <1>1 DEF RestoreInvariant
  <2>1. ~\E g \in Holders : Edit(g)
    BY DEF Edit, TypeOK
  <2>2. Close \/ Finish \/ Progress
    BY <2>1 DEF Next, vars, Start, Survey, Import, ImportCancelled, ProgressCancelled, Copy,
        Skip, LastCopied, Relink, DeleteOld, OldDeleted, Raises, CopyingFails, CleanUp,
        CleanedUp, End, Interrupt, WorkerDies, Rollback, Cancel, RestoreAgain
  <2>3. Commit
    BY <2>2 DEF Close, Finish, Progress
  <2>4. Copying
    BY <2>2, <2>3, CommitFacts
  <2>5. tx.texts[h] # "same" /\ h \notin run.existing
    BY <2>2, <2>3, <2>4, CommitFacts DEF TextsApart, View
  <2>6. h \in Visible
    BY DEF Visible
  <2> QED BY <2>4, <2>5, <2>6 DEF TextsApart, SurveyHolds, Made
<1> QED BY InvariantHolds, <1>1, PTL DEF Spec, EditsSurvive

\* What a restore does to a holder that others see: nothing, if it was there when
\* the restore looked and the restore was not asked to overwrite it.  A plain
\* restore still adds files to what it has made itself, and relinks it.
LeavesTheRestAlone ==
    [][edits' = edits =>
          \A h \in Visible :
             /\ db'.texts[h] # db.texts[h] =>
                   IF Savepoint THEN h \in over ELSE h \in Repaired \cap Made
             /\ db'.files \cap KeysOf(h) # db.files \cap KeysOf(h) =>
                   IF Savepoint THEN h \in over ELSE h \in Made]_vars

\* "Conflicts are skipped and reported, never overwritten" (service.py:1811) is kept
\* to the letter: neither the text nor a row of a file of such a page is written.
THEOREM RestIsLeftAlone == Spec => LeavesTheRestAlone
<1> DEFINE Alone ==
      edits' = edits =>
          \A h \in Visible :
             /\ db'.texts[h] # db.texts[h] =>
                   IF Savepoint THEN h \in over ELSE h \in Repaired \cap Made
             /\ db'.files \cap KeysOf(h) # db.files \cap KeysOf(h) =>
                   IF Savepoint THEN h \in over ELSE h \in Made
<1>1. ASSUME RestoreInvariant, [Next]_vars PROVE [Alone]_vars
  <2> SUFFICES ASSUME edits' = edits, NEW h \in Visible,
                      \/ db'.texts[h] # db.texts[h]
                      \/ db'.files \cap KeysOf(h) # db.files \cap KeysOf(h)
               PROVE  /\ IF Savepoint THEN h \in over ELSE h \in Made
                      /\ db'.texts[h] # db.texts[h] /\ ~Savepoint => h \in Repaired
    OBVIOUS
  <2> USE <1>1 DEF RestoreInvariant
  <2>1. ~\E g \in Holders : Edit(g)
    BY DEF Edit, TypeOK
  <2>2. Close \/ Finish \/ Progress
    BY <2>1 DEF Next, vars, Start, Survey, Import, ImportCancelled, ProgressCancelled, Copy,
        Skip, LastCopied, Relink, DeleteOld, OldDeleted, Raises, CopyingFails, CleanUp,
        CleanedUp, End, Interrupt, WorkerDies, Rollback, Cancel, RestoreAgain
  <2>3. Commit
    BY <2>2 DEF Close, Finish, Progress
  <2>4. Copying /\ h \in Holders
    BY <2>2, <2>3, CommitFacts DEF Visible
  <2>5. h \notin run.existing
    BY <2>2, <2>3, <2>4, ExistingKept
  <2>6. Savepoint => h \in over
    BY <2>4, <2>5 DEF SurveyHolds
  <2>7. db'.texts[h] # db.texts[h] /\ ~Savepoint => h \in Repaired
    BY <2>2, <2>3, <2>4, CommitFacts DEF TextsApart, View, Visible
  <2> QED BY <2>5, <2>6, <2>7 DEF Made
<1> QED BY InvariantHolds, <1>1, PTL DEF Spec, LeavesTheRestAlone

\* What the archive has is all to be seen once it is committed for good, and a
\* job says so only then.
AllIsShown ==
    /\ status = "complete" => pc = "idle"
    /\ status = "complete" \/ pc = "deleting" \/ (pc = "finishing" /\ Savepoint)
          => Visible = Holders

LEMMA AllIsShownStep == RestoreInvariant /\ AllIsShown /\ [Next]_vars => AllIsShown'
<1> SUFFICES ASSUME RestoreInvariant, AllIsShown, [Next]_vars PROVE AllIsShown'
  OBVIOUS
<1> USE DEF RestoreInvariant, jobVars, boundVars, AllIsShown
<1>0. Visible' \subseteq Holders
  BY DEF Visible
<1>1. Visible \subseteq Visible'
  BY VisibleStays
<1>2. CASE Close
  BY <1>2, CommitFacts DEF Close, Copying
<1>3. CASE Finish
  <2>1. Visible' = Holders
    BY <1>0, <1>1, <1>3, CommitFacts DEF Finish, Copying
  <2> QED BY <1>3, <2>1 DEF Finish
<1>4. CASE Relink
  BY <1>4 DEF Relink, Savepoint
<1>5. CASE DeleteOld \/ OldDeleted
  BY <1>0, <1>1, <1>5 DEF DeleteOld, OldDeleted, Savepoint
<1>6. CASE Cancel \/ RestoreAgain \/ UNCHANGED vars \/ \E h \in Holders : Edit(h)
  BY <1>0, <1>1, <1>6 DEF Cancel, RestoreAgain, vars, Edit, Savepoint
<1>7. CASE \/ Start \/ Survey \/ Import \/ ImportCancelled \/ Progress \/ ProgressCancelled
           \/ Copy \/ Skip \/ LastCopied \/ Raises \/ CopyingFails \/ CleanUp \/ CleanedUp
  BY <1>7 DEF Start, Survey, Import, ImportCancelled, Progress, ProgressCancelled, Copy,
              Skip, LastCopied, Raises, CopyingFails, CleanUp, CleanedUp
<1>8. CASE End \/ Interrupt \/ WorkerDies
  BY <1>8 DEF End, Interrupt, WorkerDies
<1> QED BY <1>2, <1>3, <1>4, <1>5, <1>6, <1>7, <1>8 DEF Next

\* A restore that says it is complete has restored everything: all holders of the
\* archive are there and whole, but for those an earlier one had left half done,
\* which a plain restore passes over as present.
CompleteIsWhole ==
    status = "complete" => Visible = Holders /\ \A h \in Holders \ left : Whole(h)

\* _run_restore_job marks the job complete only when all it wrote is committed,
\* however often it was interrupted and executed again before.
THEOREM CompleteRestores == Spec => []CompleteIsWhole
<1>1. Init => AllIsShown
  BY DEF Init, AllIsShown
<1>2. RestoreInvariant /\ AllIsShown /\ [Next]_vars => AllIsShown'
  BY AllIsShownStep
<1>3. RestoreInvariant /\ AllIsShown => CompleteIsWhole
  BY DEF RestoreInvariant, AllIsShown, HoldersAreWhole, UnderWay, CompleteIsWhole
<1> QED BY InvariantHolds, <1>1, <1>2, <1>3, PTL DEF Spec
=============================================================================
