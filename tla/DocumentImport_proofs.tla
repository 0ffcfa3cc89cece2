----------------------- MODULE DocumentImport_proofs -----------------------
(***************************************************************************)
(* Theorems about DocumentImport, for any number of files and images and   *)
(* any bounds on deliveries, requests and faults.                          *)
(***************************************************************************)
EXTENDS DocumentImport, FiniteSetTheorems, TLAPS

-----------------------------------------------------------------------------
(* The inductive invariant. *)

\* The file in hand has no page yet, or has been committed.
BeforeCommit == {"taking", "importing", "made", "broken"}
AfterCommit == {"checking", "reviewing"}
AtFiles == BeforeCommit \cup AfterCommit

\* No execution has begun, so nothing is made.
Untouched == row.status = "queued" \/ pc = "starting"

PlaceOK ==
    /\ pc \in {"idle", "starting", "tidying"} => cur = 0
    /\ row.status = "queued" => pc \in {"idle", "starting"}
    /\ pc = "starting" => mem.status = "queued"
    /\ pc \notin {"idle", "tidying"} => mem.failed = row.failed /\ mem.created = row.created
    /\ row.status = "queued" => \A i \in Items : row.item[i] = "queued"
    /\ pc = "starting" => \A i \in Items : mem.item[i] = "queued"

OutsideOK ==
    /\ \A q \in requests : q.copy.status \in Pending /\ (q.copy.cancel => row.cancel)
    /\ \A copy \in sweep : copy.status = "running"

\* The images of the file in hand have no committed rows.
ImagesOK ==
    /\ attached \subseteq objects
    /\ Untouched => attached = {}
    /\ Untouched \/ Executing => staged = Items
    /\ pc \in {"importing", "made", "broken"} => written \subseteq ImagesOf(cur)
    /\ pc \in {"importing", "made"} => written \subseteq objects
    /\ pc = "made" => written = ImagesOf(cur)
    /\ \A g \in attached :
          /\ pc \in BeforeCommit => OwnerOf[g] < cur
          /\ pc \in AfterCommit => OwnerOf[g] <= cur

MadeOnce == \A i \in Items : made[i] <= 1 /\ (row.item[i] = "complete" => made[i] = 1)
MadeOK ==
    /\ MadeOnce
    /\ Untouched => \A i \in Items : made[i] = 0
    /\ \A i \in Items :
          /\ pc \in BeforeCommit /\ i >= cur => made[i] = 0
          /\ pc \in AfterCommit /\ i > cur => made[i] = 0

\* What the execution knows of the files while nobody has overtaken it.
Agree == row.item = mem.item \/ (pc = "checking" /\ cur = 0 /\ row.cancel)
Progress ==
    \A i \in Items :
        /\ i < cur => mem.item[i] \in {"complete", "failed"}
        /\ i > cur => mem.item[i] = "queued"
        /\ i = cur =>
              /\ pc \in AfterCommit => mem.item[i] \in {"complete", "failed"}
              /\ pc = "taking" => mem.item[i] = "queued"
              /\ pc \in {"importing", "made", "broken"} => mem.item[i] = "running"
KnowsOK ==
    /\ Executing => row.status = "running" /\ mem.status = "running"
    /\ pc = "starting" => row.status = "queued" \/ (row.status = "cancelled" /\ row.cancel)
    /\ pc \in AtFiles \cup {"cancelling"} => Agree
    /\ pc \in AtFiles => Progress

Counted ==
    /\ \A i \in Items : made[i] = 1 => row.item[i] = "complete"
    /\ row.created = Cardinality(With(row, "complete"))
    /\ row.status # "failed" => row.failed = Cardinality(With(row, "failed"))
Closed ==
    /\ row.status \in {"complete", "cancelled"} => \A i \in Items : row.item[i] \in Finished
    /\ row.status = "complete" => With(row, "complete") # {}

StoreInvariant == TypeOK /\ PlaceOK /\ OutsideOK /\ ImagesOK /\ MadeOK
ReportInvariant == ~overtaken => KnowsOK /\ Counted /\ Closed

-----------------------------------------------------------------------------
(* Copies of the rows, and their types. *)

LEMMA CountTyped ==
    ASSUME NEW r \in Row, NEW st
    PROVE  Cardinality(With(r, st)) \in 0 .. NItems
<1>1. NItems \in Nat
  BY ImportAssumption
<1>2. IsFiniteSet(Items) /\ Cardinality(Items) = NItems
  BY <1>1, FS_Interval DEF Items
<1>3. With(r, st) \subseteq Items
  BY DEF With
<1>4. IsFiniteSet(With(r, st)) /\ Cardinality(With(r, st)) <= NItems
  BY <1>2, <1>3, FS_Subset
<1>5. Cardinality(With(r, st)) \in Nat
  BY <1>4, FS_CardinalityType
<1> QED BY <1>1, <1>4, <1>5

LEMMA BlankTyped == Blank \in Row
BY ImportAssumption DEF Blank, Row, Pending

LEMMA RecountTyped ==
    ASSUME NEW r \in Row
    PROVE  /\ Recount(r) \in Row
           /\ Recount(r).status = r.status /\ Recount(r).cancel = r.cancel
           /\ Recount(r).item = r.item
           /\ Recount(r).failed = Cardinality(With(r, "failed"))
           /\ Recount(r).created = Cardinality(With(r, "complete"))
<1>1. Cardinality(With(r, "failed")) \in 0 .. NItems
      /\ Cardinality(With(r, "complete")) \in 0 .. NItems
  BY CountTyped
<1> QED BY <1>1 DEF Recount, Row

LEMMA SettledTyped ==
    ASSUME NEW r \in Row, NEW st \in {"failed", "cancelled"}
    PROVE  /\ Settled(r, st) \in Row
           /\ Settled(r, st).status = st /\ Settled(r, st).cancel = r.cancel
           /\ Settled(r, st).failed = r.failed /\ Settled(r, st).created = r.created
           /\ \A i \in Items : Settled(r, st).item[i] =
                 IF r.item[i] \in Pending THEN st ELSE r.item[i]
BY DEF Settled, Row, Pending, Finished

\* A commit changes what the session has changed, and nothing else.
LEMMA FlushTyped ==
    ASSUME TypeOK, NEW old \in Row, NEW new \in Row
    PROVE  /\ Flush(old, new) \in Row
           /\ Flush(old, new).status = IF new.status = old.status THEN row.status ELSE new.status
           /\ new.cancel = old.cancel => Flush(old, new).cancel = row.cancel
           /\ new.cancel # old.cancel => Flush(old, new).cancel = new.cancel
           /\ \A i \in Items : Flush(old, new).item[i] =
                 IF new.item[i] = old.item[i] THEN row.item[i] ELSE new.item[i]
           /\ Flush(old, new).failed = IF new.failed = old.failed THEN row.failed ELSE new.failed
           /\ Flush(old, new).created =
                 IF new.created = old.created THEN row.created ELSE new.created
BY DEF TypeOK, Flush, Row

\* What each session has in hand when it commits.
StartCopy == [mem EXCEPT !.status = "running"]
TakenCopy == [mem EXCEPT !.item[cur] = "running"]
DoneCopy == [mem EXCEPT !.item[cur] = IF pc = "made" THEN "complete" ELSE "failed"]
EndCopy == [Recount(mem) EXCEPT !.status =
               IF With(mem, "complete") = {} THEN "failed" ELSE "complete"]
FailedCopy == [mem EXCEPT !.status = "failed"]
AskedCopy(q) == [q.copy EXCEPT !.cancel = TRUE]

LEMMA CopiesTyped ==
    ASSUME TypeOK
    PROVE  /\ StartCopy \in Row /\ FailedCopy \in Row
           /\ EndCopy \in Row
           /\ cur \in Items => TakenCopy \in Row /\ DoneCopy \in Row
           /\ \A q \in requests : q.copy \in Row /\ q.final \in BOOLEAN /\ AskedCopy(q) \in Row
           /\ \A copy \in sweep : copy \in Row
<1>1. StartCopy \in Row /\ FailedCopy \in Row
  BY DEF TypeOK, Row, StartCopy, FailedCopy, Pending, Finished
<1>2. Recount(mem) \in Row
  BY RecountTyped DEF TypeOK
<1>3. EndCopy \in Row
  BY <1>2 DEF EndCopy, Row, Finished
<1>4. cur \in Items => TakenCopy \in Row /\ DoneCopy \in Row
  BY DEF TypeOK, Row, TakenCopy, DoneCopy, Pending, Finished
<1>5. \A q \in requests : q.copy \in Row /\ q.final \in BOOLEAN /\ AskedCopy(q) \in Row
  BY DEF TypeOK, Row, Request, AskedCopy
<1> QED BY <1>1, <1>3, <1>4, <1>5 DEF TypeOK

LEMMA InitTyped == Init => TypeOK
<1> SUFFICES ASSUME Init PROVE TypeOK
  OBVIOUS
<1>1. NItems \in Nat /\ 0 \in 0 .. NItems
  BY ImportAssumption
<1> QED BY <1>1, BlankTyped DEF Init, TypeOK, Places

LEMMA TypeStep == TypeOK /\ [Next]_vars => TypeOK'
<1> SUFFICES ASSUME TypeOK, [Next]_vars PROVE TypeOK'
  OBVIOUS
<1> USE ImportAssumption
<1>0. NItems \in Nat /\ NItems # 0 /\ 0 \in 0 .. NItems
  OBVIOUS
<1>1. CASE UNCHANGED vars
  BY <1>1 DEF TypeOK, vars
<1>2. CASE Start
  <2>1. row' \in Row /\ mem' \in Row
    BY <1>2, CopiesTyped, FlushTyped DEF Start, StartCopy, TypeOK
  <2> QED BY <1>2, <2>1 DEF Start, TypeOK, storeVars, outsideVars, Places
<1>3. CASE Checkpoint
  <2>1. [row EXCEPT !.item = mem.item] \in Row
    BY DEF TypeOK, Row
  <2>2. mem' \in Row
    BY <1>3, <2>1 DEF Checkpoint, TypeOK
  <2>3. cur' \in Items
    BY <1>0, <1>3 DEF Checkpoint, TypeOK, Items
  <2> QED BY <1>3, <2>2, <2>3 DEF Checkpoint, TypeOK, storeVars, outsideVars, Places, Items
<1>4. CASE CheckpointCancelled
  BY <1>4 DEF CheckpointCancelled, TypeOK, storeVars, outsideVars, Places
<1>5. CASE TakeUp
  <2>1. row' \in Row /\ mem' \in Row
    BY <1>5, CopiesTyped, FlushTyped DEF TakeUp, TakenCopy, TypeOK
  <2> QED BY <1>5, <2>1 DEF TakeUp, TypeOK, storeVars, outsideVars, Places
<1>6. CASE StoreImage
  BY <1>6 DEF StoreImage, TypeOK, ImagesOf, outsideVars
<1>7. CASE ImportDone
  BY <1>7 DEF ImportDone, TypeOK, storeVars, outsideVars, Places
<1>8. CASE ImportFails
  BY <1>8 DEF ImportFails, Fault, TypeOK, ImagesOf, outsideVars, Places
<1>9. CASE CommitItem
  <2>1. cur \in Items /\ DoneCopy \in Row
    BY <1>9, CopiesTyped DEF CommitItem, TypeOK
  <2>2. Recount(DoneCopy) \in Row
    BY <2>1, RecountTyped
  <2>3. row' \in Row /\ mem' \in Row
    BY <1>9, <2>2, FlushTyped DEF CommitItem, DoneCopy, TypeOK
  <2>4. attached' \subseteq Images
    BY <1>9 DEF CommitItem, KeptRows, ImagesOf, TypeOK
  <2>5. made' \in [Items -> Nat]
    BY <1>9 DEF CommitItem, TypeOK
  <2>6. pc' \in Places /\ (pc' = "reviewing" => cur' \in Items)
        /\ pc' \notin {"taking", "importing", "made", "broken"}
    BY <1>9, <2>1 DEF CommitItem, Places
  <2> QED BY <1>9, <2>3, <2>4, <2>5, <2>6 DEF CommitItem, TypeOK, outsideVars
<1>10. CASE Reviewed
  <2>1. row' \in Row /\ mem' \in Row
    BY <1>10, RecountTyped, FlushTyped DEF Reviewed, TypeOK
  <2> QED BY <1>10, <2>1 DEF Reviewed, TypeOK, storeVars, outsideVars, Places
<1>11. CASE Finish
  <2>1. row' \in Row
    BY <1>11, CopiesTyped, FlushTyped DEF Finish, EndCopy, TypeOK
  <2> QED BY <1>0, <1>11, <2>1, BlankTyped
          DEF Finish, Forget, TypeOK, storeVars, outsideVars, Places
<1>12. CASE WriteCancelled
  <2>1. Settled(mem, "cancelled") \in Row
    BY SettledTyped DEF TypeOK
  <2>2. row' \in Row
    BY <1>12, <2>1, RecountTyped, FlushTyped DEF WriteCancelled, TypeOK
  <2> QED BY <1>0, <1>12, <2>2, BlankTyped
          DEF WriteCancelled, Forget, TypeOK, storeVars, outsideVars, Places
<1>13. CASE WriteFailed
  <2>1. row' \in Row
    BY <1>13, CopiesTyped, FlushTyped DEF WriteFailed, FailedCopy, TypeOK
  <2> QED BY <1>0, <1>13, <2>1, BlankTyped
          DEF WriteFailed, Forget, TypeOK, storeVars, outsideVars, Places
<1>14. CASE Tidy
  BY <1>14 DEF Tidy, Fault, TypeOK, outsideVars, Places
<1>15. CASE Deliver
  <2>1. /\ mem' \in Row /\ pc' \in Places
        /\ pc' \notin {"taking", "importing", "made", "broken", "reviewing"}
    BY <1>15 DEF Deliver, TypeOK, Places
  <2>2. due' \in BOOLEAN /\ up' \in BOOLEAN
    BY <1>15, Zenon DEF Deliver, TypeOK
  <2>3. tries' = tries + 1
        /\ UNCHANGED <<row, beat, storeVars, cur, written, outsideVars, faults>>
    BY <1>15 DEF Deliver
  <2> QED BY <2>1, <2>2, <2>3 DEF TypeOK, storeVars, outsideVars
<1>16. CASE NobodyToImportFor
  BY <1>16 DEF NobodyToImportFor, TypeOK, storeVars, outsideVars, Places
<1>17. CASE Raises
  BY <1>17 DEF Raises, Fault, TypeOK, storeVars, outsideVars, Places
<1>18. CASE Interrupt
  BY <1>0, <1>18, BlankTyped DEF Interrupt, Fault, Forget, TypeOK, storeVars, outsideVars, Places
<1>19. CASE WorkerDies
  <2>1. due' \in BOOLEAN /\ up' \in BOOLEAN
    BY <1>19, Zenon DEF WorkerDies
  <2>2. /\ faults' = faults + 1 /\ pc' = "idle" /\ Forget /\ sweep' = {}
        /\ UNCHANGED <<row, beat, storeVars, requests, overtaken, tries, cancels>>
    BY <1>19 DEF WorkerDies, Fault
  <2> QED BY <1>0, <2>1, <2>2, BlankTyped DEF Forget, TypeOK, storeVars, Places
<1>20. CASE CancelRead
  <2>1. [copy |-> row, final |-> row.status = "queued" \/ Silent] \in Request
    BY DEF Request, Silent, TypeOK
  <2> QED BY <1>20, <2>1 DEF CancelRead, TypeOK, storeVars
<1>21. ASSUME NEW q \in requests, CancelWrite(q) PROVE TypeOK'
  <2>1. q.copy \in Row /\ AskedCopy(q) \in Row /\ Settled(AskedCopy(q), "cancelled") \in Row
    BY CopiesTyped, SettledTyped
  <2>2. row' \in Row
    BY <1>21, <2>1, FlushTyped DEF CancelWrite, AskedCopy
  <2>3. overtaken' \in BOOLEAN
    BY <1>21 DEF CancelWrite, TypeOK
  <2> QED BY <1>21, <2>2, <2>3 DEF CancelWrite, TypeOK, storeVars
<1>22. CASE ReapSelect
  BY <1>22 DEF ReapSelect, TypeOK, storeVars
<1>23. ASSUME NEW copy \in sweep, ReapWrite(copy) PROVE TypeOK'
  <2>1. copy \in Row /\ Settled(copy, IF copy.cancel THEN "cancelled" ELSE "failed") \in Row
    BY CopiesTyped, SettledTyped
  <2>2. row' \in Row
    BY <1>23, <2>1, FlushTyped DEF ReapWrite
  <2>3. overtaken' \in BOOLEAN
    BY <1>23 DEF ReapWrite, TypeOK
  <2> QED BY <1>23, <2>2, <2>3 DEF ReapWrite, TypeOK, storeVars
<1>24. CASE WorkerStarts
  BY <1>24 DEF WorkerStarts, TypeOK, storeVars
<1>25. CASE Ages
  BY <1>25 DEF Ages, TypeOK, storeVars, outsideVars
<1> QED
  BY <1>1, <1>2, <1>3, <1>4, <1>5, <1>6, <1>7, <1>8, <1>9, <1>10, <1>11, <1>12, <1>13, <1>14,
     <1>15, <1>16, <1>17, <1>18, <1>19, <1>20, <1>21, <1>22, <1>23, <1>24, <1>25
  DEF Next, Work

\* The row, the copy, the sets of files and the place of an execution are of
\* their kinds in every reachable state (the columns of
\* models/document_import.py).
THEOREM TypeCorrect == Spec => []TypeOK
<1> QED BY InitTyped, TypeStep, PTL DEF Spec
-----------------------------------------------------------------------------
(* What each commit makes of the rows. *)

LEMMA StartCommits ==
    ASSUME TypeOK, PlaceOK, Start
    PROVE  /\ row'.status = "running" /\ row'.cancel = row.cancel /\ row'.item = row.item
           /\ row'.failed = row.failed /\ row'.created = row.created
           /\ mem'.status = "running" /\ mem'.item = mem.item
           /\ mem'.failed = mem.failed /\ mem'.created = mem.created
<1>1. row' = Flush(mem, StartCopy) /\ mem' = StartCopy /\ mem.status = "queued"
  BY DEF Start, StartCopy, PlaceOK
<1>2. /\ StartCopy.status = "running" /\ StartCopy.cancel = mem.cancel
      /\ StartCopy.item = mem.item
      /\ StartCopy.failed = mem.failed /\ StartCopy.created = mem.created
  BY DEF StartCopy, TypeOK, Row
<1>3. row' \in Row /\ \A i \in Items : row'.item[i] = row.item[i]
  BY <1>1, <1>2, CopiesTyped, FlushTyped DEF TypeOK
<1>4. row'.item = row.item
  BY <1>3 DEF TypeOK, Row
<1> QED BY <1>1, <1>2, <1>4, CopiesTyped, FlushTyped DEF TypeOK

LEMMA TakeUpCommits ==
    ASSUME TypeOK, PlaceOK, TakeUp
    PROVE  /\ row'.status = row.status /\ row'.cancel = row.cancel
           /\ row'.failed = row.failed /\ row'.created = row.created
           /\ \A i \in Items : row'.item[i] =
                 IF i = cur /\ mem.item[i] # "running" THEN "running" ELSE row.item[i]
           /\ mem'.status = mem.status
           /\ mem'.failed = mem.failed /\ mem'.created = mem.created
           /\ \A i \in Items : mem'.item[i] = IF i = cur THEN "running" ELSE mem.item[i]
<1>1. row' = Flush(mem, TakenCopy) /\ mem' = TakenCopy /\ cur \in Items
  BY DEF TakeUp, TakenCopy, TypeOK
<1>2. /\ TakenCopy.status = mem.status /\ TakenCopy.cancel = mem.cancel
      /\ \A i \in Items : TakenCopy.item[i] = IF i = cur THEN "running" ELSE mem.item[i]
      /\ TakenCopy.failed = mem.failed /\ TakenCopy.created = mem.created
  BY <1>1 DEF TakenCopy, TypeOK, Row
<1> QED BY <1>1, <1>2, CopiesTyped, FlushTyped DEF TypeOK

Outcome == IF pc = "made" THEN "complete" ELSE "failed"

LEMMA CommitItemCommits ==
    ASSUME TypeOK, PlaceOK, CommitItem
    PROVE  /\ row'.status = row.status /\ row'.cancel = row.cancel
           /\ \A i \in Items : row'.item[i] =
                 IF i = cur /\ mem.item[i] # Outcome THEN Outcome ELSE row.item[i]
           /\ mem'.status = mem.status
           /\ \A i \in Items : mem'.item[i] = IF i = cur THEN Outcome ELSE mem.item[i]
           /\ row'.failed = Cardinality(With(mem', "failed")) /\ mem'.failed = row'.failed
           /\ row'.created = Cardinality(With(mem', "complete")) /\ mem'.created = row'.created
<1>1. /\ row' = Flush(mem, Recount(DoneCopy)) /\ mem' = Recount(DoneCopy) /\ cur \in Items
      /\ mem.failed = row.failed /\ mem.created = row.created
  BY DEF CommitItem, DoneCopy, TypeOK, PlaceOK
<1>2. /\ DoneCopy.status = mem.status /\ DoneCopy.cancel = mem.cancel
      /\ \A i \in Items : DoneCopy.item[i] = IF i = cur THEN Outcome ELSE mem.item[i]
  BY <1>1 DEF DoneCopy, Outcome, TypeOK, Row
<1>3. DoneCopy \in Row
  BY <1>1, CopiesTyped
<1>4. /\ mem' \in Row /\ mem'.status = mem.status /\ mem'.cancel = mem.cancel
      /\ mem'.item = DoneCopy.item
      /\ mem'.failed = Cardinality(With(DoneCopy, "failed"))
      /\ mem'.created = Cardinality(With(DoneCopy, "complete"))
  BY <1>1, <1>2, <1>3, RecountTyped
<1>5. \A st : With(mem', st) = With(DoneCopy, st)
  BY <1>4 DEF With
<1> QED BY <1>1, <1>2, <1>4, <1>5, FlushTyped DEF TypeOK

LEMMA ReviewedCommits ==
    ASSUME TypeOK, PlaceOK, Reviewed
    PROVE  /\ row'.status = row.status /\ row'.cancel = row.cancel /\ row'.item = row.item
           /\ mem'.status = mem.status /\ mem'.item = mem.item
           /\ row'.failed = Cardinality(With(mem, "failed")) /\ mem'.failed = row'.failed
           /\ row'.created = Cardinality(With(mem, "complete")) /\ mem'.created = row'.created
<1>1. /\ row' = Flush(mem, Recount(mem)) /\ mem' = Recount(mem)
      /\ mem.failed = row.failed /\ mem.created = row.created
  BY DEF Reviewed, PlaceOK
<1>2. /\ mem' \in Row /\ mem'.status = mem.status /\ mem'.cancel = mem.cancel
      /\ mem'.item = mem.item /\ mem'.failed = Cardinality(With(mem, "failed"))
      /\ mem'.created = Cardinality(With(mem, "complete"))
  BY <1>1, RecountTyped DEF TypeOK
<1>3. row' \in Row /\ \A i \in Items : row'.item[i] = row.item[i]
  BY <1>1, <1>2, FlushTyped DEF TypeOK
<1>4. row'.item = row.item
  BY <1>3 DEF TypeOK, Row
<1> QED BY <1>1, <1>2, <1>4, FlushTyped DEF TypeOK

LEMMA FinishCommits ==
    ASSUME TypeOK, PlaceOK, Finish
    PROVE  /\ row'.status = IF EndCopy.status = mem.status THEN row.status ELSE EndCopy.status
           /\ row'.cancel = row.cancel /\ row'.item = row.item
           /\ row'.failed = Cardinality(With(mem, "failed"))
           /\ row'.created = Cardinality(With(mem, "complete"))
           /\ EndCopy.status = IF With(mem, "complete") = {} THEN "failed" ELSE "complete"
<1>1. /\ row' = Flush(mem, EndCopy)
      /\ mem.failed = row.failed /\ mem.created = row.created
  BY DEF Finish, EndCopy, PlaceOK
<1>2. /\ Recount(mem) \in Row /\ Recount(mem).cancel = mem.cancel
      /\ Recount(mem).item = mem.item /\ Recount(mem).failed = Cardinality(With(mem, "failed"))
      /\ Recount(mem).created = Cardinality(With(mem, "complete"))
  BY RecountTyped DEF TypeOK
<1>3. /\ EndCopy.cancel = mem.cancel /\ EndCopy.item = mem.item
      /\ EndCopy.failed = Cardinality(With(mem, "failed"))
      /\ EndCopy.created = Cardinality(With(mem, "complete"))
      /\ EndCopy.status = IF With(mem, "complete") = {} THEN "failed" ELSE "complete"
  BY <1>2 DEF EndCopy, Row
<1>4. row' \in Row /\ \A i \in Items : row'.item[i] = row.item[i]
  BY <1>1, <1>3, CopiesTyped, FlushTyped DEF TypeOK
<1>5. row'.item = row.item
  BY <1>4 DEF TypeOK, Row
<1> QED BY <1>1, <1>3, <1>5, CopiesTyped, FlushTyped DEF TypeOK

LEMMA WriteCancelledCommits ==
    ASSUME TypeOK, PlaceOK, WriteCancelled
    PROVE  /\ row'.status = IF mem.status = "cancelled" THEN row.status ELSE "cancelled"
           /\ row'.cancel = row.cancel
           /\ \A i \in Items : row'.item[i] =
                 IF mem.item[i] \in Pending THEN "cancelled" ELSE row.item[i]
           /\ row'.failed = Cardinality(With(mem, "failed"))
           /\ row'.created = Cardinality(With(mem, "complete"))
<1> DEFINE set == Settled(mem, "cancelled")
<1>1. /\ row' = Flush(mem, Recount(set))
      /\ mem.failed = row.failed /\ mem.created = row.created
  BY DEF WriteCancelled, PlaceOK
<1>2. /\ set \in Row /\ set.status = "cancelled" /\ set.cancel = mem.cancel
      /\ \A i \in Items :
            set.item[i] = IF mem.item[i] \in Pending THEN "cancelled" ELSE mem.item[i]
  BY SettledTyped DEF TypeOK
<1>3. With(set, "failed") = With(mem, "failed") /\ With(set, "complete") = With(mem, "complete")
  BY <1>2 DEF With, Pending
<1>4. /\ Recount(set) \in Row /\ Recount(set).status = "cancelled"
      /\ Recount(set).cancel = mem.cancel /\ Recount(set).item = set.item
      /\ Recount(set).failed = Cardinality(With(mem, "failed"))
      /\ Recount(set).created = Cardinality(With(mem, "complete"))
  BY <1>2, <1>3, RecountTyped
<1> HIDE DEF set
<1> QED BY <1>1, <1>2, <1>4, FlushTyped DEF TypeOK, Pending

LEMMA WriteFailedCommits ==
    ASSUME TypeOK, WriteFailed
    PROVE  /\ row'.status = IF mem.status = "failed" THEN row.status ELSE "failed"
           /\ row'.cancel = row.cancel /\ row'.item = row.item
           /\ row'.failed = row.failed /\ row'.created = row.created
<1>1. row' = Flush(mem, FailedCopy)
  BY DEF WriteFailed, FailedCopy
<1>2. /\ FailedCopy.status = "failed" /\ FailedCopy.cancel = mem.cancel
      /\ FailedCopy.item = mem.item
      /\ FailedCopy.failed = mem.failed /\ FailedCopy.created = mem.created
  BY DEF FailedCopy, TypeOK, Row
<1>3. row' \in Row /\ \A i \in Items : row'.item[i] = row.item[i]
  BY <1>1, <1>2, CopiesTyped, FlushTyped DEF TypeOK
<1>4. row'.item = row.item
  BY <1>3 DEF TypeOK, Row
<1> QED BY <1>1, <1>2, <1>4, CopiesTyped, FlushTyped DEF TypeOK

LEMMA CancelWriteCommits ==
    ASSUME TypeOK, OutsideOK, NEW q \in requests, CancelWrite(q)
    PROVE  /\ row'.status = IF q.final THEN "cancelled" ELSE row.status
           /\ row'.cancel
           /\ \A i \in Items : row'.item[i] =
                 IF q.final /\ q.copy.item[i] \in Pending THEN "cancelled" ELSE row.item[i]
           /\ row'.failed = row.failed /\ row'.created = row.created
<1> DEFINE asked == AskedCopy(q)
           set == Settled(asked, "cancelled")
<1>1. row' = Flush(q.copy, IF q.final THEN set ELSE asked)
  BY DEF CancelWrite, AskedCopy
<1>2. /\ asked \in Row /\ q.copy \in Row /\ asked.status = q.copy.status /\ asked.cancel = TRUE
      /\ asked.item = q.copy.item
      /\ asked.failed = q.copy.failed /\ asked.created = q.copy.created
  BY CopiesTyped DEF AskedCopy, Row
<1>3. /\ set \in Row /\ set.status = "cancelled" /\ set.cancel = TRUE
      /\ set.failed = q.copy.failed /\ set.created = q.copy.created
      /\ \A i \in Items : set.item[i] =
            IF q.copy.item[i] \in Pending THEN "cancelled" ELSE q.copy.item[i]
  BY <1>2, SettledTyped
<1>4. q.copy.status \in Pending /\ (q.copy.cancel => row.cancel) /\ q.copy.cancel \in BOOLEAN
  BY <1>2 DEF OutsideOK, Row
<1> HIDE DEF asked, set
<1>5. CASE q.final
  <2>1. row' = Flush(q.copy, set)
    BY <1>1, <1>5
  <2>2. /\ q.copy.cancel = TRUE => row'.cancel = row.cancel
        /\ q.copy.cancel # TRUE => row'.cancel = TRUE
    BY <1>2, <1>3, <2>1, FlushTyped
  <2>3. row'.cancel
    <3>1. CASE q.copy.cancel = TRUE
      BY <1>4, <2>2, <3>1, Zenon
    <3>2. CASE q.copy.cancel # TRUE
      BY <2>2, <3>2, Zenon
    <3> QED BY <3>1, <3>2
  <2> QED BY <1>2, <1>3, <1>4, <1>5, <2>1, <2>3, FlushTyped DEF Pending
<1>6. CASE ~q.final
  <2>1. row' = Flush(q.copy, asked)
    BY <1>1, <1>6
  <2>2. /\ q.copy.cancel = TRUE => row'.cancel = row.cancel
        /\ q.copy.cancel # TRUE => row'.cancel = TRUE
    BY <1>2, <2>1, FlushTyped
  <2>3. row'.cancel
    <3>1. CASE q.copy.cancel = TRUE
      BY <1>4, <2>2, <3>1, Zenon
    <3>2. CASE q.copy.cancel # TRUE
      BY <2>2, <3>2, Zenon
    <3> QED BY <3>1, <3>2
  <2> QED BY <1>2, <1>6, <2>1, <2>3, FlushTyped
<1> QED BY <1>5, <1>6

LEMMA ReapWriteCommits ==
    ASSUME TypeOK, OutsideOK, NEW copy \in sweep, ReapWrite(copy)
    PROVE  LET st == IF copy.cancel THEN "cancelled" ELSE "failed" IN
           /\ row'.status = st /\ row'.cancel = row.cancel
           /\ \A i \in Items : row'.item[i] =
                 IF copy.item[i] \in Pending THEN st ELSE row.item[i]
           /\ row'.failed = row.failed /\ row'.created = row.created
<1> DEFINE st == IF copy.cancel THEN "cancelled" ELSE "failed"
           set == Settled(copy, st)
<1>1. row' = Flush(copy, set)
  BY DEF ReapWrite
<1>2. st \in {"failed", "cancelled"} /\ copy \in Row /\ copy.status = "running"
  BY CopiesTyped DEF OutsideOK
<1>3. /\ set \in Row /\ set.status = st /\ set.cancel = copy.cancel
      /\ set.failed = copy.failed /\ set.created = copy.created
      /\ \A i \in Items : set.item[i] = IF copy.item[i] \in Pending THEN st ELSE copy.item[i]
  BY <1>2, SettledTyped
<1> HIDE DEF set
<1> QED BY <1>1, <1>2, <1>3, FlushTyped DEF Pending
-----------------------------------------------------------------------------
(* Copies are of the rows as they were, and requests of a job not finished. *)

LEMMA PlaceInit == Init => PlaceOK /\ OutsideOK
BY ImportAssumption DEF Init, PlaceOK, OutsideOK, Blank, Executing

LEMMA PlaceStep ==
    ASSUME TypeOK, TypeOK', PlaceOK, OutsideOK, [Next]_vars
    PROVE  PlaceOK' /\ OutsideOK'
<1>1. CASE UNCHANGED vars
  BY <1>1 DEF vars, PlaceOK, OutsideOK
<1>2. CASE Start
  BY <1>2, StartCommits DEF Start, PlaceOK, OutsideOK, outsideVars
<1>3. CASE Checkpoint
  <2>1. mem'.failed = row.failed /\ mem'.created = row.created
    BY <1>3 DEF Checkpoint, TypeOK, Row
  <2> QED BY <1>3, <2>1 DEF Checkpoint, PlaceOK, OutsideOK, outsideVars
<1>4. CASE CheckpointCancelled
  BY <1>4 DEF CheckpointCancelled, PlaceOK, OutsideOK, outsideVars
<1>5. CASE TakeUp
  BY <1>5, TakeUpCommits DEF TakeUp, PlaceOK, OutsideOK, outsideVars
<1>6. CASE StoreImage
  BY <1>6 DEF StoreImage, PlaceOK, OutsideOK, outsideVars
<1>7. CASE ImportDone
  BY <1>7 DEF ImportDone, PlaceOK, OutsideOK, outsideVars
<1>8. CASE ImportFails
  BY <1>8 DEF ImportFails, PlaceOK, OutsideOK, outsideVars
<1>9. CASE CommitItem
  <2>1. pc \in {"made", "broken"} /\ pc' \in {"checking", "reviewing"}
    BY <1>9 DEF CommitItem
  <2>2. row.status # "queued"
    BY <2>1 DEF PlaceOK
  <2> QED BY <1>9, <2>1, <2>2, CommitItemCommits DEF CommitItem, PlaceOK, OutsideOK, outsideVars
<1>10. CASE Reviewed
  BY <1>10, ReviewedCommits DEF Reviewed, PlaceOK, OutsideOK, outsideVars
<1>11. CASE Finish
  <2>1. row.status # "queued"
    BY <1>11 DEF Finish, PlaceOK
  <2>2. row'.status # "queued"
    BY <1>11, <2>1, FinishCommits
  <2> QED BY <1>11, <2>2, FinishCommits DEF Finish, Forget, PlaceOK, OutsideOK, outsideVars
<1>12. CASE WriteCancelled
  <2>1. row.status # "queued"
    BY <1>12 DEF WriteCancelled, PlaceOK
  <2>2. row'.status # "queued"
    BY <1>12, <2>1, WriteCancelledCommits
  <2> QED BY <1>12, <2>2, WriteCancelledCommits
          DEF WriteCancelled, Forget, PlaceOK, OutsideOK, outsideVars
<1>13. CASE WriteFailed
  <2>1. row.status # "queued"
    BY <1>13 DEF WriteFailed, PlaceOK
  <2>2. row'.status # "queued"
    BY <1>13, <2>1, WriteFailedCommits
  <2> QED BY <1>13, <2>2, WriteFailedCommits
          DEF WriteFailed, Forget, PlaceOK, OutsideOK, outsideVars
<1>14. CASE Tidy
  BY <1>14 DEF Tidy, PlaceOK, OutsideOK, outsideVars
<1>15. CASE Deliver
  BY <1>15 DEF Deliver, ToBeRun, PlaceOK, OutsideOK, outsideVars
<1>16. CASE NobodyToImportFor
  BY <1>16 DEF NobodyToImportFor, PlaceOK, OutsideOK, outsideVars
<1>17. CASE Raises
  BY <1>17 DEF Raises, PlaceOK, OutsideOK, outsideVars
<1>18. CASE Interrupt
  BY <1>18 DEF Interrupt, Forget, PlaceOK, OutsideOK, outsideVars
<1>19. CASE WorkerDies
  BY <1>19 DEF WorkerDies, Forget, PlaceOK, OutsideOK
<1>20. CASE CancelRead
  BY <1>20 DEF CancelRead, PlaceOK, OutsideOK
<1>21. ASSUME NEW q \in requests, CancelWrite(q) PROVE PlaceOK' /\ OutsideOK'
  <2>1. row'.status = "queued" => row.status = "queued" /\ ~q.final
    BY <1>21, CancelWriteCommits
  <2> QED BY <1>21, <2>1, CancelWriteCommits DEF CancelWrite, PlaceOK, OutsideOK
<1>22. CASE ReapSelect
  BY <1>22 DEF ReapSelect, PlaceOK, OutsideOK
<1>23. ASSUME NEW copy \in sweep, ReapWrite(copy) PROVE PlaceOK' /\ OutsideOK'
  <2>1. row'.status # "queued"
    BY <1>23, ReapWriteCommits
  <2> QED BY <1>23, <2>1, ReapWriteCommits DEF ReapWrite, PlaceOK, OutsideOK
<1>24. CASE WorkerStarts
  BY <1>24 DEF WorkerStarts, PlaceOK, OutsideOK
<1>25. CASE Ages
  BY <1>25 DEF Ages, PlaceOK, OutsideOK, outsideVars
<1> QED
  BY <1>1, <1>2, <1>3, <1>4, <1>5, <1>6, <1>7, <1>8, <1>9, <1>10, <1>11, <1>12, <1>13, <1>14,
     <1>15, <1>16, <1>17, <1>18, <1>19, <1>20, <1>21, <1>22, <1>23, <1>24, <1>25
  DEF Next, Work
-----------------------------------------------------------------------------
(* Images and uploads. *)

LEMMA ImagesInit == Init => ImagesOK
BY ImportAssumption DEF Init, ImagesOK, Untouched, Executing, BeforeCommit, AfterCommit

LEMMA ImagesStep ==
    ASSUME TypeOK, TypeOK', PlaceOK, PlaceOK', OutsideOK, ImagesOK, [Next]_vars
    PROVE  ImagesOK'
<1> USE DEF ImagesOK, Untouched, Executing, BeforeCommit, AfterCommit, storeVars
<1>0. \A g \in Images : OwnerOf[g] \in Nat
  BY ImportAssumption DEF Items
<1>1. CASE UNCHANGED vars
  BY <1>1 DEF vars, ImagesOf
<1>2. CASE Start
  BY <1>2, StartCommits DEF Start
<1>3. CASE Checkpoint
  <2>1. \A g \in attached : OwnerOf[g] < cur'
    BY <1>0, <1>3 DEF Checkpoint, TypeOK
  <2> QED BY <1>3, <2>1 DEF Checkpoint, PlaceOK
<1>4. CASE CheckpointCancelled
  BY <1>4 DEF CheckpointCancelled, PlaceOK
<1>5. CASE TakeUp
  BY <1>5, TakeUpCommits DEF TakeUp, PlaceOK
<1>6. CASE StoreImage
  BY <1>6 DEF StoreImage, PlaceOK, ImagesOf
<1>7. CASE ImportDone
  BY <1>7 DEF ImportDone, PlaceOK, ImagesOf
<1>8. CASE ImportFails
  <2>1. PICK kept \in SUBSET ImagesOf(cur) : objects' = (objects \ written) \cup kept
    BY <1>8 DEF ImportFails
  <2>2. \A g \in attached : OwnerOf[g] # cur
    BY <1>0, <1>8 DEF ImportFails, TypeOK
  <2>3. \A g \in attached : g \notin written
    BY <1>8, <2>2 DEF ImportFails, ImagesOf
  <2>4. attached' \subseteq objects'
    BY <1>8, <2>1, <2>3 DEF ImportFails
  <2> QED BY <1>8, <2>4 DEF ImportFails, PlaceOK, ImagesOf
<1>9. CASE CommitItem
  <2>1. pc \in {"made", "broken"} /\ pc' \in {"checking", "reviewing"}
        /\ UNCHANGED <<staged, objects, cur>>
    BY <1>9 DEF CommitItem
  <2>2. attached' \subseteq objects'
    BY <1>9, <2>1 DEF CommitItem, KeptRows
  <2>3. \A g \in attached' : OwnerOf[g] <= cur'
    BY <1>0, <1>9, <2>1 DEF CommitItem, KeptRows, ImagesOf, TypeOK
  <2>4. row'.status # "queued" /\ staged' = Items
    BY <1>9, <2>1, CommitItemCommits DEF PlaceOK
  <2> QED BY <2>1, <2>2, <2>3, <2>4
<1>10. CASE Reviewed
  BY <1>10, ReviewedCommits DEF Reviewed, PlaceOK
<1>11. CASE Finish
  BY <1>11 DEF Finish, Forget, PlaceOK
<1>12. CASE WriteCancelled
  BY <1>12 DEF WriteCancelled, Forget, PlaceOK
<1>13. CASE WriteFailed
  BY <1>13 DEF WriteFailed, Forget, PlaceOK
<1>14. CASE Tidy
  BY <1>14 DEF Tidy, PlaceOK
<1>15. CASE Deliver
  BY <1>15 DEF Deliver, ToBeRun
<1>16. CASE NobodyToImportFor
  BY <1>16 DEF NobodyToImportFor, PlaceOK
<1>17. CASE Raises
  BY <1>17 DEF Raises, PlaceOK
<1>18. CASE Interrupt
  BY <1>18 DEF Interrupt, Forget, PlaceOK
<1>19. CASE WorkerDies
  BY <1>19 DEF WorkerDies, Forget, PlaceOK
<1>20. CASE CancelRead
  BY <1>20 DEF CancelRead, ImagesOf
<1>21. ASSUME NEW q \in requests, CancelWrite(q) PROVE ImagesOK'
  <2>1. row'.status = "queued" => row.status = "queued"
    BY <1>21, CancelWriteCommits
  <2> QED BY <1>21, <2>1 DEF CancelWrite, ImagesOf
<1>22. CASE ReapSelect
  BY <1>22 DEF ReapSelect, ImagesOf
<1>23. ASSUME NEW copy \in sweep, ReapWrite(copy) PROVE ImagesOK'
  <2>1. row'.status # "queued"
    BY <1>23, ReapWriteCommits
  <2> QED BY <1>23, <2>1 DEF ReapWrite, ImagesOf
<1>24. CASE WorkerStarts
  BY <1>24 DEF WorkerStarts, ImagesOf
<1>25. CASE Ages
  BY <1>25 DEF Ages, ImagesOf
<1> QED
  BY <1>1, <1>2, <1>3, <1>4, <1>5, <1>6, <1>7, <1>8, <1>9, <1>10, <1>11, <1>12, <1>13, <1>14,
     <1>15, <1>16, <1>17, <1>18, <1>19, <1>20, <1>21, <1>22, <1>23, <1>24, <1>25
  DEF Next, Work

-----------------------------------------------------------------------------
(* Pages. *)

LEMMA MadeInit == Init => MadeOK
BY ImportAssumption
DEF Init, MadeOK, MadeOnce, Untouched, Blank, BeforeCommit, AfterCommit

LEMMA MadeStep ==
    ASSUME TypeOK, TypeOK', PlaceOK, PlaceOK', OutsideOK, MadeOK, [Next]_vars
    PROVE  MadeOK'
<1> USE DEF MadeOK, MadeOnce, Untouched, BeforeCommit, AfterCommit, storeVars
<1>0. Items \subseteq Nat
  BY DEF Items
<1>1. CASE UNCHANGED vars
  BY <1>1 DEF vars
<1>2. CASE Start
  BY <1>2, StartCommits DEF Start
<1>3. CASE Checkpoint
  <2>1. \A i \in Items : i >= cur' => made[i] = 0
    BY <1>0, <1>3 DEF Checkpoint, TypeOK
  <2> QED BY <1>3, <2>1 DEF Checkpoint, PlaceOK
<1>4. CASE CheckpointCancelled
  BY <1>4 DEF CheckpointCancelled, PlaceOK
<1>5. CASE TakeUp
  <2>1. \A i \in Items : row'.item[i] = "complete" => row.item[i] = "complete"
    BY <1>5, TakeUpCommits
  <2> QED BY <1>5, <2>1 DEF TakeUp, PlaceOK
<1>6. CASE StoreImage
  BY <1>6 DEF StoreImage, PlaceOK
<1>7. CASE ImportDone
  BY <1>7 DEF ImportDone, PlaceOK
<1>8. CASE ImportFails
  BY <1>8 DEF ImportFails, PlaceOK
<1>9. CASE CommitItem
  <2>1. pc \in {"made", "broken"} /\ pc' \in {"checking", "reviewing"} /\ cur' = cur
        /\ cur \in Items
    BY <1>9 DEF CommitItem, TypeOK
  <2>2. made[cur] = 0
    BY <1>0, <2>1
  <2>3. \A i \in Items : made'[i] = IF i = cur /\ pc = "made" THEN 1 ELSE made[i]
    BY <1>9, <2>1, <2>2 DEF CommitItem, TypeOK
  <2>4. \A i \in Items : row'.item[i] = "complete" =>
                            row.item[i] = "complete" \/ (i = cur /\ pc = "made")
    BY <1>9, CommitItemCommits DEF Outcome
  <2>5. MadeOnce'
    BY <2>2, <2>3, <2>4
  <2>6. row'.status # "queued"
    BY <2>1 DEF PlaceOK
  <2>7. \A i \in Items : i > cur => made'[i] = 0
    <3>1. \A i \in Items : i > cur => i >= cur /\ i # cur
      BY <1>0, <2>1
    <3> QED BY <2>1, <2>3, <3>1
  <2> QED BY <2>1, <2>5, <2>6, <2>7
<1>10. CASE Reviewed
  BY <1>10, ReviewedCommits DEF Reviewed, PlaceOK
<1>11. CASE Finish
  BY <1>11, FinishCommits DEF Finish, Forget, PlaceOK
<1>12. CASE WriteCancelled
  <2>1. \A i \in Items : row'.item[i] = "complete" => row.item[i] = "complete"
    BY <1>12, WriteCancelledCommits
  <2> QED BY <1>12, <2>1 DEF WriteCancelled, Forget, PlaceOK
<1>13. CASE WriteFailed
  BY <1>13, WriteFailedCommits DEF WriteFailed, Forget, PlaceOK
<1>14. CASE Tidy
  BY <1>14 DEF Tidy, PlaceOK
<1>15. CASE Deliver
  BY <1>15 DEF Deliver, ToBeRun
<1>16. CASE NobodyToImportFor
  BY <1>16 DEF NobodyToImportFor, PlaceOK
<1>17. CASE Raises
  BY <1>17 DEF Raises, PlaceOK
<1>18. CASE Interrupt
  BY <1>18 DEF Interrupt, Forget, PlaceOK
<1>19. CASE WorkerDies
  BY <1>19 DEF WorkerDies, Forget, PlaceOK
<1>20. CASE CancelRead
  BY <1>20 DEF CancelRead
<1>21. ASSUME NEW q \in requests, CancelWrite(q) PROVE MadeOK'
  <2>1. row'.status = "queued" => row.status = "queued"
    BY <1>21, CancelWriteCommits
  <2>2. \A i \in Items : row'.item[i] = "complete" => row.item[i] = "complete"
    BY <1>21, CancelWriteCommits
  <2> QED BY <1>21, <2>1, <2>2 DEF CancelWrite
<1>22. CASE ReapSelect
  BY <1>22 DEF ReapSelect
<1>23. ASSUME NEW copy \in sweep, ReapWrite(copy) PROVE MadeOK'
  <2>1. row'.status # "queued"
    BY <1>23, ReapWriteCommits
  <2>2. \A i \in Items : row'.item[i] = "complete" => row.item[i] = "complete"
    BY <1>23, ReapWriteCommits
  <2> QED BY <1>23, <2>1, <2>2 DEF ReapWrite
<1>24. CASE WorkerStarts
  BY <1>24 DEF WorkerStarts
<1>25. CASE Ages
  BY <1>25 DEF Ages
<1> QED
  BY <1>1, <1>2, <1>3, <1>4, <1>5, <1>6, <1>7, <1>8, <1>9, <1>10, <1>11, <1>12, <1>13, <1>14,
     <1>15, <1>16, <1>17, <1>18, <1>19, <1>20, <1>21, <1>22, <1>23, <1>24, <1>25
  DEF Next, Work

\* Whatever fails, dies or is taken back on the way, every image of a committed
\* page is in the store, and the uploads are there while an execution may ask
\* for them (_attach_media, the deletion in _run_one_item and
\* _delete_staged_uploads).
THEOREM StoreIsComplete == Spec => []StoreHasWhatIsNeeded
<1>1. Init => StoreInvariant
  BY InitTyped, PlaceInit, ImagesInit, MadeInit DEF StoreInvariant
<1>2. StoreInvariant /\ [Next]_vars => StoreInvariant'
  <2> SUFFICES ASSUME StoreInvariant, [Next]_vars PROVE StoreInvariant'
    OBVIOUS
  <2> USE DEF StoreInvariant
  <2>1. TypeOK'
    BY TypeStep
  <2>2. PlaceOK' /\ OutsideOK'
    BY <2>1, PlaceStep
  <2>3. ImagesOK'
    BY <2>1, <2>2, ImagesStep
  <2>4. MadeOK'
    BY <2>1, <2>2, MadeStep
  <2> QED BY <2>1, <2>2, <2>3, <2>4
<1>3. StoreInvariant => StoreHasWhatIsNeeded
  BY DEF StoreInvariant, ImagesOK, Untouched, StoreHasWhatIsNeeded
<1> QED BY <1>1, <1>2, <1>3, PTL DEF Spec

-----------------------------------------------------------------------------
(* The report. *)

LEMMA ReportInit == Init => ReportInvariant
<1> SUFFICES ASSUME Init PROVE KnowsOK /\ Counted /\ Closed
  BY DEF ReportInvariant
<1>1. With(row, "complete") = {} /\ With(row, "failed") = {}
  BY DEF Init, Blank, With
<1>2. row.created = 0 /\ row.failed = 0 /\ Cardinality({}) = 0
  BY FS_EmptySet DEF Init, Blank
<1>3. KnowsOK
  BY DEF Init, KnowsOK, Executing, AtFiles, BeforeCommit, AfterCommit
<1>4. Counted
  BY <1>1, <1>2 DEF Init, Counted
<1>5. Closed
  BY DEF Init, Blank, Closed
<1> QED BY <1>3, <1>4, <1>5

\* A step that leaves the row alone keeps what is counted of it.
LEMMA CountedKept ==
    ASSUME Counted, Closed, UNCHANGED <<row, made>>
    PROVE  Counted' /\ Closed'
BY DEF Counted, Closed, With

\* What is counted depends on the files' rows only.
LEMMA CountedAgain ==
    ASSUME NEW r1, NEW r2,
           \A i \in Items : r1.item[i] = r2.item[i]
    PROVE  \A st : With(r1, st) = With(r2, st)
BY DEF With

\* Two rows agree when each file's do.
LEMMA SameItems ==
    ASSUME NEW r1 \in Row, NEW r2 \in Row,
           \A i \in Items : r1.item[i] = r2.item[i]
    PROVE  r1.item = r2.item
BY DEF Row

LEMMA WorkReported ==
    ASSUME StoreInvariant, StoreInvariant', KnowsOK, Counted, Closed, Work
    PROVE  KnowsOK' /\ Counted' /\ Closed'
<1> USE DEF StoreInvariant
<1>0. Items \subseteq Nat /\ NItems \in Nat /\ NItems # 0 /\ cur \in Nat
  BY ImportAssumption DEF Items, TypeOK
<1>1. CASE Start
  <2>1. row.item = mem.item \/ row.cancel
    <3>1. CASE row.status = "queued"
      BY <1>1, <3>1, SameItems DEF Start, PlaceOK, TypeOK
    <3>2. CASE row.status # "queued"
      BY <1>1, <3>2 DEF Start, KnowsOK
    <3> QED BY <3>1, <3>2
  <2>2. Agree'
    BY <1>1, <2>1, StartCommits DEF Start, Agree, PlaceOK
  <2>3. Progress'
    BY <1>0, <1>1, StartCommits DEF Start, Progress, PlaceOK, AfterCommit, Items
  <2>4. KnowsOK'
    BY <1>1, <2>2, <2>3, StartCommits DEF Start, KnowsOK
  <2>5. \A st : With(row', st) = With(row, st)
    BY <1>1, StartCommits, CountedAgain
  <2>6. row.status # "failed"
    BY <1>1 DEF Start, KnowsOK
  <2>7. Counted' /\ Closed'
    BY <1>1, <2>5, <2>6, StartCommits DEF Start, Counted, Closed, storeVars
  <2> QED BY <2>4, <2>7
<1>2. CASE Checkpoint
  <2>1. row.item = mem.item
    BY <1>2 DEF Checkpoint, KnowsOK, Agree, AtFiles, AfterCommit
  <2>2. mem'.item = row.item /\ mem'.status = row.status
    BY <1>2, <2>1 DEF Checkpoint, TypeOK, Row
  <2>3. Progress'
    BY <1>0, <1>2, <2>1, <2>2 DEF Checkpoint, KnowsOK, Progress, AtFiles, AfterCommit
  <2>4. KnowsOK'
    BY <1>2, <2>2, <2>3 DEF Checkpoint, KnowsOK, Agree, Executing
  <2> QED BY <1>2, <2>4, CountedKept DEF Checkpoint, storeVars
<1>3. CASE CheckpointCancelled
  <2>1. KnowsOK'
    BY <1>3 DEF CheckpointCancelled, KnowsOK, Agree, Executing, AtFiles, BeforeCommit, AfterCommit
  <2> QED BY <1>3, <2>1, CountedKept DEF CheckpointCancelled, storeVars
<1>4. CASE TakeUp
  <2>1. row.item = mem.item /\ cur \in Items /\ mem.item[cur] = "queued"
    BY <1>4 DEF TakeUp, KnowsOK, Agree, Progress, AtFiles, BeforeCommit, TypeOK
  <2>2. \A i \in Items : row'.item[i] = mem'.item[i]
    BY <1>4, <2>1, TakeUpCommits
  <2>3. row'.item = mem'.item
    BY <2>2, SameItems DEF TypeOK
  <2>4. Progress'
    BY <1>4, TakeUpCommits
    DEF TakeUp, KnowsOK, Progress, AtFiles, BeforeCommit, AfterCommit
  <2>5. KnowsOK'
    BY <1>4, <2>3, <2>4, TakeUpCommits DEF TakeUp, KnowsOK, Agree, Executing
  <2>6. With(row', "complete") = With(row, "complete")
        /\ With(row', "failed") = With(row, "failed")
    BY <1>4, <2>1, TakeUpCommits DEF With
  <2>7. Counted'
    BY <1>4, <2>1, <2>6, TakeUpCommits DEF TakeUp, Counted, storeVars
  <2>8. Closed'
    BY <1>4, TakeUpCommits DEF TakeUp, Closed, KnowsOK, Executing
  <2> QED BY <2>5, <2>7, <2>8
<1>5. CASE StoreImage
  <2>1. UNCHANGED <<row, made, pc, mem, cur>>
    BY <1>5 DEF StoreImage
  <2> QED BY <2>1, CountedKept DEF KnowsOK, Agree, Progress, Executing
<1>6. CASE ImportDone
  <2>1. KnowsOK'
    BY <1>6 DEF ImportDone, KnowsOK, Agree, Progress, Executing, AtFiles, BeforeCommit, AfterCommit
  <2> QED BY <1>6, <2>1, CountedKept DEF ImportDone, storeVars
<1>7. CASE ImportFails
  <2>1. KnowsOK'
    BY <1>7 DEF ImportFails, KnowsOK, Agree, Progress, Executing, AtFiles, BeforeCommit,
                AfterCommit
  <2> QED BY <1>7, <2>1, CountedKept DEF ImportFails
<1>8. CASE CommitItem
  <2>0. /\ pc \in {"made", "broken"} /\ pc' \in AfterCommit /\ cur' = cur /\ cur \in Items
        /\ made' = IF pc = "made" THEN [made EXCEPT ![cur] = @ + 1] ELSE made
    BY <1>8 DEF CommitItem, TypeOK, AfterCommit
  <2>1. row.item = mem.item /\ mem.item[cur] = "running" /\ row.status = "running"
        /\ mem.status = "running" /\ Progress
    BY <2>0 DEF KnowsOK, Agree, Progress, AtFiles, BeforeCommit, Executing
  <2>2. \A i \in Items : row'.item[i] = mem'.item[i]
    BY <1>8, <2>0, <2>1, CommitItemCommits DEF Outcome
  <2>3. row'.item = mem'.item
    BY <2>2, SameItems DEF TypeOK
  <2>4. Progress'
    <3>1. \A i \in Items : i = cur => mem'.item[i] \in {"complete", "failed"}
      BY <1>8, CommitItemCommits DEF Outcome
    <3>2. \A i \in Items : i # cur => mem'.item[i] = mem.item[i]
      BY <1>8, CommitItemCommits
    <3>3. \A i \in Items : (i < cur => i # cur) /\ (i > cur => i # cur)
      BY <1>0
    <3>4. pc' # "taking" /\ pc' \notin {"importing", "made", "broken"}
      BY <2>0 DEF AfterCommit
    <3> QED BY <2>0, <2>1, <3>1, <3>2, <3>3, <3>4 DEF Progress
  <2>5. KnowsOK'
    BY <1>8, <2>0, <2>1, <2>3, <2>4, CommitItemCommits DEF KnowsOK, Agree, AfterCommit
  <2>6. \A st : With(row', st) = With(mem', st)
    BY <2>2, CountedAgain
  <2>7. \A i \in Items : made'[i] = 1 => row'.item[i] = "complete"
    <3>1. made[cur] = 0
      BY <1>0, <2>0 DEF MadeOK, BeforeCommit
    <3>2. \A i \in Items : i # cur => made'[i] = made[i] /\ row'.item[i] = row.item[i]
      BY <1>8, <2>0, CommitItemCommits DEF TypeOK
    <3>3. pc = "made" => row'.item[cur] = "complete"
      BY <1>8, <2>0, <2>1, CommitItemCommits DEF Outcome
    <3>4. pc # "made" => made'[cur] = 0
      BY <2>0, <3>1
    <3> QED BY <3>2, <3>3, <3>4 DEF Counted
  <2>8. Counted' /\ Closed'
    BY <1>8, <2>1, <2>6, <2>7, CommitItemCommits DEF Counted, Closed
  <2> QED BY <2>5, <2>8
<1>9. CASE Reviewed
  <2>1. row.item = mem.item /\ row.status = "running"
    BY <1>9 DEF Reviewed, KnowsOK, Agree, AtFiles, AfterCommit, Executing
  <2>2. KnowsOK'
    BY <1>9, <2>1, ReviewedCommits
    DEF Reviewed, KnowsOK, Agree, Progress, Executing, AtFiles, BeforeCommit, AfterCommit
  <2>3. \A st : With(row', st) = With(mem, st)
    BY <1>9, <2>1, ReviewedCommits, CountedAgain
  <2>4. Counted' /\ Closed'
    BY <1>9, <2>1, <2>3, ReviewedCommits DEF Reviewed, Counted, Closed, storeVars
  <2> QED BY <2>2, <2>4
<1>10. CASE Finish
  <2>1. row.item = mem.item /\ row.status = "running" /\ mem.status = "running" /\ Progress
    BY <1>0, <1>10 DEF Finish, KnowsOK, Agree, AtFiles, AfterCommit, Executing
  <2>2. KnowsOK'
    BY <1>10 DEF Finish, KnowsOK, Executing, AtFiles, BeforeCommit, AfterCommit
  <2>3. \A st : With(row', st) = With(mem, st)
    BY <1>10, <2>1, FinishCommits, CountedAgain
  <2>4. row'.status = EndCopy.status
    BY <1>10, <2>1, FinishCommits
  <2>5. Counted'
    BY <1>10, <2>3, FinishCommits DEF Finish, Counted, storeVars
  <2>6. \A i \in Items : row'.item[i] \in Finished
    <3>1. pc \in AfterCommit /\ cur = NItems
      BY <1>10 DEF Finish, AfterCommit
    <3>2. \A i \in Items : i < cur \/ i = cur
      BY <3>1, <1>0 DEF Items
    <3>3. \A i \in Items : mem.item[i] \in {"complete", "failed"}
      BY <2>1, <3>1, <3>2 DEF Progress
    <3> QED BY <1>10, <2>1, <3>3, FinishCommits DEF Finished
  <2>7. Closed'
    BY <1>10, <2>3, <2>4, <2>6, FinishCommits DEF Closed
  <2> QED BY <2>2, <2>5, <2>7
<1>11. CASE WriteCancelled
  <2>1. row.item = mem.item /\ row.status = "running" /\ mem.status = "running"
    BY <1>11 DEF WriteCancelled, KnowsOK, Agree, Executing
  <2>2. KnowsOK'
    BY <1>11 DEF WriteCancelled, KnowsOK, Executing, AtFiles, BeforeCommit, AfterCommit
  <2>3. \A i \in Items :
           row'.item[i] = IF mem.item[i] \in Pending THEN "cancelled" ELSE mem.item[i]
    BY <1>11, <2>1, WriteCancelledCommits
  <2>4. With(row', "failed") = With(mem, "failed") /\ With(row', "complete") = With(mem, "complete")
    BY <2>3 DEF With, Pending
  <2>5. row'.status = "cancelled"
    BY <1>11, <2>1, WriteCancelledCommits
  <2>6. Counted'
    BY <1>11, <2>1, <2>3, <2>4, WriteCancelledCommits
    DEF WriteCancelled, Counted, storeVars, Pending
  <2>7. Closed'
    BY <2>3, <2>5 DEF Closed, TypeOK, Row, Pending, Finished
  <2> QED BY <2>2, <2>6, <2>7
<1>12. CASE WriteFailed
  <2>1. row'.status = "failed"
    BY <1>12, WriteFailedCommits DEF WriteFailed, KnowsOK, Executing
  <2>2. KnowsOK'
    BY <1>12 DEF WriteFailed, KnowsOK, Executing, AtFiles, BeforeCommit, AfterCommit
  <2>3. \A st : With(row', st) = With(row, st)
    BY <1>12, WriteFailedCommits, CountedAgain
  <2> QED BY <1>12, <2>1, <2>2, <2>3, WriteFailedCommits
          DEF WriteFailed, Counted, Closed, storeVars
<1>13. CASE Tidy
  <2>1. KnowsOK'
    BY <1>13 DEF Tidy, KnowsOK, Executing, AtFiles, BeforeCommit, AfterCommit
  <2> QED BY <1>13, <2>1, CountedKept DEF Tidy
<1> QED
  BY <1>1, <1>2, <1>3, <1>4, <1>5, <1>6, <1>7, <1>8, <1>9, <1>10, <1>11, <1>12, <1>13 DEF Work

LEMMA OutsideReported ==
    ASSUME StoreInvariant, StoreInvariant', KnowsOK, Counted, Closed, Next, ~Work, ~overtaken'
    PROVE  KnowsOK' /\ Counted' /\ Closed'
<1> USE DEF StoreInvariant
<1>1. CASE Deliver
  <2>1. KnowsOK'
    BY <1>1 DEF Deliver, ToBeRun, KnowsOK, Executing, AtFiles, BeforeCommit, AfterCommit
  <2> QED BY <1>1, <2>1, CountedKept DEF Deliver, storeVars
<1>2. CASE NobodyToImportFor
  <2>1. KnowsOK'
    BY <1>2 DEF NobodyToImportFor, KnowsOK, Executing, AtFiles, BeforeCommit, AfterCommit
  <2> QED BY <1>2, <2>1, CountedKept DEF NobodyToImportFor, storeVars
<1>3. CASE Raises
  <2>1. KnowsOK'
    BY <1>3 DEF Raises, KnowsOK, Executing, AtFiles, BeforeCommit, AfterCommit
  <2> QED BY <1>3, <2>1, CountedKept DEF Raises, storeVars
<1>4. CASE Interrupt
  <2>1. KnowsOK'
    BY <1>4 DEF Interrupt, KnowsOK, Executing, AtFiles, BeforeCommit, AfterCommit
  <2> QED BY <1>4, <2>1, CountedKept DEF Interrupt, storeVars
<1>5. CASE WorkerDies
  <2>1. KnowsOK'
    BY <1>5 DEF WorkerDies, KnowsOK, Executing, AtFiles, BeforeCommit, AfterCommit
  <2> QED BY <1>5, <2>1, CountedKept DEF WorkerDies, storeVars
<1>6. CASE CancelRead \/ ReapSelect \/ WorkerStarts \/ Ages
  <2>1. UNCHANGED <<row, made, pc, mem, cur>>
    BY <1>6 DEF CancelRead, ReapSelect, WorkerStarts, Ages, storeVars
  <2> QED BY <2>1, CountedKept DEF KnowsOK, Agree, Progress, Executing
<1>7. ASSUME NEW q \in requests, CancelWrite(q)
      PROVE  KnowsOK' /\ Counted' /\ Closed'
  <2>0. UNCHANGED <<made, pc, mem, cur>>
    BY <1>7 DEF CancelWrite, storeVars
  <2>1. CASE ~q.final
    <3>1. \A i \in Items : row'.item[i] = row.item[i]
      BY <1>7, <2>1, CancelWriteCommits
    <3>2. row'.item = row.item
      BY <3>1, SameItems DEF TypeOK
    <3>3. row'.status = row.status /\ row'.cancel
      BY <1>7, <2>1, CancelWriteCommits
    <3>4. KnowsOK'
      BY <2>0, <3>2, <3>3 DEF KnowsOK, Agree, Progress, Executing
    <3>5. \A st : With(row', st) = With(row, st)
      BY <3>1, CountedAgain
    <3> QED BY <1>7, <2>0, <3>2, <3>3, <3>4, <3>5, CancelWriteCommits DEF Counted, Closed
  <2>2. CASE q.final
    <3>1. ~Executing /\ row.status = q.copy.status /\ row.item = q.copy.item
      BY <1>7, <2>2 DEF CancelWrite, Overtakes
    <3>2. /\ row'.status = "cancelled" /\ row'.cancel
          /\ \A i \in Items :
                row'.item[i] = IF row.item[i] \in Pending THEN "cancelled" ELSE row.item[i]
      BY <1>7, <2>2, <3>1, CancelWriteCommits
    <3>3. With(row', "failed") = With(row, "failed")
          /\ With(row', "complete") = With(row, "complete")
      BY <3>2 DEF With, Pending
    <3>4. KnowsOK'
      BY <2>0, <3>1, <3>2 DEF KnowsOK, Executing, AtFiles, BeforeCommit, AfterCommit
    <3>5. row.status # "failed"
      BY <3>1 DEF OutsideOK, Pending
    <3>6. Counted'
      BY <1>7, <2>0, <3>2, <3>3, <3>5, CancelWriteCommits DEF Counted, Pending
    <3>7. Closed'
      BY <3>2 DEF Closed, TypeOK, Row, Pending, Finished
    <3> QED BY <3>4, <3>6, <3>7
  <2> QED BY <2>1, <2>2
<1>8. ASSUME NEW copy \in sweep, ReapWrite(copy)
      PROVE  KnowsOK' /\ Counted' /\ Closed'
  <2> DEFINE st == IF copy.cancel THEN "cancelled" ELSE "failed"
  <2>1. /\ ~Executing /\ row.status = "running" /\ row.item = copy.item
        /\ UNCHANGED <<made, pc, mem, cur>>
    BY <1>8 DEF ReapWrite, Overtakes, OutsideOK, storeVars
  <2>2. pc \in {"idle", "tidying"}
    BY <2>1 DEF KnowsOK, Executing
  <2>3. KnowsOK'
    BY <2>1, <2>2 DEF KnowsOK, Executing, AtFiles, BeforeCommit, AfterCommit
  <2>4. /\ row'.status = st
        /\ \A i \in Items : row'.item[i] = IF row.item[i] \in Pending THEN st ELSE row.item[i]
        /\ row'.failed = row.failed /\ row'.created = row.created
    BY <1>8, <2>1, ReapWriteCommits
  <2>5. With(row', "complete") = With(row, "complete")
    BY <2>4 DEF With, Pending
  <2>6. st = "cancelled" => With(row', "failed") = With(row, "failed")
    BY <2>4 DEF With, Pending
  <2>7. Counted'
    BY <2>1, <2>4, <2>5, <2>6 DEF Counted, Pending
  <2>8. Closed'
    BY <2>4 DEF Closed, TypeOK, Row, Pending, Finished
  <2> QED BY <2>3, <2>7, <2>8
<1> QED BY <1>1, <1>2, <1>3, <1>4, <1>5, <1>6, <1>7, <1>8 DEF Next

\* A job that was overtaken once stays so.
LEMMA OvertakenStays == [Next]_vars /\ ~overtaken' => ~overtaken
<1> SUFFICES ASSUME [Next]_vars, ~overtaken' PROVE ~overtaken
  OBVIOUS
<1>1. CASE UNCHANGED vars
  BY <1>1 DEF vars
<1>2. CASE Work
  <2>1. UNCHANGED overtaken
    BY <1>2 DEF Work, Start, Checkpoint, CheckpointCancelled, TakeUp, StoreImage, ImportDone,
                ImportFails, CommitItem, Reviewed, Finish, WriteCancelled, WriteFailed, Tidy,
                outsideVars
  <2> QED BY <2>1
<1>3. CASE Deliver \/ NobodyToImportFor \/ Raises \/ Interrupt \/ WorkerDies
  <2>1. UNCHANGED overtaken
    BY <1>3 DEF Deliver, NobodyToImportFor, Raises, Interrupt, WorkerDies, outsideVars
  <2> QED BY <2>1
<1>4. CASE CancelRead \/ ReapSelect \/ WorkerStarts \/ Ages
  <2>1. UNCHANGED overtaken
    BY <1>4 DEF CancelRead, ReapSelect, WorkerStarts, Ages, outsideVars
  <2> QED BY <2>1
<1>5. ASSUME NEW q \in requests, CancelWrite(q) PROVE ~overtaken
  BY <1>5 DEF CancelWrite
<1>6. ASSUME NEW copy \in sweep, ReapWrite(copy) PROVE ~overtaken
  BY <1>6 DEF ReapWrite
<1> QED BY <1>1, <1>2, <1>3, <1>4, <1>5, <1>6 DEF Next

LEMMA ReportStep ==
    ASSUME StoreInvariant, ReportInvariant, [Next]_vars
    PROVE  StoreInvariant' /\ ReportInvariant'
<1>1. TypeOK' /\ PlaceOK' /\ OutsideOK'
  BY TypeStep, PlaceStep DEF StoreInvariant
<1>2. StoreInvariant'
  BY <1>1, ImagesStep, MadeStep DEF StoreInvariant
<1>3. ASSUME ~overtaken' PROVE KnowsOK' /\ Counted' /\ Closed'
  <2>1. KnowsOK /\ Counted /\ Closed
    BY <1>3, OvertakenStays DEF ReportInvariant
  <2>2. CASE Work
    BY <1>2, <2>1, <2>2, WorkReported
  <2>3. CASE Next /\ ~Work
    BY <1>2, <1>3, <2>1, <2>3, OutsideReported
  <2>4. CASE UNCHANGED vars
    <3>1. UNCHANGED <<row, made, pc, mem, cur>>
      BY <2>4 DEF vars
    <3> QED BY <2>1, <3>1, CountedKept DEF KnowsOK, Agree, Progress, Executing
  <2> QED BY <2>2, <2>3, <2>4
<1> QED BY <1>2, <1>3 DEF ReportInvariant

\* Of no file is a page made twice, a complete file has its page, and unless the
\* job was finalised under a live worker all it reports is what was done
\* ("Idempotent under arq retry", _recount).
THEOREM ReportHolds == Spec => []ReportIsTrue
<1>1. Init => StoreInvariant /\ ReportInvariant
  BY InitTyped, PlaceInit, ImagesInit, MadeInit, ReportInit DEF StoreInvariant
<1>2. StoreInvariant /\ ReportInvariant /\ [Next]_vars => (StoreInvariant /\ ReportInvariant)'
  BY ReportStep
<1>3. StoreInvariant /\ ReportInvariant => ReportIsTrue
  BY DEF StoreInvariant, ReportInvariant, MadeOK, MadeOnce, Counted, Closed, ReportIsTrue
<1> QED BY <1>1, <1>2, <1>3, PTL DEF Spec
-----------------------------------------------------------------------------
(* Verdicts. *)

\* Unless the job was finalised under a live worker or from an old copy, what has
\* been reported stands: the verdict on a file is not changed, and once the job is
\* finished no page or image is made any more and nothing of the report changes.
\* Only a job that was cancelled between its delivery and its first commit is
\* "running" again until the worker looks at the flag (jobs.py, run_document_import
\* and checkpoint_job; service.py, finalize_cancelled_job).
VerdictsStand ==
    [][~overtaken' =>
        /\ \A i \in Items : row.item[i] \in Finished => row'.item[i] = row.item[i]
        /\ row.status \in Finished =>
              /\ UNCHANGED <<made, attached>>
              /\ row'.failed = row.failed /\ row'.created = row.created
              /\ \A i \in Items : row'.item[i] = row.item[i]
              /\ row'.status = row.status
                    \/ (row.status = "cancelled" /\ row.cancel /\ pc = "starting")]_vars

\* A step that is not a commit of the rows reports nothing and makes nothing.
LEMMA QuietStep ==
    ASSUME Next, ~Start, ~TakeUp, ~CommitItem, ~Reviewed, ~Finish, ~WriteCancelled, ~WriteFailed,
           ~\E q \in requests : CancelWrite(q), ~\E copy \in sweep : ReapWrite(copy)
    PROVE  UNCHANGED <<row, made, attached>>
<1> USE DEF storeVars
<1>1. CASE Work
  BY <1>1 DEF Work, Checkpoint, CheckpointCancelled, StoreImage, ImportDone, ImportFails, Tidy
<1>2. CASE Deliver \/ NobodyToImportFor \/ Raises \/ Interrupt \/ WorkerDies
  BY <1>2 DEF Deliver, NobodyToImportFor, Raises, Interrupt, WorkerDies
<1>3. CASE CancelRead \/ ReapSelect \/ WorkerStarts \/ Ages
  BY <1>3 DEF CancelRead, ReapSelect, WorkerStarts, Ages
<1> QED BY <1>1, <1>2, <1>3 DEF Next

LEMMA FilesStand ==
    ASSUME StoreInvariant, KnowsOK, Next, ~overtaken', NEW i \in Items, row.item[i] \in Finished
    PROVE  row'.item[i] = row.item[i]
<1> USE DEF StoreInvariant, Finished, Pending
<1>1. CASE Start
  BY <1>1, StartCommits
<1>2. CASE TakeUp
  <2>1. row.item = mem.item /\ mem.item[cur] = "queued"
    BY <1>2 DEF TakeUp, KnowsOK, Agree, Progress, AtFiles, BeforeCommit, TypeOK
  <2> QED BY <1>2, <2>1, TakeUpCommits
<1>3. CASE CommitItem
  <2>1. pc \in {"made", "broken"} /\ cur \in Items
    BY <1>3 DEF CommitItem, TypeOK
  <2>2. row.item = mem.item /\ mem.item[cur] = "running"
    BY <2>1 DEF KnowsOK, Agree, Progress, AtFiles, BeforeCommit
  <2> QED BY <1>3, <2>2, CommitItemCommits
<1>4. CASE Reviewed
  BY <1>4, ReviewedCommits
<1>5. CASE Finish
  BY <1>5, FinishCommits
<1>6. CASE WriteCancelled
  <2>1. row.item = mem.item
    BY <1>6 DEF WriteCancelled, KnowsOK, Agree
  <2> QED BY <1>6, <2>1, WriteCancelledCommits
<1>7. CASE WriteFailed
  BY <1>7, WriteFailedCommits
<1>8. ASSUME NEW q \in requests, CancelWrite(q) PROVE row'.item[i] = row.item[i]
  <2>1. q.final => row.item = q.copy.item
    BY <1>8 DEF CancelWrite, Overtakes
  <2> QED BY <1>8, <2>1, CancelWriteCommits
<1>9. ASSUME NEW copy \in sweep, ReapWrite(copy) PROVE row'.item[i] = row.item[i]
  <2>1. row.item = copy.item
    BY <1>9 DEF ReapWrite, Overtakes
  <2> QED BY <1>9, <2>1, ReapWriteCommits
<1> QED
  BY <1>1, <1>2, <1>3, <1>4, <1>5, <1>6, <1>7, <1>8, <1>9, QuietStep

LEMMA ReportStands ==
    ASSUME StoreInvariant, KnowsOK, Next, ~overtaken', row.status \in Finished
    PROVE  /\ UNCHANGED <<made, attached>>
           /\ row'.failed = row.failed /\ row'.created = row.created
           /\ \A i \in Items : row'.item[i] = row.item[i]
           /\ row'.status = row.status
                 \/ (row.status = "cancelled" /\ row.cancel /\ pc = "starting")
<1> USE DEF StoreInvariant
<1>1. ~Executing /\ row.status \notin Pending
  BY DEF KnowsOK, Finished, Pending
<1>2. ~TakeUp /\ ~CommitItem /\ ~Reviewed /\ ~Finish /\ ~WriteCancelled /\ ~WriteFailed
  BY <1>1 DEF Executing, TakeUp, CommitItem, Reviewed, Finish, WriteCancelled, WriteFailed
<1>3. CASE Start
  <2>1. row.status = "cancelled" /\ row.cancel /\ pc = "starting"
    BY <1>1, <1>3 DEF Start, KnowsOK, Pending
  <2> QED BY <1>3, <2>1, StartCommits DEF Start, storeVars
<1>4. ASSUME NEW q \in requests, CancelWrite(q)
      PROVE  /\ UNCHANGED <<made, attached>> /\ ~q.final
  BY <1>1, <1>4 DEF CancelWrite, Overtakes, OutsideOK, storeVars
<1>5. ~\E copy \in sweep : ReapWrite(copy)
  BY <1>1 DEF ReapWrite, Overtakes, OutsideOK, Pending
<1>6. ASSUME NEW q \in requests, CancelWrite(q)
      PROVE  /\ row'.failed = row.failed /\ row'.created = row.created
             /\ \A i \in Items : row'.item[i] = row.item[i]
             /\ row'.status = row.status
  BY <1>4, <1>6, CancelWriteCommits
<1> QED
  BY <1>2, <1>3, <1>4, <1>5, <1>6, QuietStep

\* What has been reported stands, unless it was reported over a live worker.
THEOREM VerdictsAreKept == Spec => VerdictsStand
<1>1. Init => StoreInvariant /\ ReportInvariant
  BY InitTyped, PlaceInit, ImagesInit, MadeInit, ReportInit DEF StoreInvariant
<1>2. StoreInvariant /\ ReportInvariant /\ [Next]_vars => (StoreInvariant /\ ReportInvariant)'
  BY ReportStep
<1>3. StoreInvariant /\ ReportInvariant /\ [Next]_vars =>
      [~overtaken' =>
        /\ \A i \in Items : row.item[i] \in Finished => row'.item[i] = row.item[i]
        /\ row.status \in Finished =>
              /\ UNCHANGED <<made, attached>>
              /\ row'.failed = row.failed /\ row'.created = row.created
              /\ \A i \in Items : row'.item[i] = row.item[i]
              /\ row'.status = row.status
                    \/ (row.status = "cancelled" /\ row.cancel /\ pc = "starting")]_vars
  BY FilesStand, ReportStands, OvertakenStays DEF ReportInvariant
<1> QED BY <1>1, <1>2, <1>3, PTL DEF Spec, VerdictsStand
=============================================================================
