-------------------------- MODULE PageEditing_proofs --------------------------
(***************************************************************************)
(* Theorems about PageEditing, for any tabs, clients and users, and for    *)
(* any number of texts, saves, reloads and faults.                         *)
(***************************************************************************)
EXTENDS PageEditing, TLAPS

-----------------------------------------------------------------------------
(* The parts the state is made of. *)

\* The connections of tabs and of others, and whose they are.
LEMMA ConnsTyped ==
    /\ \A t \in Tabs : /\ Live(t) \in Conns /\ Left(t) \in Conns /\ History(t) \in Conns
                       /\ Live(t) # Left(t) /\ History(t) # Live(t) /\ History(t) # Left(t)
    /\ \A o \in Others : Live(o) \in Conns
    /\ \A t \in Tabs \cup Others : User(Live(t)) = UserOf[t] /\ UserOf[t] \in Users
    /\ \A t \in Tabs : User(Left(t)) = UserOf[t] /\ User(History(t)) = UserOf[t]
    /\ \A c \in Conns : User(c) \in Users
  BY UsersAssumption DEF Conns, Live, Left, History, User

\* The numbers that stand for nothing, for the first text and for the first stamp.
LEMMA NumbersTyped ==
    /\ Empty \in Texts /\ FirstText \in Texts /\ FirstText \in 1 .. MaxText
    /\ 0 \in Stamps
    /\ Texts \subseteq Nat /\ Stamps \subseteq Nat
    /\ 0 \in 0 .. MaxActs /\ 0 \in 0 .. MaxReloads /\ 0 \in 0 .. MaxFaults
  BY EditingBounds DEF Empty, FirstText, Texts, Stamps

\* What is absent is of the type of what it stands for.
LEMMA AbsentTyped ==
    /\ NoView \in View /\ NoSave \in Save /\ NoPut \in Put /\ NoDelete \in Delete
    /\ NoFetch \in Fetch /\ Closed \in Editor
  BY NumbersTyped DEF NoView, View, NoSave, Save, NoPut, Put, NoDelete, Delete, NoFetch, Fetch,
     Closed, Editor

\* What a tab shows of a page.
LEMMA ViewTyped ==
    ASSUME NEW p \in Page PROVE ViewOf(p) \in View
  BY DEF ViewOf, View, Page

\* The answer to a save.
LEMMA AnswerTyped ==
    ASSUME NEW s \in Save, NEW phase \in {"applied", "refused", "failed"}
    PROVE  Answer(s, phase) \in Save
  BY AbsentTyped DEF Answer, Save

\* A cancelled editor.
LEMMA CancelledTyped ==
    ASSUME NEW e \in Editor PROVE Cancelled(e) \in Editor /\ ~Cancelled(e).timer
<1>1. Cancelled(e) \in Editor
  BY AbsentTyped DEF Cancelled, Editor
<1>2. ~Cancelled(e).timer
  BY DEF Cancelled, Closed
<1>3. QED
  BY <1>1, <1>2

\* The draft a tab sends.
LEMMA DraftTyped ==
    ASSUME TypeOK, NEW t \in Tabs PROVE DraftOf(t) \in Put
  BY DEF TypeOK, DraftOf, Put, Editor

\* The page a transaction writes.
LEMMA FlushedTyped ==
    ASSUME TypeOK, NEW s, s.text \in Texts, s.start \in Stamps, NEW u \in Users
    PROVE  Flushed(s, u) \in Page
  BY DEF TypeOK, Flushed, Page

\* One editor is replaced by another whose timer runs only if it is open.
LEMMA EditorReplaced ==
    ASSUME TypeOK, NEW t \in Tabs, NEW e \in Editor, e.timer => e.open,
           editor' = [editor EXCEPT ![t] = e]
    PROVE  editor' \in [Tabs -> Editor] /\ \A d \in Tabs : editor'[d].timer => editor'[d].open
  BY DEF TypeOK

LEMMA TimerStopped ==
    ASSUME TypeOK, NEW t \in Tabs, editor' = [editor EXCEPT ![t].timer = FALSE]
    PROVE  editor' \in [Tabs -> Editor] /\ \A d \in Tabs : editor'[d].timer => editor'[d].open
<1>1. editor[t] \in Editor
  BY DEF TypeOK
<1>2. [editor[t] EXCEPT !.timer = FALSE] \in Editor /\ ~[editor[t] EXCEPT !.timer = FALSE].timer
  BY <1>1 DEF Editor
<1>3. editor' = [editor EXCEPT ![t] = [editor[t] EXCEPT !.timer = FALSE]]
  OBVIOUS
<1>4. QED
  BY <1>2, <1>3, EditorReplaced

\* Counters stay within their bounds.
LEMMA CountersTyped ==
    /\ TypeOK /\ Decides => acts' \in 0 .. MaxActs
    /\ TypeOK /\ typed < MaxText => typed + 1 \in 1 .. MaxText /\ typed + 1 \in Texts
  BY EditingBounds DEF TypeOK, Decides, Texts

-----------------------------------------------------------------------------
(* Type correctness. *)

\* Initial states are well typed.
LEMMA TypeInit == Init => TypeOK
<1> SUFFICES ASSUME Init PROVE TypeOK
  OBVIOUS
<1>1. page \in Page /\ ViewOf(page) \in View
  BY UsersAssumption, NumbersTyped, ViewTyped DEF Init, Page
<1>2. revisions \in SUBSET Revision
  BY <1>1 DEF Init, Revision, Page
<1>21. ~Closed.timer
  BY DEF Closed
<1>3. QED
  BY <1>1, <1>2, <1>21, NumbersTyped, AbsentTyped DEF Init, TypeOK

\* Opening, typing, the switch for auto-save and cancelling.
LEMMA EditorStepsTyped ==
    ASSUME TypeOK, NEW t \in Tabs
    PROVE  /\ OpenEditor(t) => TypeOK'
           /\ OpenRecovery(t) => TypeOK'
           /\ Type(t) => TypeOK'
           /\ ToggleAutoSave(t) => TypeOK'
           /\ Cancel(t) => TypeOK'
<1> USE DEF serverVars, browserVars, tabVars, userVars, requestVars, boundVars
<1>1. ASSUME OpenEditor(t) PROVE TypeOK'
  <2>1. [Closed EXCEPT !.open = TRUE, !.text = prop[t].text, !.baseline = prop[t].text,
                       !.autosave = TRUE] \in Editor
    BY AbsentTyped DEF TypeOK, Editor, View
  <2>2. [Closed EXCEPT !.open = TRUE, !.text = prop[t].text, !.baseline = prop[t].text,
                       !.autosave = TRUE].open
    BY DEF Closed
  <2>3. editor' \in [Tabs -> Editor] /\ \A d \in Tabs : editor'[d].timer => editor'[d].open
    BY <1>1, <2>1, <2>2, EditorReplaced DEF OpenEditor
  <2>4. QED
    BY <1>1, <2>3 DEF TypeOK, OpenEditor
<1>2. ASSUME OpenRecovery(t) PROVE TypeOK'
  <2>1. (recovery[t] # prop[t].text) \in BOOLEAN
    OBVIOUS
  <2>2. [Closed EXCEPT !.open = TRUE, !.text = recovery[t], !.baseline = prop[t].text,
                       !.autosave = editor[t].autosave,
                       !.timer = (recovery[t] # prop[t].text)] \in Editor
    BY <2>1, AbsentTyped DEF TypeOK, Editor, View
  <2>3. [Closed EXCEPT !.open = TRUE, !.text = recovery[t], !.baseline = prop[t].text,
                       !.autosave = editor[t].autosave,
                       !.timer = (recovery[t] # prop[t].text)].open
    BY DEF Closed
  <2>4. editor' \in [Tabs -> Editor] /\ \A d \in Tabs : editor'[d].timer => editor'[d].open
    BY <1>2, <2>2, <2>3, EditorReplaced DEF OpenRecovery
  <2>5. QED
    BY <1>2, <2>4 DEF TypeOK, OpenRecovery
<1>3. ASSUME Type(t) PROVE TypeOK'
  <2>1. typed' \in 1 .. MaxText /\ typed' \in Texts
    BY <1>3, CountersTyped DEF Type
  <2>11. [editor[t] EXCEPT !.text = typed', !.timer = TRUE, !.kept = FALSE] \in Editor
    BY <2>1, ZenonT(40) DEF TypeOK, Editor
  <2>12. editor' = [editor EXCEPT ![t] =
                      [editor[t] EXCEPT !.text = typed', !.timer = TRUE, !.kept = FALSE]]
    BY <1>3 DEF TypeOK, Type
  <2>13. [editor[t] EXCEPT !.text = typed', !.timer = TRUE, !.kept = FALSE].open
    BY <1>3 DEF TypeOK, Editor, Type
  <2>2. editor' \in [Tabs -> Editor] /\ \A d \in Tabs : editor'[d].timer => editor'[d].open
    BY <2>11, <2>12, <2>13, EditorReplaced
  <2>3. QED
    BY <1>3, <2>1, <2>2, ConnsTyped DEF TypeOK, Type
<1>4. ASSUME ToggleAutoSave(t) PROVE TypeOK'
  <2>1. /\ [editor[t] EXCEPT !.autosave = ~@] \in Editor
        /\ [editor[t] EXCEPT !.autosave = ~@].open
    BY <1>4 DEF TypeOK, ToggleAutoSave, Editor
  <2>2. editor' \in [Tabs -> Editor] /\ \A d \in Tabs : editor'[d].timer => editor'[d].open
    BY <1>4, <2>1, EditorReplaced DEF TypeOK, ToggleAutoSave
  <2>3. QED
    BY <1>4, <2>2, CountersTyped DEF TypeOK, ToggleAutoSave
<1>5. ASSUME Cancel(t) PROVE TypeOK'
  <2>1. editor' \in [Tabs -> Editor] /\ \A d \in Tabs : editor'[d].timer => editor'[d].open
    BY <1>5, CancelledTyped, EditorReplaced DEF TypeOK, Cancel
  <2>2. QED
    BY <1>5, <2>1, CountersTyped DEF TypeOK, Cancel
<1>6. QED
  BY <1>1, <1>2, <1>3, <1>4, <1>5

\* Timers, drafts and their answers.
LEMMA DraftStepsTyped ==
    ASSUME TypeOK, NEW t \in Tabs
    PROVE  /\ TimerFires(t) => TypeOK'
           /\ AutoSaves(t) => TypeOK'
           /\ SaveDraft(t) => TypeOK'
           /\ PutAnswered(t) => TypeOK'
           /\ DiscardAndCancel(t) => TypeOK'
           /\ DiscardRecovery(t) => TypeOK'
           /\ DeleteAnswered(t) => TypeOK'
           /\ ServerGet(t) => TypeOK'
           /\ GetAnswered(t) => TypeOK'
<1> USE DEF serverVars, browserVars, tabVars, userVars, requestVars, boundVars
<1>0. PersistDraft(t) => putting' \in [Conns -> Put] /\ waiting' \in SUBSET Tabs
  BY DraftTyped, ConnsTyped DEF TypeOK, PersistDraft
<1>1. ASSUME TimerFires(t) PROVE TypeOK'
  <2>1. editor' \in [Tabs -> Editor] /\ \A d \in Tabs : editor'[d].timer => editor'[d].open
    BY <1>1, TimerStopped DEF TypeOK, TimerFires
  <2>2. QED
    BY <1>0, <1>1, <2>1 DEF TypeOK, TimerFires
<1>2. ASSUME AutoSaves(t) PROVE TypeOK'
  BY <1>0, <1>2 DEF TypeOK, AutoSaves
<1>3. ASSUME SaveDraft(t) PROVE TypeOK'
  BY <1>0, <1>3, CountersTyped DEF TypeOK, SaveDraft
<1>4. ASSUME PutAnswered(t) PROVE TypeOK'
  <2>1. putting[Live(t)].text \in Texts
    BY ConnsTyped DEF TypeOK, Put
  <2>2. (editor[t].open /\ editor[t].text = putting[Live(t)].text) \in BOOLEAN
    OBVIOUS
  <2>11. ASSUME NEW b \in BOOLEAN
         PROVE  /\ [editor[t] EXCEPT !.kept = b] \in Editor
                /\ [editor[t] EXCEPT !.kept = b].timer => [editor[t] EXCEPT !.kept = b].open
    <3>1. editor[t] \in Editor /\ (editor[t].timer => editor[t].open)
      BY DEF TypeOK
    <3>2. QED
      BY <3>1 DEF Editor
  <2>12. \/ UNCHANGED editor
        \/ editor' = [editor EXCEPT ![t] = [editor[t] EXCEPT
                !.kept = editor[t].open /\ editor[t].text = putting[Live(t)].text]]
    BY <1>4 DEF TypeOK, PutAnswered
  <2>3. editor' \in [Tabs -> Editor] /\ \A d \in Tabs : editor'[d].timer => editor'[d].open
    <3>1. PICK b \in BOOLEAN : b = (editor[t].open /\ editor[t].text = putting[Live(t)].text)
      BY <2>2
    <3>2. CASE editor' = [editor EXCEPT ![t] = [editor[t] EXCEPT !.kept = b]]
      BY <2>11, <3>2, EditorReplaced
    <3>3. QED
      BY <2>12, <3>1, <3>2 DEF TypeOK
  <2>4. putting' \in [Conns -> Put]
    BY <1>4, DraftTyped, AbsentTyped DEF TypeOK, PutAnswered
  <2>5. deleting' \in [Conns -> Delete]
    BY <1>4, ConnsTyped, ZenonT(40) DEF TypeOK, PutAnswered, Delete
  <2>6. QED
    BY <1>4, <2>1, <2>3, <2>4, <2>5 DEF TypeOK, PutAnswered
<1>5. ASSUME DiscardAndCancel(t) PROVE TypeOK'
  <2>1. editor' \in [Tabs -> Editor] /\ \A d \in Tabs : editor'[d].timer => editor'[d].open
    BY <1>5, TimerStopped DEF TypeOK, DiscardAndCancel
  <2>2. deleting' \in [Conns -> Delete]
    BY <1>5 DEF TypeOK, DiscardAndCancel, Delete
  <2>3. QED
    BY <1>5, <2>1, <2>2, CountersTyped DEF TypeOK, DiscardAndCancel
<1>6. ASSUME DiscardRecovery(t) PROVE TypeOK'
  <2>1. deleting' \in [Conns -> Delete]
    BY <1>6 DEF TypeOK, DiscardRecovery, Delete
  <2>2. QED
    BY <1>6, <2>1, CountersTyped DEF TypeOK, DiscardRecovery
<1>7. ASSUME DeleteAnswered(t) PROVE TypeOK'
  <2>1. editor' \in [Tabs -> Editor] /\ \A d \in Tabs : editor'[d].timer => editor'[d].open
    BY <1>7, CancelledTyped, EditorReplaced DEF TypeOK, DeleteAnswered
  <2>2. local' \in [Users -> Texts] /\ newer' \in SUBSET Users /\ recovery' \in [Tabs -> Texts]
    BY <1>7, NumbersTyped DEF TypeOK, DeleteAnswered
  <2>3. QED
    BY <1>7, <2>1, <2>2, AbsentTyped DEF TypeOK, DeleteAnswered
<1>8. ASSUME ServerGet(t) PROVE TypeOK'
  <2>1. [phase |-> "answered", draft |-> drafts[UserOf[t]]] \in Fetch
    BY ConnsTyped DEF TypeOK, Fetch
  <2>2. QED
    BY <1>8, <2>1 DEF TypeOK, ServerGet
<1>9. ASSUME GetAnswered(t) PROVE TypeOK'
  <2>1. local[UserOf[t]] \in Texts /\ fetching[t].draft \in Texts
    BY ConnsTyped DEF TypeOK, Fetch
  <2>2. QED
    BY <1>9, <2>1, AbsentTyped DEF TypeOK, GetAnswered
<1>10. QED
  BY <1>1, <1>2, <1>3, <1>4, <1>5, <1>6, <1>7, <1>8, <1>9

\* Saving, its answers and the overwrite dialog.
LEMMA SaveStepsTyped ==
    ASSUME TypeOK, NEW t \in Tabs
    PROVE  /\ \A close \in BOOLEAN : SavePage(t, close) => TypeOK'
           /\ ForceSave(t) => TypeOK'
           /\ Stay(t) => TypeOK'
           /\ OverwriteFromNotice(t) => TypeOK'
           /\ SaveSucceeded(t) => TypeOK'
           /\ SaveRefused(t) => TypeOK'
           /\ Restore(t) => TypeOK'
           /\ RestoreAnswered(t) => TypeOK'
<1> USE DEF serverVars, browserVars, tabVars, userVars, requestVars, boundVars
<1>0. ASSUME NEW force \in BOOLEAN, NEW close \in BOOLEAN, SendSave(t, force, close)
      PROVE  saving' \in [Conns -> Save]
  <2>1. [NoSave EXCEPT !.phase = "sent", !.text = editor[t].text, !.base = prop[t].stamp,
                       !.force = force, !.close = close] \in Save
    BY AbsentTyped DEF TypeOK, Save, Editor, View
  <2>2. QED
    BY <1>0, <2>1 DEF TypeOK, SendSave
<1>1. ASSUME NEW close \in BOOLEAN, SavePage(t, close) PROVE TypeOK'
  <2>1. SendSave(t, FALSE, close)
    BY <1>1 DEF SavePage
  <2>2. saving' \in [Conns -> Save]
    BY <1>0, <2>1
  <2>3. QED
    BY <1>1, <2>2, CountersTyped DEF TypeOK, SavePage
<1>2. ASSUME ForceSave(t) PROVE TypeOK'
  <2>1. SendSave(t, TRUE, TRUE)
    BY <1>2 DEF ForceSave
  <2>2. saving' \in [Conns -> Save]
    BY <1>0, <2>1
  <2>3. QED
    BY <1>2, <2>2, CountersTyped DEF TypeOK, ForceSave
<1>3. ASSUME Stay(t) PROVE TypeOK'
  BY <1>3, CountersTyped DEF TypeOK, Stay
<1>4. ASSUME OverwriteFromNotice(t) PROVE TypeOK'
  BY <1>4, CountersTyped DEF TypeOK, OverwriteFromNotice
<1>5. ASSUME SaveSucceeded(t) PROVE TypeOK'
  <2> DEFINE kept == [editor[t] EXCEPT !.baseline = saving[Live(t)].text]
  <2>11. editor[t] \in Editor /\ saving[Live(t)] \in Save
    BY ConnsTyped DEF TypeOK
  <2>12. saving[Live(t)].text \in Texts
    BY <2>11 DEF Save
  <2>1. kept \in Editor
    BY <2>11, <2>12 DEF Editor
  <2>2. /\ [Cancelled(kept) EXCEPT !.text = kept.text] \in Editor
        /\ ~[Cancelled(kept) EXCEPT !.text = kept.text].timer
    BY <2>1, CancelledTyped DEF Editor
  <2>3. ASSUME NEW b \in BOOLEAN, b => kept.open
        PROVE  /\ [kept EXCEPT !.timer = b] \in Editor
               /\ [kept EXCEPT !.timer = b].timer => [kept EXCEPT !.timer = b].open
    BY <2>1, <2>3 DEF Editor
  <2>4. editor[t].timer \in BOOLEAN /\ (kept.timer /\ Dirty(kept)) \in BOOLEAN
    BY DEF TypeOK, Editor
  <2>5. /\ [kept EXCEPT !.timer = @ /\ Dirty(kept)] \in Editor
        /\ [kept EXCEPT !.timer = @ /\ Dirty(kept)].timer
              => [kept EXCEPT !.timer = @ /\ Dirty(kept)].open
    <3>1. PICK b \in BOOLEAN : b = (kept.timer /\ Dirty(kept))
      BY <2>4
    <3>2. b => kept.open
      BY <3>1 DEF Dirty
    <3>3. QED
      BY <2>3, <3>1, <3>2
  <2>6. editor' = [editor EXCEPT ![t] =
            IF saving[Live(t)].close THEN [Cancelled(kept) EXCEPT !.text = kept.text]
            ELSE [kept EXCEPT !.timer = @ /\ Dirty(kept)]]
    BY <1>5 DEF SaveSucceeded
  <2> HIDE DEF kept
  <2>7. editor' \in [Tabs -> Editor] /\ \A d \in Tabs : editor'[d].timer => editor'[d].open
    BY <2>2, <2>5, <2>6, EditorReplaced DEF TypeOK
  <2>8. QED
    BY <1>5, <2>7, AbsentTyped, NumbersTyped DEF TypeOK, SaveSucceeded
<1>6. ASSUME SaveRefused(t) PROVE TypeOK'
  BY <1>6, AbsentTyped DEF TypeOK, SaveRefused
<1>7. ASSUME Restore(t) PROVE TypeOK'
  <2>1. PICK r \in revisions : saving' = [saving EXCEPT ![History(t)] =
            [NoSave EXCEPT !.phase = "sent", !.text = r.text, !.force = TRUE, !.restore = TRUE]]
    BY <1>7 DEF Restore
  <2>2. r.text \in Texts
    BY DEF TypeOK, Revision
  <2>3. [NoSave EXCEPT !.phase = "sent", !.text = r.text, !.force = TRUE, !.restore = TRUE] \in Save
    BY <2>2, AbsentTyped DEF Save
  <2>4. saving' \in [Conns -> Save]
    BY <2>1, <2>3 DEF TypeOK
  <2>5. QED
    BY <1>7, <2>4, CountersTyped DEF TypeOK, Restore
<1>8. ASSUME RestoreAnswered(t) PROVE TypeOK'
  BY <1>8, AbsentTyped DEF TypeOK, RestoreAnswered
<1>9. QED
  BY <1>1, <1>2, <1>3, <1>4, <1>5, <1>6, <1>7, <1>8

\* The server's transactions.
LEMMA ServerStepsTyped ==
    ASSUME TypeOK, NEW c \in Conns
    PROVE  /\ ServerPut(c) => TypeOK'
           /\ ServerDelete(c) => TypeOK'
           /\ ServerChecks(c) => TypeOK'
           /\ ServerRefuses(c) => TypeOK'
           /\ ServerSaves(c) => TypeOK'
<1> USE DEF serverVars, browserVars, tabVars, userVars, requestVars, boundVars
<1>1. ASSUME ServerPut(c) PROVE TypeOK'
  <2>1. putting' \in [Conns -> Put]
    BY <1>1 DEF TypeOK, ServerPut, Put
  <2>2. drafts' \in [Users -> Texts]
    BY <1>1 DEF TypeOK, ServerPut, Put
  <2>3. QED
    BY <1>1, <2>1, <2>2 DEF TypeOK, ServerPut
<1>2. ASSUME ServerDelete(c) PROVE TypeOK'
  <2>1. deleting' \in [Conns -> Delete]
    BY <1>2 DEF TypeOK, ServerDelete, Delete
  <2>2. QED
    BY <1>2, <2>1, NumbersTyped DEF TypeOK, ServerDelete
<1>3. ASSUME ServerChecks(c) PROVE TypeOK'
  <2>1. clock' \in Stamps
    BY <1>3, EditingBounds DEF TypeOK, ServerChecks, Stamps
  <2>2. ViewOf(page) \in View /\ (page.by = User(c)) \in BOOLEAN
    BY ViewTyped DEF TypeOK
  <2>3. ASSUME NEW b \in BOOLEAN
        PROVE  [saving[c] EXCEPT !.phase = "checked", !.start = clock', !.read = ViewOf(page),
                                 !.mine = b] \in Save
    <3>1. saving[c] \in Save
      BY DEF TypeOK
    <3>2. QED
      BY <2>1, <2>2, <3>1 DEF Save
  <2>4. saving' = [saving EXCEPT ![c] =
            [saving[c] EXCEPT !.phase = "checked", !.start = clock', !.read = ViewOf(page),
                              !.mine = (page.by = User(c))]]
    BY <1>3 DEF TypeOK, ServerChecks
  <2>5. saving' \in [Conns -> Save]
    BY <2>2, <2>3, <2>4 DEF TypeOK
  <2>6. QED
    BY <1>3, <2>1, <2>5 DEF TypeOK, ServerChecks
<1>4. ASSUME ServerRefuses(c) PROVE TypeOK'
  <2>1. Answer(saving[c], "refused") \in Save
    BY AnswerTyped DEF TypeOK
  <2>2. QED
    BY <1>4, <2>1 DEF TypeOK, ServerRefuses
<1>5. ASSUME ServerSaves(c) PROVE TypeOK'
  <2>1. saving[c].text \in Texts /\ saving[c].start \in Stamps
    BY DEF TypeOK, Save
  <2>2. page' \in Page
    BY <1>5, <2>1, FlushedTyped, ConnsTyped DEF ServerSaves
  <2>3. revisions' \in SUBSET Revision
    BY <1>5, <2>2, ConnsTyped DEF TypeOK, ServerSaves, WithRevision, Revision, Page
  <2>4. Answer(saving[c], "applied") \in Save
    BY AnswerTyped DEF TypeOK
  <2>5. saving' \in [Conns -> Save]
    BY <1>5, <2>4 DEF TypeOK, ServerSaves
  <2>6. drafts' \in [Users -> Texts]
    BY <1>5, NumbersTyped DEF TypeOK, ServerSaves
  <2>7. QED
    BY <1>5, <2>2, <2>3, <2>5, <2>6 DEF TypeOK, ServerSaves
<1>6. QED
  BY <1>1, <1>2, <1>3, <1>4, <1>5

\* Refreshes, notices, reloads and faults.
LEMMA EventsTyped ==
    ASSUME TypeOK, NEW t \in Tabs
    PROVE  /\ Refresh(t) => TypeOK'
           /\ Notice(t) => TypeOK'
           /\ Fails(t) => TypeOK'
           /\ \A saved \in {saving[Live(t)], NoSave}, put \in {putting[Live(t)], NoPut, DraftOf(t)},
                 deleted \in {deleting[Live(t)], NoDelete} :
                   Reload(t, saved, put, deleted) => TypeOK'
<1> USE DEF serverVars, browserVars, tabVars, userVars, requestVars, boundVars
<1>1. ASSUME Refresh(t) PROVE TypeOK'
  <2>1. Dirty(editor[t]) \in BOOLEAN
    BY DEF TypeOK, Editor, Dirty
  <2>2. ASSUME NEW b \in BOOLEAN, b => editor[t].open
        PROVE  /\ [editor[t] EXCEPT !.timer = b] \in Editor
               /\ [editor[t] EXCEPT !.timer = b].timer => [editor[t] EXCEPT !.timer = b].open
    BY <2>2 DEF TypeOK, Editor
  <2>3. editor' = [editor EXCEPT ![t] = [editor[t] EXCEPT !.timer = Dirty(editor[t])]]
    BY <1>1 DEF TypeOK, Refresh
  <2>4. editor' \in [Tabs -> Editor] /\ \A d \in Tabs : editor'[d].timer => editor'[d].open
    <3>1. Dirty(editor[t]) => editor[t].open
      BY DEF Dirty
    <3>2. QED
      BY <2>1, <2>2, <2>3, <3>1, EditorReplaced
  <2>5. QED
    BY <1>1, <2>4, ViewTyped DEF TypeOK, Refresh
<1>2. ASSUME Notice(t) PROVE TypeOK'
  BY <1>2 DEF TypeOK, Notice
<1>3. ASSUME Fails(t) PROVE TypeOK'
  <2>1. faults' \in 0 .. MaxFaults
    BY <1>3, EditingBounds DEF TypeOK, Fails
  <2>2. Answer(saving[Live(t)], "failed") \in Save /\ Answer(saving[History(t)], "failed") \in Save
    BY AnswerTyped, ConnsTyped DEF TypeOK
  <2>3. /\ [putting[Live(t)] EXCEPT !.phase = "failed"] \in Put
        /\ [deleting[Live(t)] EXCEPT !.phase = "failed"] \in Delete
    <3>1. putting[Live(t)] \in Put /\ deleting[Live(t)] \in Delete
      BY ConnsTyped DEF TypeOK
    <3>2. QED
      BY <3>1 DEF Put, Delete
  <2>4. /\ saving' \in [Conns -> Save] /\ putting' \in [Conns -> Put]
        /\ deleting' \in [Conns -> Delete] /\ fetching' \in [Tabs -> Fetch]
    BY <1>3, <2>2, <2>3, AbsentTyped DEF TypeOK, Fails
  <2>5. QED
    BY <1>3, <2>1, <2>4 DEF TypeOK, Fails
<1>4. ASSUME NEW saved \in {saving[Live(t)], NoSave}, NEW deleted \in {deleting[Live(t)], NoDelete},
             NEW put \in {putting[Live(t)], NoPut, DraftOf(t)},
             Reload(t, saved, put, deleted)
      PROVE  TypeOK'
  <2>1. saved \in Save /\ put \in Put /\ deleted \in Delete
    BY AbsentTyped, DraftTyped, ConnsTyped DEF TypeOK
  <2>2. reloads' \in 0 .. MaxReloads
    BY <1>4, EditingBounds DEF TypeOK, Reload
  <2>3. [phase |-> "sent", draft |-> Empty] \in Fetch
    BY NumbersTyped DEF Fetch
  <2>4. /\ saving' \in [Conns -> Save] /\ putting' \in [Conns -> Put]
        /\ deleting' \in [Conns -> Delete] /\ fetching' \in [Tabs -> Fetch]
    BY <1>4, <2>1, <2>3, AbsentTyped DEF TypeOK, Reload
  <2>5. editor' \in [Tabs -> Editor] /\ \A d \in Tabs : editor'[d].timer => editor'[d].open
    BY <1>4, AbsentTyped, EditorReplaced DEF TypeOK, Reload, Closed
  <2>6. QED
    BY <1>4, <2>2, <2>4, <2>5, AbsentTyped, NumbersTyped, ViewTyped DEF TypeOK, Reload
<1>5. QED
  BY <1>1, <1>2, <1>3, <1>4

\* Saves of the other clients.
LEMMA OtherSavesTyped ==
    ASSUME TypeOK, NEW o \in Others, OtherSaves(o)
    PROVE  TypeOK'
<1> USE DEF serverVars, browserVars, tabVars, userVars, requestVars, boundVars
<1>1. typed' \in 1 .. MaxText /\ typed' \in Texts
  BY OtherSaves(o), CountersTyped DEF OtherSaves
<1>2. [NoSave EXCEPT !.phase = "sent", !.text = typed', !.base = page.stamp] \in Save
  BY <1>1, AbsentTyped DEF TypeOK, Save, Page
<1>3. QED
  BY OtherSaves(o), <1>1, <1>2 DEF TypeOK, OtherSaves

\* Every step keeps the types.
LEMMA TypeNext == TypeOK /\ [Next]_vars => TypeOK'
<1> SUFFICES ASSUME TypeOK, [Next]_vars PROVE TypeOK'
  OBVIOUS
<1>1. CASE Server
  BY <1>1, ServerStepsTyped, DraftStepsTyped DEF Server
<1>2. ASSUME NEW t \in Tabs, Runs(t) PROVE TypeOK'
  BY <1>2, DraftStepsTyped, SaveStepsTyped DEF Runs
<1>3. ASSUME NEW t \in Tabs, Acts(t) PROVE TypeOK'
  BY <1>3, EditorStepsTyped, DraftStepsTyped, SaveStepsTyped DEF Acts
<1>4. ASSUME NEW t \in Tabs, Happens(t) PROVE TypeOK'
  BY <1>4, EventsTyped DEF Happens
<1>5. CASE UNCHANGED vars
  BY <1>5 DEF vars, serverVars, browserVars, tabVars, userVars, requestVars, boundVars, TypeOK
<1>6. QED
  BY <1>1, <1>2, <1>3, <1>4, <1>5, OtherSavesTyped DEF Next

\* Every reachable state is well typed.
THEOREM TypeCorrect == Spec => []TypeOK
  BY TypeInit, TypeNext, PTL DEF Spec

-----------------------------------------------------------------------------
(* What each step leaves alone. *)

\* The steps that change neither the page nor its history nor a copy of a text.
LEMMA QuietSteps ==
    ASSUME NEW t \in Tabs, NEW c \in Conns,
           \/ TimerFires(t) \/ AutoSaves(t) \/ PutAnswered(t) \/ GetAnswered(t) \/ ServerGet(t)
           \/ SaveRefused(t) \/ OpenEditor(t) \/ OpenRecovery(t) \/ ToggleAutoSave(t) \/ Cancel(t)
           \/ SaveDraft(t) \/ DiscardAndCancel(t) \/ DiscardRecovery(t)
           \/ (\E close \in BOOLEAN : SavePage(t, close))
           \/ ForceSave(t) \/ Stay(t) \/ OverwriteFromNotice(t) \/ Restore(t)
           \/ RestoreAnswered(t) \/ Happens(t)
           \/ ServerChecks(c) \/ ServerRefuses(c)
           \/ (\E o \in Others : OtherSaves(o))
           \/ UNCHANGED vars
    PROVE  UNCHANGED <<page, revisions, drafts, local>>
<1> USE DEF serverVars, browserVars
<1>1. (TimerFires(t) \/ AutoSaves(t) \/ PutAnswered(t) \/ GetAnswered(t) \/ ServerGet(t)
       \/ SaveRefused(t)) => UNCHANGED <<page, revisions, drafts, local>>
  BY DEF TimerFires, AutoSaves, PutAnswered, GetAnswered, ServerGet, SaveRefused
<1>2. (OpenEditor(t) \/ OpenRecovery(t) \/ ToggleAutoSave(t) \/ Cancel(t) \/ SaveDraft(t)
       \/ DiscardAndCancel(t) \/ DiscardRecovery(t)) => UNCHANGED <<page, revisions, drafts, local>>
  BY DEF OpenEditor, OpenRecovery, ToggleAutoSave, Cancel, SaveDraft, DiscardAndCancel,
     DiscardRecovery
<1>3. ((\E close \in BOOLEAN : SavePage(t, close)) \/ ForceSave(t) \/ Stay(t)
       \/ OverwriteFromNotice(t) \/ Restore(t) \/ RestoreAnswered(t))
      => UNCHANGED <<page, revisions, drafts, local>>
  BY DEF SavePage, ForceSave, Stay, OverwriteFromNotice, Restore, RestoreAnswered
<1>4. Happens(t) => UNCHANGED <<page, revisions, drafts, local>>
  BY DEF Happens, Refresh, Notice, Fails, Reload
<1>5. (ServerChecks(c) \/ ServerRefuses(c) \/ (\E o \in Others : OtherSaves(o)) \/ UNCHANGED vars)
      => UNCHANGED <<page, revisions, drafts, local>>
  BY DEF ServerChecks, ServerRefuses, OtherSaves, vars
<1>6. QED
  BY <1>1, <1>2, <1>3, <1>4, <1>5

\* Next, with the steps that write a page, a draft or a local draft named.
LEMMA Writers ==
    ASSUME [Next]_vars
    PROVE  \/ UNCHANGED <<page, revisions, drafts, local>>
           \/ \E c \in Conns : ServerPut(c) \/ ServerDelete(c) \/ ServerSaves(c)
           \/ \E t \in Tabs : Type(t) \/ SaveSucceeded(t) \/ DeleteAnswered(t)
<1>1. CASE Server
  <2>1. ASSUME NEW c \in Conns, ServerChecks(c) \/ ServerRefuses(c)
        PROVE  UNCHANGED <<page, revisions, drafts, local>>
    BY <2>1 DEF ServerChecks, ServerRefuses, serverVars, browserVars
  <2>2. ASSUME NEW t \in Tabs, ServerGet(t)
        PROVE  UNCHANGED <<page, revisions, drafts, local>>
    BY <2>2 DEF ServerGet, serverVars, browserVars
  <2>3. QED
    BY <1>1, <2>1, <2>2 DEF Server
<1>2. ASSUME NEW t \in Tabs, Runs(t) \/ Acts(t) \/ Happens(t)
      PROVE  \/ UNCHANGED <<page, revisions, drafts, local>>
             \/ Type(t) \/ SaveSucceeded(t) \/ DeleteAnswered(t)
  BY <1>2, QuietSteps, ConnsTyped DEF Runs, Acts
<1>3. CASE (\E o \in Others : OtherSaves(o)) \/ UNCHANGED vars
  BY <1>3 DEF OtherSaves, vars, serverVars, browserVars
<1>4. QED
  BY <1>1, <1>2, <1>3 DEF Next

\* A step that changes the page leaves its new text in the history.
LEMMA HistoryGrows ==
    ASSUME [Next]_vars
    PROVE  /\ revisions \subseteq revisions'
           /\ page' = page \/ \E r \in revisions' : r.text = page'.text
<1> USE DEF serverVars
<1>1. ASSUME NEW c \in Conns, ServerPut(c) \/ ServerDelete(c) PROVE UNCHANGED <<page, revisions>>
  BY <1>1 DEF ServerPut, ServerDelete
<1>2. ASSUME NEW t \in Tabs, Type(t) \/ SaveSucceeded(t) \/ DeleteAnswered(t)
      PROVE  UNCHANGED <<page, revisions>>
  BY <1>2 DEF Type, SaveSucceeded, DeleteAnswered
<1>3. ASSUME NEW u, revisions' = WithRevision(u)
      PROVE  /\ revisions \subseteq revisions'
             /\ \E r \in revisions' : r.text = page'.text
  <2>1. [text |-> page'.text, by |-> u] \in revisions'
    BY <1>3 DEF WithRevision
  <2>2. QED
    BY <1>3, <2>1 DEF WithRevision
<1>4. ASSUME NEW c \in Conns, ServerSaves(c) PROVE revisions' = WithRevision(User(c))
  BY <1>4 DEF ServerSaves
<1>5. QED
  BY <1>1, <1>2, <1>3, <1>4, Writers

-----------------------------------------------------------------------------
(* The history of the page. *)

PageIsInHistory == \E r \in revisions : r.text = page.text

\* Whatever a save or a restore takes off the page stays in its history.
THEOREM HistoryIsComplete == Spec => EveryTextStaysInHistory
<1>1. Init => PageIsInHistory
  BY DEF Init, PageIsInHistory
<1>2. PageIsInHistory /\ [Next]_vars => PageIsInHistory'
  BY HistoryGrows DEF PageIsInHistory
<1>3. PageIsInHistory /\ [Next]_vars => [\E r \in revisions' : r.text = page.text]_vars
  BY HistoryGrows DEF PageIsInHistory
<1>4. QED
  BY <1>1, <1>2, <1>3, PTL DEF Spec, EveryTextStaysInHistory

\* A text that was the page's at any moment can be found in its history from
\* then on, whoever saves, forces or restores what afterwards.
THEOREM HistoryKeepsAll == ASSUME NEW x PROVE Spec => [](page.text = x => []Released(x))
<1>1. Init => PageIsInHistory
  BY DEF Init, PageIsInHistory
<1>2. PageIsInHistory /\ [Next]_vars => PageIsInHistory'
  BY HistoryGrows DEF PageIsInHistory
<1>3. PageIsInHistory /\ page.text = x => Released(x)
  BY DEF PageIsInHistory, Released
<1>4. Released(x) /\ [Next]_vars => Released(x)'
  BY HistoryGrows DEF Released
<1>5. QED
  BY <1>1, <1>2, <1>3, <1>4, PTL DEF Spec

-----------------------------------------------------------------------------
(* What a save that has been checked or executed goes by. *)

\* A save that has loaded the row read a text of the history; an executed one
\* left its text there.
GoesByHistory(s) ==
    /\ s.phase = "checked" => Released(s.read.text)
    /\ s.phase = "applied" => Released(s.text)

SavesGoByHistory == \A c \in Conns : GoesByHistory(saving[c])

\* Saves that are absent or answered are neither checked nor executed.
LEMMA PhasesOfSaves ==
    /\ NoSave.phase = "none"
    /\ \A s, phase : Answer(s, phase).phase = phase /\ Answer(s, phase).text = s.text
  BY DEF NoSave, Answer

\* How one step changes a save: it is neither checked nor executed then, or it is
\* a save of before, on its own or on another connection.
SaveIdles(c) == saving'[c].phase \notin {"checked", "applied"}
SaveMoves(c) ==
    \E d \in Conns :
        /\ saving'[c].phase = saving[d].phase /\ saving'[c].text = saving[d].text
        /\ saving'[c].read = saving[d].read

\* How a step changes each save.
LEMMA SaveSteps ==
    ASSUME TypeOK, [Next]_vars
    PROVE  \A c \in Conns : SaveIdles(c) \/ SaveMoves(c) \/ ServerChecks(c) \/ ServerSaves(c)
<1> USE DEF requestVars
<1>1. ASSUME UNCHANGED saving PROVE \A c \in Conns : SaveMoves(c)
  BY <1>1 DEF SaveMoves
<1>2. ASSUME NEW e \in Conns, NEW s, saving' = [saving EXCEPT ![e] = s],
             s.phase \notin {"checked", "applied"}
      PROVE  \A c \in Conns : SaveIdles(c) \/ SaveMoves(c)
  BY <1>2 DEF TypeOK, SaveIdles, SaveMoves
<1>3. ASSUME NEW e \in Conns, ServerPut(e) \/ ServerDelete(e) PROVE UNCHANGED saving
  BY <1>3 DEF ServerPut, ServerDelete
<1>4. ASSUME NEW t \in Tabs,
             \/ TimerFires(t) \/ AutoSaves(t) \/ PutAnswered(t) \/ DeleteAnswered(t)
             \/ GetAnswered(t) \/ ServerGet(t) \/ OpenEditor(t) \/ OpenRecovery(t) \/ Type(t)
             \/ ToggleAutoSave(t) \/ Cancel(t) \/ SaveDraft(t) \/ DiscardAndCancel(t)
             \/ DiscardRecovery(t) \/ Stay(t) \/ OverwriteFromNotice(t) \/ Refresh(t) \/ Notice(t)
      PROVE  UNCHANGED saving
  BY <1>4 DEF TimerFires, AutoSaves, PutAnswered, DeleteAnswered, GetAnswered, ServerGet, OpenEditor,
     OpenRecovery, Type, ToggleAutoSave, Cancel, SaveDraft, DiscardAndCancel, DiscardRecovery, Stay,
     OverwriteFromNotice, Refresh, Notice
<1>5. ASSUME NEW t \in Tabs, NEW force, NEW close, SendSave(t, force, close)
      PROVE  \A c \in Conns : SaveIdles(c) \/ SaveMoves(c)
  <2>1. [NoSave EXCEPT !.phase = "sent", !.text = editor[t].text, !.base = prop[t].stamp,
                       !.force = force, !.close = close].phase = "sent"
    BY DEF NoSave
  <2>2. QED
    BY <1>2, <1>5, <2>1, ConnsTyped DEF SendSave
<1>6. ASSUME NEW t \in Tabs, (\E close \in BOOLEAN : SavePage(t, close)) \/ ForceSave(t)
      PROVE  \A c \in Conns : SaveIdles(c) \/ SaveMoves(c)
  BY <1>5, <1>6 DEF SavePage, ForceSave
<1>7. ASSUME NEW t \in Tabs, SaveSucceeded(t) \/ SaveRefused(t)
      PROVE  \A c \in Conns : SaveIdles(c) \/ SaveMoves(c)
  BY <1>2, <1>7, PhasesOfSaves, ConnsTyped DEF SaveSucceeded, SaveRefused
<1>8. ASSUME NEW t \in Tabs, Restore(t) \/ RestoreAnswered(t)
      PROVE  \A c \in Conns : SaveIdles(c) \/ SaveMoves(c)
  <2>1. \A x : [NoSave EXCEPT !.phase = "sent", !.text = x, !.force = TRUE, !.restore = TRUE].phase
               = "sent"
    BY DEF NoSave
  <2>2. CASE Restore(t)
    <3>1. PICK r \in revisions : saving' = [saving EXCEPT ![History(t)] =
              [NoSave EXCEPT !.phase = "sent", !.text = r.text, !.force = TRUE, !.restore = TRUE]]
      BY <2>2 DEF Restore
    <3>2. QED
      BY <1>2, <2>1, <3>1, ConnsTyped
  <2>3. CASE RestoreAnswered(t)
    BY <1>2, <2>3, PhasesOfSaves, ConnsTyped DEF RestoreAnswered
  <2>4. QED
    BY <1>8, <2>2, <2>3
<1>9. ASSUME NEW t \in Tabs, Fails(t) PROVE \A c \in Conns : SaveIdles(c) \/ SaveMoves(c)
  BY <1>1, <1>2, <1>9, PhasesOfSaves, ConnsTyped DEF Fails
<1>10. ASSUME NEW t \in Tabs, NEW saved \in {saving[Live(t)], NoSave}, NEW put, NEW deleted,
              Reload(t, saved, put, deleted)
       PROVE  \A c \in Conns : SaveIdles(c) \/ SaveMoves(c)
  <2>1. saving' = [saving EXCEPT ![Live(t)] = NoSave, ![Left(t)] = saved]
    BY <1>10 DEF Reload
  <2>2. QED
    BY <2>1, PhasesOfSaves, ConnsTyped DEF TypeOK, SaveIdles, SaveMoves
<1>11. ASSUME NEW t \in Tabs, Happens(t) PROVE \A c \in Conns : SaveIdles(c) \/ SaveMoves(c)
  BY <1>1, <1>4, <1>9, <1>10, <1>11 DEF Happens
<1>12. ASSUME NEW o \in Others, OtherSaves(o) PROVE \A c \in Conns : SaveIdles(c) \/ SaveMoves(c)
  <2>1. [NoSave EXCEPT !.phase = "sent", !.text = typed', !.base = page.stamp].phase = "sent"
    BY DEF NoSave
  <2>2. QED
    BY <1>2, <1>12, <2>1, ConnsTyped DEF OtherSaves
<1>13. ASSUME NEW e \in Conns, ServerRefuses(e) PROVE \A c \in Conns : SaveIdles(c) \/ SaveMoves(c)
  <2>1. Answer(saving[e], "refused").phase \notin {"checked", "applied"}
    BY PhasesOfSaves
  <2>2. saving' = [saving EXCEPT ![e] = Answer(saving[e], "refused")]
    BY <1>13 DEF ServerRefuses
  <2>3. QED
    BY <1>2, <2>1, <2>2
<1>14. ASSUME NEW e \in Conns, ServerChecks(e)
       PROVE  \A c \in Conns : SaveMoves(c) \/ ServerChecks(c)
  <2>1. \A c \in Conns : c # e => saving'[c] = saving[c]
    BY <1>14 DEF TypeOK, ServerChecks
  <2>2. QED
    BY <1>14, <2>1 DEF SaveMoves
<1>15. ASSUME NEW e \in Conns, ServerSaves(e)
       PROVE  \A c \in Conns : SaveMoves(c) \/ ServerSaves(c)
  <2>1. \A c \in Conns : c # e => saving'[c] = saving[c]
    BY <1>15 DEF TypeOK, ServerSaves
  <2>2. QED
    BY <1>15, <2>1 DEF SaveMoves
<1>16. CASE Server
  BY <1>1, <1>3, <1>4, <1>13, <1>14, <1>15, <1>16 DEF Server
<1>17. ASSUME NEW t \in Tabs, Runs(t) \/ Acts(t)
       PROVE  \A c \in Conns : SaveIdles(c) \/ SaveMoves(c)
  BY <1>1, <1>4, <1>6, <1>7, <1>8, <1>17 DEF Runs, Acts
<1>18. CASE UNCHANGED vars
  BY <1>1, <1>18 DEF vars
<1>19. QED
  BY <1>11, <1>12, <1>16, <1>17, <1>18 DEF Next

EditingInvariant == TypeOK /\ PageIsInHistory /\ SavesGoByHistory

\* The invariant holds at first.
LEMMA EditingInit == Init => EditingInvariant
<1> SUFFICES ASSUME Init PROVE EditingInvariant
  OBVIOUS
<1>1. SavesGoByHistory
  BY DEF Init, SavesGoByHistory, GoesByHistory, NoSave
<1>2. QED
  BY <1>1, TypeInit DEF Init, PageIsInHistory, EditingInvariant

\* An executed save has left its own text or found it there.
LEMMA SavedTextIsReleased ==
    ASSUME EditingInvariant, [Next]_vars, NEW c \in Conns, ServerSaves(c)
    PROVE  \E r \in revisions' : r.text = saving[c].text
<1>1. page' = Flushed(saving[c], User(c)) /\ revisions' = WithRevision(User(c))
  BY DEF ServerSaves
<1>2. CASE saving[c].text = saving[c].read.text
  <2>1. Released(saving[c].read.text)
    BY DEF EditingInvariant, SavesGoByHistory, GoesByHistory, ServerSaves
  <2>2. QED
    BY <1>2, <2>1, HistoryGrows DEF Released
<1>3. CASE saving[c].text # saving[c].read.text
  <2>1. page'.text = saving[c].text
    BY <1>1, <1>3 DEF Flushed
  <2>2. [text |-> saving[c].text, by |-> User(c)] \in revisions'
    BY <1>1, <2>1 DEF WithRevision
  <2>3. QED
    BY <2>2
<1>4. QED
  BY <1>2, <1>3

\* Every step keeps the invariant.
LEMMA EditingNext == EditingInvariant /\ [Next]_vars => EditingInvariant'
<1> SUFFICES ASSUME EditingInvariant, [Next]_vars PROVE EditingInvariant'
  OBVIOUS
<1>1. TypeOK' /\ PageIsInHistory'
  BY TypeNext, HistoryGrows DEF EditingInvariant, PageIsInHistory
<1>2. ASSUME NEW c \in Conns PROVE GoesByHistory(saving[c])'
  <2>1. CASE SaveIdles(c)
    BY <2>1 DEF SaveIdles, GoesByHistory
  <2>2. CASE SaveMoves(c)
    <3>1. PICK d \in Conns :
            /\ saving'[c].phase = saving[d].phase /\ saving'[c].text = saving[d].text
            /\ saving'[c].read = saving[d].read
      BY <2>2 DEF SaveMoves
    <3>2. GoesByHistory(saving[d])
      BY DEF EditingInvariant, SavesGoByHistory
    <3>3. revisions \subseteq revisions'
      BY HistoryGrows
    <3>4. QED
      BY <3>1, <3>2, <3>3 DEF GoesByHistory, Released
  <2>3. CASE ServerChecks(c)
    <3>1. saving'[c] = [saving[c] EXCEPT !.phase = "checked", !.start = clock',
                                        !.read = ViewOf(page), !.mine = (page.by = User(c))]
      BY <2>3 DEF ServerChecks, EditingInvariant, TypeOK
    <3>2. saving[c] \in Save /\ page \in Page
      BY DEF EditingInvariant, TypeOK
    <3>3. saving'[c].phase = "checked" /\ saving'[c].read = ViewOf(page)
      BY <3>1, <3>2 DEF Save
    <3>4. Released(page.text) /\ revisions' = revisions
      BY <2>3 DEF EditingInvariant, PageIsInHistory, Released, ServerChecks
    <3>5. QED
      BY <3>3, <3>4 DEF GoesByHistory, Released, ViewOf
  <2>4. CASE ServerSaves(c)
    <3>1. saving'[c] = Answer(saving[c], "applied")
      BY <2>4 DEF ServerSaves, EditingInvariant, TypeOK
    <3>2. saving'[c].phase = "applied" /\ saving'[c].text = saving[c].text
      BY <3>1, PhasesOfSaves
    <3>3. QED
      BY <2>4, <3>2, SavedTextIsReleased DEF GoesByHistory, Released
  <2>5. QED
    BY <2>1, <2>2, <2>3, <2>4, SaveSteps DEF EditingInvariant
<1>3. QED
  BY <1>1, <1>2 DEF EditingInvariant, SavesGoByHistory

\* The invariant holds in every reachable state.
LEMMA EditingAlways == Spec => []EditingInvariant
  BY EditingInit, EditingNext, PTL DEF Spec

-----------------------------------------------------------------------------
(* What looks saved. *)

\* What a tab goes by as the saved text: what it shows of the page, and the
\* baseline of its editor.
BaselinesInHistory ==
    \A t \in Tabs :
        /\ Released(prop[t].text)
        /\ editor[t].open => Released(editor[t].baseline)

\* Where a tab has them from.
BaselineSource(t) ==
    /\ prop'[t] \in {prop[t], ViewOf(page)}
    /\ editor'[t].open =>
          \/ editor[t].open /\ editor'[t].baseline = editor[t].baseline
          \/ editor'[t].baseline = prop[t].text
          \/ saving[Live(t)].phase = "applied" /\ editor'[t].baseline = saving[Live(t)].text

\* How a step changes the editors.
LEMMA BaselineSteps ==
    ASSUME TypeOK, [Next]_vars
    PROVE  \A t \in Tabs : BaselineSource(t)
<1> USE DEF serverVars, browserVars, tabVars, userVars, requestVars, boundVars
<1>1. ASSUME UNCHANGED <<prop, editor>> PROVE \A t \in Tabs : BaselineSource(t)
  BY <1>1 DEF BaselineSource
<1>2. ASSUME NEW t \in Tabs, NEW e, e.open => editor[t].open /\ e.baseline = editor[t].baseline,
             editor' = [editor EXCEPT ![t] = e], UNCHANGED prop
      PROVE  \A d \in Tabs : BaselineSource(d)
  BY <1>2 DEF TypeOK, BaselineSource
<1>3. ~Closed.open /\ \A e : ~Cancelled(e).open
  BY DEF Closed, Cancelled
<1>4. \A t \in Tabs : editor[t] \in Editor
  BY DEF TypeOK
<1>5. ASSUME NEW t \in Tabs, OpenEditor(t) PROVE \A d \in Tabs : BaselineSource(d)
  <2>1. [Closed EXCEPT !.open = TRUE, !.text = prop[t].text, !.baseline = prop[t].text,
                       !.autosave = TRUE].baseline = prop[t].text
    BY DEF Closed
  <2>2. QED
    BY <1>5, <2>1 DEF OpenEditor, BaselineSource, TypeOK
<1>6. ASSUME NEW t \in Tabs, OpenRecovery(t) PROVE \A d \in Tabs : BaselineSource(d)
  <2>1. [Closed EXCEPT !.open = TRUE, !.text = recovery[t], !.baseline = prop[t].text,
                       !.autosave = editor[t].autosave,
                       !.timer = (recovery[t] # prop[t].text)].baseline = prop[t].text
    BY DEF Closed
  <2>2. QED
    BY <1>6, <2>1 DEF OpenRecovery, BaselineSource, TypeOK
<1>7. ASSUME NEW t \in Tabs, Type(t) PROVE \A d \in Tabs : BaselineSource(d)
  <2> DEFINE e == [editor[t] EXCEPT !.text = typed', !.timer = TRUE, !.kept = FALSE]
  <2>1. e.open = editor[t].open /\ e.baseline = editor[t].baseline
    BY <1>4 DEF Editor
  <2>2. editor' = [editor EXCEPT ![t] = e] /\ UNCHANGED prop
    BY <1>7 DEF Type, TypeOK
  <2> HIDE DEF e
  <2>3. QED
    BY <1>2, <2>1, <2>2
<1>8. ASSUME NEW t \in Tabs, ToggleAutoSave(t) \/ TimerFires(t) \/ DiscardAndCancel(t) \/ Refresh(t)
      PROVE  \A d \in Tabs : BaselineSource(d)
  <2>1. ASSUME NEW b
        PROVE  /\ [editor[t] EXCEPT !.autosave = b].open = editor[t].open
               /\ [editor[t] EXCEPT !.autosave = b].baseline = editor[t].baseline
               /\ [editor[t] EXCEPT !.timer = b].open = editor[t].open
               /\ [editor[t] EXCEPT !.timer = b].baseline = editor[t].baseline
    BY <1>4 DEF Editor
  <2>2. CASE ToggleAutoSave(t)
    BY <1>2, <2>1, <2>2 DEF ToggleAutoSave, TypeOK
  <2>3. CASE TimerFires(t) \/ DiscardAndCancel(t)
    BY <1>2, <2>1, <2>3, ZenonT(40) DEF TimerFires, DiscardAndCancel, TypeOK
  <2>4. CASE Refresh(t)
    BY <2>1, <2>4 DEF Refresh, BaselineSource, TypeOK
  <2>5. QED
    BY <1>8, <2>2, <2>3, <2>4
<1>9. ASSUME NEW t \in Tabs, Cancel(t) \/ DeleteAnswered(t)
      PROVE  \A d \in Tabs : BaselineSource(d)
  BY <1>1, <1>2, <1>3, <1>9 DEF Cancel, DeleteAnswered, TypeOK
<1>10. ASSUME NEW t \in Tabs, PutAnswered(t) PROVE \A d \in Tabs : BaselineSource(d)
  <2>1. ASSUME NEW b
        PROVE  /\ [editor[t] EXCEPT !.kept = b].open = editor[t].open
               /\ [editor[t] EXCEPT !.kept = b].baseline = editor[t].baseline
    BY <1>4 DEF Editor
  <2>2. QED
    BY <1>1, <1>2, <1>10, <2>1 DEF PutAnswered, TypeOK
<1>11. ASSUME NEW t \in Tabs, SaveSucceeded(t) PROVE \A d \in Tabs : BaselineSource(d)
  <2> DEFINE kept == [editor[t] EXCEPT !.baseline = saving[Live(t)].text]
             done == [kept EXCEPT !.timer = @ /\ Dirty(kept)]
             left == [Cancelled(kept) EXCEPT !.text = kept.text]
  <2>1. done.baseline = saving[Live(t)].text
    BY <1>4 DEF Editor
  <2>2. ~left.open
    BY DEF Cancelled, Closed
  <2>3. editor' = [editor EXCEPT ![t] = IF saving[Live(t)].close THEN left ELSE done]
    BY <1>11 DEF SaveSucceeded
  <2>4. saving[Live(t)].phase = "applied" /\ UNCHANGED prop
    BY <1>11 DEF SaveSucceeded
  <2> HIDE DEF done, left
  <2>5. QED
    BY <2>1, <2>2, <2>3, <2>4 DEF BaselineSource, TypeOK
<1>12. ASSUME NEW t \in Tabs, NEW saved, NEW put, NEW deleted, Reload(t, saved, put, deleted)
       PROVE  \A d \in Tabs : BaselineSource(d)
  BY <1>3, <1>12 DEF Reload, BaselineSource, TypeOK
<1>13. ASSUME NEW t \in Tabs,
              \/ AutoSaves(t) \/ GetAnswered(t) \/ ServerGet(t) \/ SaveRefused(t) \/ RestoreAnswered(t)
              \/ SaveDraft(t) \/ DiscardRecovery(t) \/ (\E close \in BOOLEAN : SavePage(t, close))
              \/ ForceSave(t) \/ Stay(t) \/ OverwriteFromNotice(t) \/ Restore(t)
              \/ Notice(t) \/ Fails(t)
       PROVE  UNCHANGED <<prop, editor>>
  BY <1>13 DEF AutoSaves, GetAnswered, ServerGet, SaveRefused, RestoreAnswered, SaveDraft,
     DiscardRecovery, SavePage, ForceSave, Stay, OverwriteFromNotice, Restore, Notice, Fails
<1>14. ASSUME NEW c \in Conns,
              ServerPut(c) \/ ServerDelete(c) \/ ServerChecks(c) \/ ServerRefuses(c) \/ ServerSaves(c)
       PROVE  UNCHANGED <<prop, editor>>
  BY <1>14 DEF ServerPut, ServerDelete, ServerChecks, ServerRefuses, ServerSaves
<1>15. CASE Server
  BY <1>1, <1>13, <1>14, <1>15 DEF Server
<1>16. ASSUME NEW t \in Tabs, Runs(t) PROVE \A d \in Tabs : BaselineSource(d)
  BY <1>1, <1>8, <1>9, <1>10, <1>11, <1>13, <1>16 DEF Runs
<1>17. ASSUME NEW t \in Tabs, Acts(t) PROVE \A d \in Tabs : BaselineSource(d)
  BY <1>1, <1>5, <1>6, <1>7, <1>8, <1>9, <1>13, <1>17 DEF Acts
<1>18. ASSUME NEW t \in Tabs, Happens(t) PROVE \A d \in Tabs : BaselineSource(d)
  BY <1>1, <1>8, <1>12, <1>13, <1>18 DEF Happens
<1>19. CASE (\E o \in Others : OtherSaves(o)) \/ UNCHANGED vars
  BY <1>1, <1>19 DEF OtherSaves, vars
<1>20. QED
  BY <1>15, <1>16, <1>17, <1>18, <1>19 DEF Next

\* What an editor holds when it shows nothing unsaved is in the page's history.
THEOREM NothingUnsavedLooksSaved == Spec => []WhatLooksSavedIsInHistory
<1>1. Init => BaselinesInHistory
  BY DEF Init, BaselinesInHistory, Released, ViewOf, Closed
<1>2. EditingInvariant /\ BaselinesInHistory /\ [Next]_vars => BaselinesInHistory'
  <2> SUFFICES ASSUME EditingInvariant, BaselinesInHistory, [Next]_vars, NEW t \in Tabs
               PROVE  /\ Released(prop[t].text)'
                      /\ editor'[t].open => Released(editor[t].baseline)'
    BY DEF BaselinesInHistory
  <2>1. BaselineSource(t)
    BY BaselineSteps DEF EditingInvariant
  <2>2. \A x : Released(x) => \E r \in revisions' : r.text = x
    BY HistoryGrows DEF Released
  <2>3. Released(prop[t].text) /\ Released(ViewOf(page).text)
    BY DEF BaselinesInHistory, EditingInvariant, PageIsInHistory, Released, ViewOf
  <2>4. saving[Live(t)].phase = "applied" => Released(saving[Live(t)].text)
    BY ConnsTyped DEF EditingInvariant, SavesGoByHistory, GoesByHistory
  <2>5. editor[t].open => Released(editor[t].baseline)
    BY DEF BaselinesInHistory
  <2>6. Released(prop'[t].text)
    BY <2>1, <2>3 DEF BaselineSource
  <2>7. editor'[t].open => Released(editor'[t].baseline)
    BY <2>1, <2>3, <2>4, <2>5 DEF BaselineSource
  <2>8. QED
    BY <2>2, <2>6, <2>7 DEF Released
<1>3. BaselinesInHistory => WhatLooksSavedIsInHistory
  BY DEF BaselinesInHistory, WhatLooksSavedIsInHistory, Dirty
<1>4. QED
  BY <1>1, <1>2, <1>3, EditingAlways, PTL DEF Spec

-----------------------------------------------------------------------------
(* Copies of unsaved texts. *)

\* One step of CopyLostOnlyByOlderRequest, given the invariant.
LEMMA CopyStep ==
    ASSUME EditingInvariant, [Next]_vars, NEW t \in Tabs, Stored(t),
           editor'[t].text = editor[t].text, ~Stored(t)'
    PROVE  WorksOffOlderRequest(t) \/ AnotherTabTypes(t)
<1> DEFINE u == UserOf[t]
           text == editor[t].text
<1>0. TypeOK /\ u \in Users
  BY ConnsTyped DEF EditingInvariant
<1>1. Released(text) => Stored(t)'
  BY HistoryGrows DEF Stored, Released
<1>2. local[u] = text \/ drafts[u] = text
  BY <1>1 DEF Stored
<1>3. ~(local'[u] = local[u] /\ drafts'[u] = drafts[u])
  BY <1>1, <1>2 DEF Stored
<1>4. ASSUME NEW c \in Conns, ServerPut(c) PROVE WorksOffOlderRequest(t)
  <2>1. User(c) = u
    BY <1>0, <1>3, <1>4 DEF ServerPut, browserVars, TypeOK
  <2>2. drafts'[u] = putting[c].text
    BY <1>0, <1>4, <2>1 DEF ServerPut, TypeOK
  <2>3. putting[c].text # text
    BY <2>2 DEF Stored
  <2>4. putting'[c] # putting[c]
    <3>1. putting[c] \in Put /\ putting'[c] = [putting[c] EXCEPT !.phase = "applied"]
      BY <1>0, <1>4 DEF ServerPut, TypeOK
    <3>2. putting'[c].phase = "applied" /\ putting[c].phase = "sent"
      BY <1>4, <3>1 DEF ServerPut, Put
    <3>3. QED
      BY <3>2
  <2>5. QED
    BY <2>1, <2>3, <2>4 DEF WorksOffOlderRequest
<1>5. ASSUME NEW c \in Conns, ServerDelete(c) PROVE WorksOffOlderRequest(t)
  <2>1. User(c) = u
    BY <1>0, <1>3, <1>5 DEF ServerDelete, browserVars, TypeOK
  <2>2. deleting'[c] # deleting[c]
    <3>1. deleting[c] \in Delete /\ deleting'[c] = [deleting[c] EXCEPT !.phase = "applied"]
      BY <1>0, <1>5 DEF ServerDelete, TypeOK
    <3>2. deleting'[c].phase = "applied" /\ deleting[c].phase = "sent"
      BY <1>5, <3>1 DEF ServerDelete, Delete
    <3>3. QED
      BY <3>2
  <2>3. QED
    BY <2>1, <2>2 DEF WorksOffOlderRequest
<1>6. ASSUME NEW c \in Conns, ServerSaves(c) PROVE WorksOffOlderRequest(t)
  <2>1. User(c) = u
    BY <1>0, <1>3, <1>6 DEF ServerSaves, browserVars, TypeOK
  <2>2. saving[c].text # text
    BY <1>6, SavedTextIsReleased DEF Stored, Released
  <2>3. saving'[c] # saving[c]
    <3>1. saving'[c] = Answer(saving[c], "applied")
      BY <1>0, <1>6 DEF ServerSaves, TypeOK
    <3>2. QED
      BY <1>6, <3>1, PhasesOfSaves DEF ServerSaves
  <2>4. QED
    BY <2>1, <2>2, <2>3 DEF WorksOffOlderRequest
<1>7. ASSUME NEW d \in Tabs, Type(d) PROVE AnotherTabTypes(t)
  <2>1. UserOf[d] = u
    BY <1>0, <1>3, <1>7 DEF Type, serverVars, TypeOK
  <2>2. editor'[d].text = typed' /\ local'[u] = typed' /\ typed' # typed
    <3>1. editor[d] \in Editor /\ typed \in Nat
      BY <1>0 DEF TypeOK
    <3>2. editor'[d].text = typed'
      BY <1>0, <1>7, <3>1 DEF Type, TypeOK, Editor
    <3>3. QED
      BY <1>0, <1>7, <2>1, <3>1, <3>2 DEF Type, TypeOK
  <2>3. d # t
    BY <2>2 DEF Stored
  <2>4. QED
    BY <2>1, <2>2, <2>3 DEF AnotherTabTypes
<1>8. ASSUME NEW d \in Tabs, SaveSucceeded(d) PROVE WorksOffOlderRequest(t)
  <2>1. UserOf[d] = u
    BY <1>0, <1>3, <1>8 DEF SaveSucceeded, serverVars, TypeOK
  <2>2. saving[Live(d)].phase = "applied" /\ saving'[Live(d)] = NoSave
    BY <1>0, <1>8, ConnsTyped DEF SaveSucceeded, TypeOK
  <2>3. Released(saving[Live(d)].text)
    BY <2>2, ConnsTyped DEF EditingInvariant, SavesGoByHistory, GoesByHistory
  <2>4. saving[Live(d)].text # text
    BY <1>1, <2>3
  <2>5. QED
    BY <2>1, <2>2, <2>4, ConnsTyped, PhasesOfSaves DEF WorksOffOlderRequest
<1>9. ASSUME NEW d \in Tabs, DeleteAnswered(d) PROVE WorksOffOlderRequest(t)
  <2>1. UserOf[d] = u
    BY <1>0, <1>3, <1>9 DEF DeleteAnswered, serverVars, TypeOK
  <2>2. deleting[Live(d)].phase \in {"applied", "failed"} /\ deleting'[Live(d)] = NoDelete
    BY <1>0, <1>9, ConnsTyped DEF DeleteAnswered, TypeOK
  <2>3. deleting'[Live(d)] # deleting[Live(d)]
    BY <2>2 DEF NoDelete
  <2>4. QED
    BY <2>1, <2>3, ConnsTyped DEF WorksOffOlderRequest
<1>10. QED
  BY <1>3, <1>4, <1>5, <1>6, <1>7, <1>8, <1>9, Writers

\* No step but an older request of the user's own, or typing in another tab of
\* theirs, takes the last copy of an unsaved text away.
THEOREM CopiesAreKept == Spec => CopyLostOnlyByOlderRequest
<1>1. EditingInvariant /\ [Next]_vars =>
        [\A t \in Tabs :
            (/\ Dirty(editor[t]) /\ Stored(t) /\ t \notin discarded
             /\ Dirty(editor'[t]) /\ editor'[t].text = editor[t].text
             /\ ~Stored(t)')
            => WorksOffOlderRequest(t) \/ AnotherTabTypes(t)]_vars
  BY CopyStep
<1>2. QED
  BY <1>1, EditingAlways, PTL DEF Spec, CopyLostOnlyByOlderRequest
=============================================================================
