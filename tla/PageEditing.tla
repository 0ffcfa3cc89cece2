----------------------------- MODULE PageEditing -----------------------------
(***************************************************************************)
(* Editing one page from several browser tabs: the editor of               *)
(* components/pages/space-workspace.tsx with its timers and its requests,  *)
(* the copies kept by lib/drafts.ts (local storage of the browser, a draft *)
(* row of the user on the server), the notice of lib/use-page-presence.ts, *)
(* and the handlers that answer them (modules/pages/service.py: update,    *)
(* save_draft, discard_draft, get_draft, restore_revision).                *)
(*                                                                         *)
(* A request is in flight between the step that sends it and the step      *)
(* that handles its answer; requests of one tab overlap and the server     *)
(* takes them in any order.  A tab that is closed, reloaded or navigated   *)
(* away leaves its requests behind: the connection <<t, "left">>.          *)
(*                                                                         *)
(* A text is a number: every pause in somebody's typing makes a new one.   *)
(* Not modelled: the title (it is in no draft), formats and their          *)
(* conversion, and typing a text back to what it was.                      *)
(***************************************************************************)
EXTENDS Naturals, FiniteSets

CONSTANTS
    Tabs,         \* tabs that show the page
    Others,       \* other clients of the page: of their editing only the saves are modelled
    Users,
    UserOf,       \* the account of each tab and client; tabs of one share a local storage
    Authors,      \* the users that may have written the page before
    Tol,          \* the tolerance of the conflict check (1.0 s), in clock units
    Gaps,         \* how much later than the last save a save may begin
    MaxText,      \* bound: texts typed, with the page's first
    MaxClock,     \* bound: stamps given out
    MaxActs,      \* bound: decisions of the tabs' users: save, discard, restore, ...
    MaxReloads,   \* bound: tabs closed, crashed, reloaded or navigated away
    MaxFaults     \* bound: requests that fail, before or after they act

ASSUME UsersAssumption == UserOf \in [Tabs \cup Others -> Users] /\ Authors \subseteq Users
ASSUME EditingBounds ==
    /\ Tol \in Nat /\ Gaps \subseteq Nat \ {0}
    /\ MaxText \in Nat \ {0} /\ MaxClock \in Nat
    /\ MaxActs \in Nat /\ MaxReloads \in Nat /\ MaxFaults \in Nat

VARIABLES
    page,       \* the wiki_pages row
    revisions,  \* its page_revisions
    drafts,     \* the text of each user's page_drafts row
    clock,      \* the stamp of the last transaction that saved the page
    local,      \* the draft in each user's local storage
    newer,      \* users whose local draft was saved after their draft row was
    typed,      \* the newest text
    prop,       \* currentPage of each tab: the page as the server last rendered it there
    editor,     \* the editor of each tab and its debounce timer
    recovery,   \* recoveryDraft of each tab: what the banner offers
    notice,     \* tabs that show conflictNotice
    confirm,    \* tabs whose overwrite dialog is open
    saving,     \* PATCH of the page, or the restore of a revision, on each connection
    putting,    \* PUT of the draft, on each connection
    waiting,    \* tabs with a persistDraft() behind the PUT in flight
    deleting,   \* DELETE of the draft, on each connection
    fetching,   \* GET of the draft, sent when a tab loads
    discarded,  \* tabs whose user discarded all they had typed
    acts, reloads, faults

serverVars == <<page, revisions, drafts, clock>>
browserVars == <<local, newer>>
tabVars == <<prop, editor, recovery>>
userVars == <<notice, confirm, discarded>>
requestVars == <<saving, putting, waiting, deleting, fetching>>
boundVars == <<acts, reloads, faults>>
vars == <<serverVars, browserVars, typed, tabVars, userVars, requestVars, boundVars>>

-----------------------------------------------------------------------------
(* Data.                                                                   *)

Empty == 0            \* no text: an absent draft, an editor that was cleared
FirstText == 1
Texts == 0 .. MaxText
Stamps == 0 .. MaxClock
Conns == (Tabs \X {"live", "left", "history"}) \cup (Others \X {"live"})
Live(t) == <<t, "live">>
Left(t) == <<t, "left">>
History(t) == <<t, "history">>
User(c) == UserOf[c[1]]

Page == [text : Texts, stamp : Stamps, by : Users]
Revision == [text : Texts, by : Users]
View == [text : Texts, stamp : Stamps]
NoView == [text |-> Empty, stamp |-> 0]
ViewOf(p) == [text |-> p.text, stamp |-> p.stamp]

\* `kept`: draftSavedContent is the text of the editor.
Editor == [open : BOOLEAN, text : Texts, baseline : Texts, autosave : BOOLEAN,
           timer : BOOLEAN, kept : BOOLEAN]
Closed == [open |-> FALSE, text |-> Empty, baseline |-> Empty, autosave |-> FALSE,
           timer |-> FALSE, kept |-> FALSE]

\* `read`, `mine`: the row as the transaction loaded it, and whether its author is the user;
\* `start`: when it began, which is what now() says in PostgreSQL;
\* `restore`: restore_revision, which asks for no base and keeps the draft.
Save == [phase : {"none", "sent", "checked", "applied", "refused", "failed"},
         text : Texts, base : Stamps, force : BOOLEAN, close : BOOLEAN,
         restore : BOOLEAN, start : Stamps, read : View, mine : BOOLEAN]
NoSave == [phase |-> "none", text |-> Empty, base |-> 0, force |-> FALSE, close |-> FALSE,
           restore |-> FALSE, start |-> 0, read |-> NoView, mine |-> FALSE]
Answer(s, phase) == [NoSave EXCEPT !.phase = phase, !.text = s.text, !.close = s.close]

Put == [phase : {"none", "sent", "applied", "failed"}, text : Texts]
NoPut == [phase |-> "none", text |-> Empty]

\* `closing`: the editor closes when the answer is there.
Delete == [phase : {"none", "waiting", "sent", "applied", "failed"}, closing : BOOLEAN]
NoDelete == [phase |-> "none", closing |-> FALSE]

Fetch == [phase : {"none", "sent", "answered"}, draft : Texts]
NoFetch == [phase |-> "none", draft |-> Empty]

\* What is of which kind; and a timer runs in an open editor only.
TypeOK ==
    /\ page \in Page
    /\ revisions \in SUBSET Revision
    /\ drafts \in [Users -> Texts]
    /\ clock \in Stamps
    /\ local \in [Users -> Texts]
    /\ newer \in SUBSET Users
    /\ typed \in 1 .. MaxText
    /\ prop \in [Tabs -> View]
    /\ editor \in [Tabs -> Editor]
    /\ \A t \in Tabs : editor[t].timer => editor[t].open
    /\ recovery \in [Tabs -> Texts]
    /\ notice \in SUBSET Tabs
    /\ confirm \in SUBSET Tabs
    /\ discarded \in SUBSET Tabs
    /\ saving \in [Conns -> Save]
    /\ putting \in [Conns -> Put]
    /\ waiting \in SUBSET Tabs
    /\ deleting \in [Conns -> Delete]
    /\ fetching \in [Tabs -> Fetch]
    /\ acts \in 0 .. MaxActs
    /\ reloads \in 0 .. MaxReloads
    /\ faults \in 0 .. MaxFaults

\* An author has written the page; every tab shows it and nobody has a draft.
Init ==
    /\ page \in [text : {FirstText}, stamp : {0}, by : Authors]
    /\ revisions = {[text |-> page.text, by |-> page.by]}
    /\ drafts = [u \in Users |-> Empty]
    /\ clock = 0
    /\ local = [u \in Users |-> Empty]
    /\ newer = {}
    /\ typed = FirstText
    /\ prop = [t \in Tabs |-> ViewOf(page)]
    /\ editor = [t \in Tabs |-> Closed]
    /\ recovery = [t \in Tabs |-> Empty]
    /\ notice = {} /\ confirm = {} /\ discarded = {}
    /\ saving = [c \in Conns |-> NoSave]
    /\ putting = [c \in Conns |-> NoPut]
    /\ waiting = {}
    /\ deleting = [c \in Conns |-> NoDelete]
    /\ fetching = [t \in Tabs |-> NoFetch]
    /\ acts = 0 /\ reloads = 0 /\ faults = 0

-----------------------------------------------------------------------------
(* The editor.                                                             *)

\* pageEditDirty, and pageEditDirtyRef after each render.
Dirty(e) == e.open /\ e.text # e.baseline

\* The overwrite dialog keeps a user from everything behind it but the save shortcut.
AtPage(t) == t \notin confirm

\* A decision of a user; their number is bounded.
Decides == acts < MaxActs /\ acts' = acts + 1

\* beginEditing without a recovery draft: openEditor.
OpenEditor(t) ==
    /\ AtPage(t)
    /\ ~editor[t].open
    /\ recovery[t] = Empty
    /\ editor' = [editor EXCEPT ![t] =
            [Closed EXCEPT !.open = TRUE, !.text = prop[t].text, !.baseline = prop[t].text,
                           !.autosave = TRUE]]
    /\ UNCHANGED <<serverVars, browserVars, typed, prop, recovery, notice, confirm, discarded,
                   requestVars, boundVars>>

\* The text is the draft's, the baseline and the base are the page's as the
\* tab has it now; auto-save stays as it was.
OpenRecovery(t) ==
    /\ AtPage(t)
    /\ ~editor[t].open
    /\ recovery[t] # Empty
    /\ editor' = [editor EXCEPT ![t] =
            [Closed EXCEPT !.open = TRUE, !.text = recovery[t], !.baseline = prop[t].text,
                           !.autosave = editor[t].autosave,
                           !.timer = (recovery[t] # prop[t].text)]]
    /\ UNCHANGED <<serverVars, browserVars, typed, prop, recovery, notice, confirm, discarded,
                   requestVars, boundVars>>

\* updateDraftContent, updateMarkdownDraft, and the effect that re-arms the timer.
Type(t) ==
    /\ AtPage(t)
    /\ editor[t].open
    /\ typed < MaxText
    /\ typed' = typed + 1
    /\ editor' = [editor EXCEPT ![t].text = typed', ![t].timer = TRUE, ![t].kept = FALSE]
    /\ local' = [local EXCEPT ![UserOf[t]] = typed']
    /\ newer' = newer \cup {UserOf[t]}
    /\ discarded' = discarded \ {t}
    /\ UNCHANGED <<serverVars, prop, recovery, notice, confirm, requestVars, boundVars>>

ToggleAutoSave(t) ==
    /\ AtPage(t)
    /\ Decides
    /\ editor[t].open
    /\ saving[Live(t)].phase = "none"
    /\ editor' = [editor EXCEPT ![t].autosave = ~@]
    /\ UNCHANGED <<serverVars, browserVars, typed, prop, recovery, userVars, requestVars, reloads, faults>>

\* cancelEditing clears what the tab holds of the edit.
Cancelled(e) == [Closed EXCEPT !.autosave = e.autosave]

\* requestCancelEditing, with nothing unsaved or once saveDraftAndCancel has kept the text.
Cancel(t) ==
    /\ AtPage(t)
    /\ Decides
    /\ editor[t].open
    /\ Dirty(editor[t]) => editor[t].kept
    /\ saving[Live(t)].phase = "none"
    /\ editor' = [editor EXCEPT ![t] = Cancelled(@)]
    /\ UNCHANGED <<serverVars, browserVars, typed, prop, recovery, userVars, requestVars, reloads, faults>>

-----------------------------------------------------------------------------
(* Drafts.                                                                 *)

DraftOf(t) == [phase |-> "sent", text |-> editor[t].text]

\* One PUT at a time; a caller that finds one in flight waits for it.
PersistDraft(t) ==
    \/ /\ putting[Live(t)].phase = "none"
       /\ putting' = IF Dirty(editor[t]) THEN [putting EXCEPT ![Live(t)] = DraftOf(t)] ELSE putting
       /\ UNCHANGED waiting
    \/ /\ putting[Live(t)].phase # "none"
       /\ waiting' = waiting \cup {t}
       /\ UNCHANGED putting

TimerFires(t) ==
    /\ editor[t].timer
    /\ PersistDraft(t)
    /\ editor' = [editor EXCEPT ![t].timer = FALSE]
    /\ UNCHANGED <<serverVars, browserVars, typed, prop, recovery, userVars, saving, deleting,
                   fetching, boundVars>>

\* Wrong: what this tab stored once counts as stored.
AutoSavesUnlessKept(t) ==
    /\ editor[t].autosave
    /\ Dirty(editor[t]) /\ ~editor[t].kept
    /\ saving[Live(t)].phase = "none"
    /\ PersistDraft(t)
    /\ UNCHANGED <<serverVars, browserVars, typed, tabVars, userVars, saving, deleting,
                   fetching, boundVars>>

\* The 30 s interval.
AutoSaves(t) ==
    /\ editor[t].autosave
    /\ Dirty(editor[t])
    /\ saving[Live(t)].phase = "none"
    /\ PersistDraft(t)
    /\ UNCHANGED <<serverVars, browserVars, typed, tabVars, userVars, saving, deleting,
                   fetching, boundVars>>

\* saveDraftNow.
SaveDraft(t) ==
    /\ AtPage(t)
    /\ Decides
    /\ Dirty(editor[t]) /\ ~editor[t].kept
    /\ saving[Live(t)].phase = "none"
    /\ PersistDraft(t)
    /\ UNCHANGED <<serverVars, browserVars, typed, tabVars, userVars, saving, deleting,
                   fetching, reloads, faults>>

\* save_draft.
ServerPut(c) ==
    /\ putting[c].phase = "sent"
    /\ drafts' = [drafts EXCEPT ![User(c)] = putting[c].text]
    /\ newer' = newer \ {User(c)}
    /\ putting' = [putting EXCEPT ![c].phase = "applied"]
    /\ UNCHANGED <<page, revisions, clock, local, typed, tabVars, userVars, saving,
                   waiting, deleting, fetching, boundVars>>

\* The answer to the PUT.  Those who waited for it continue in the same turn:
\* one persistDraft sends the text of now, and discardCurrentDraft, which
\* waited once, sends its DELETE.
PutAnswered(t) ==
    LET done == putting[Live(t)] IN
    /\ done.phase \in {"applied", "failed"}
    /\ IF done.phase = "applied"
       THEN /\ editor' = [editor EXCEPT ![t].kept = editor[t].open /\ editor[t].text = done.text]
            /\ recovery' = [recovery EXCEPT ![t] = done.text]
       ELSE UNCHANGED <<editor, recovery>>
    /\ putting' = [putting EXCEPT ![Live(t)] =
            IF t \in waiting /\ Dirty(editor[t]) THEN DraftOf(t) ELSE NoPut]
    /\ waiting' = waiting \ {t}
    /\ deleting' = [deleting EXCEPT ![Live(t)].phase = IF @ = "waiting" THEN "sent" ELSE @]
    /\ UNCHANGED <<serverVars, browserVars, typed, prop, userVars, saving, fetching, boundVars>>

\* "Leave without saving" in the cancel dialog: leaveWithoutSaving, discardCurrentDraft.
DiscardAndCancel(t) ==
    /\ AtPage(t)
    /\ Decides
    /\ Dirty(editor[t])
    /\ saving[Live(t)].phase = "none"
    /\ deleting[Live(t)].phase = "none"
    /\ editor' = [editor EXCEPT ![t].timer = FALSE]
    /\ deleting' = [deleting EXCEPT ![Live(t)] =
            [phase |-> IF putting[Live(t)].phase = "none" THEN "sent" ELSE "waiting",
             closing |-> TRUE]]
    /\ discarded' = discarded \cup {t}
    /\ UNCHANGED <<serverVars, browserVars, typed, prop, recovery, notice, confirm, saving,
                   putting, waiting, fetching, reloads, faults>>

\* "Discard draft" in the banner: discardRecoveryDraft.
DiscardRecovery(t) ==
    /\ AtPage(t)
    /\ Decides
    /\ ~editor[t].open
    /\ recovery[t] # Empty
    /\ deleting[Live(t)].phase = "none"
    /\ deleting' = [deleting EXCEPT ![Live(t)] = [phase |-> "sent", closing |-> FALSE]]
    /\ discarded' = discarded \cup {t}
    /\ UNCHANGED <<serverVars, browserVars, typed, tabVars, notice, confirm, saving, putting,
                   waiting, fetching, reloads, faults>>

\* discard_draft.
ServerDelete(c) ==
    /\ deleting[c].phase = "sent"
    /\ drafts' = [drafts EXCEPT ![User(c)] = Empty]
    /\ deleting' = [deleting EXCEPT ![c].phase = "applied"]
    /\ UNCHANGED <<page, revisions, clock, browserVars, typed, tabVars, userVars, saving,
                   putting, waiting, fetching, boundVars>>

DeleteAnswered(t) ==
    LET done == deleting[Live(t)] IN
    /\ done.phase \in {"applied", "failed"}
    /\ IF done.phase = "applied"
       THEN /\ local' = [local EXCEPT ![UserOf[t]] = Empty]
            /\ newer' = newer \ {UserOf[t]}
            /\ recovery' = [recovery EXCEPT ![t] = Empty]
       ELSE UNCHANGED <<local, newer, recovery>>
    /\ editor' = IF done.closing THEN [editor EXCEPT ![t] = Cancelled(@)] ELSE editor
    /\ deleting' = [deleting EXCEPT ![Live(t)] = NoDelete]
    /\ UNCHANGED <<serverVars, typed, prop, userVars, saving, putting, waiting, fetching, boundVars>>

\* get_draft, for the effect that runs when a tab has opened the page.
ServerGet(t) ==
    /\ fetching[t].phase = "sent"
    /\ fetching' = [fetching EXCEPT ![t] = [phase |-> "answered", draft |-> drafts[UserOf[t]]]]
    /\ UNCHANGED <<serverVars, browserVars, typed, tabVars, userVars, saving, putting,
                   waiting, deleting, boundVars>>

\* The local draft is offered when it is the newer one.
GetAnswered(t) ==
    LET u == UserOf[t] IN
    /\ fetching[t].phase = "answered"
    /\ recovery' = [recovery EXCEPT ![t] =
            IF local[u] # Empty /\ (fetching[t].draft = Empty \/ u \in newer)
            THEN local[u] ELSE fetching[t].draft]
    /\ fetching' = [fetching EXCEPT ![t] = NoFetch]
    /\ UNCHANGED <<serverVars, browserVars, typed, prop, editor, userVars, saving, putting,
                   waiting, deleting, boundVars>>

-----------------------------------------------------------------------------
(* Saving the page.                                                        *)

\* persistPage: one PATCH at a time, with what the tab holds now.
SendSave(t, force, close) ==
    /\ saving[Live(t)].phase = "none"
    /\ saving' = [saving EXCEPT ![Live(t)] =
            [NoSave EXCEPT !.phase = "sent", !.text = editor[t].text, !.base = prop[t].stamp,
                           !.force = force, !.close = close]]

\* The Save button, "Save and leave", or the shortcut, which keeps the editor open.
SavePage(t, close) ==
    /\ Decides
    /\ editor[t].open
    /\ IF close THEN AtPage(t) ELSE Dirty(editor[t])
    /\ SendSave(t, FALSE, close)
    /\ UNCHANGED <<serverVars, browserVars, typed, tabVars, userVars, putting, waiting,
                   deleting, fetching, reloads, faults>>

\* "Overwrite & Save".  An answer to the dialog, which a decision has opened.
ForceSave(t) ==
    /\ t \in confirm
    /\ confirm' = confirm \ {t}
    /\ SendSave(t, TRUE, TRUE)
    /\ UNCHANGED <<serverVars, browserVars, typed, tabVars, notice, discarded, putting,
                   waiting, deleting, fetching, boundVars>>

Stay(t) ==
    /\ t \in confirm
    /\ confirm' = confirm \ {t}
    /\ UNCHANGED <<serverVars, browserVars, typed, tabVars, notice, discarded, requestVars,
                   boundVars>>

OverwriteFromNotice(t) ==
    /\ AtPage(t)
    /\ Decides
    /\ t \in notice /\ editor[t].open
    /\ confirm' = confirm \cup {t}
    /\ UNCHANGED <<serverVars, browserVars, typed, tabVars, notice, discarded, requestVars,
                   reloads, faults>>

TooOld(s) == ~s.force /\ page.stamp > s.base + Tol

\* update and restore_revision: the transaction begins, loads the row and, if
\* it is a save, compares the stamps.
ServerChecks(c) ==
    /\ saving[c].phase = "sent"
    /\ ~TooOld(saving[c])
    /\ \E gap \in Gaps : clock + gap <= MaxClock /\ clock' = clock + gap
    /\ saving' = [saving EXCEPT ![c].phase = "checked", ![c].start = clock',
                                ![c].read = ViewOf(page), ![c].mine = (page.by = User(c))]
    /\ UNCHANGED <<page, revisions, drafts, browserVars, typed, tabVars, userVars,
                   putting, waiting, deleting, fetching, boundVars>>

ServerRefuses(c) ==
    /\ saving[c].phase = "sent"
    /\ TooOld(saving[c])
    /\ saving' = [saving EXCEPT ![c] = Answer(@, "refused")]
    /\ UNCHANGED <<serverVars, browserVars, typed, tabVars, userVars, putting, waiting,
                   deleting, fetching, boundVars>>

\* The row as the flush leaves it: only what differs from what was loaded is
\* written, and updated_at with it.
Flushed(s, u) ==
    [text  |-> IF s.text # s.read.text THEN s.text ELSE page.text,
     by    |-> IF s.mine THEN page.by ELSE u,
     stamp |-> IF s.text # s.read.text \/ ~s.mine THEN s.start ELSE page.stamp]

\* Wrong: an author's further saves are one revision.
WithRevisionOfAnother(u) ==
    IF u = page.by THEN revisions ELSE revisions \cup {[text |-> page'.text, by |-> u]}

\* snapshot_revision, of the refreshed row.
WithRevision(u) == revisions \cup {[text |-> page'.text, by |-> u]}

\* The rest of both: flush, refresh, snapshot_revision, the user's draft after a
\* save, commit.
ServerSaves(c) ==
    /\ saving[c].phase = "checked"
    /\ page' = Flushed(saving[c], User(c))
    /\ revisions' = WithRevision(User(c))
    /\ drafts' = [drafts EXCEPT ![User(c)] = IF saving[c].restore THEN @ ELSE Empty]
    /\ saving' = [saving EXCEPT ![c] = Answer(@, "applied")]
    /\ UNCHANGED <<clock, browserVars, typed, tabVars, notice, confirm, discarded, putting, waiting,
                   deleting, fetching, boundVars>>

\* Wrong: the timer of an editor that closes goes on.
SaveSucceededTimerLeft(t) ==
    LET done == saving[Live(t)]
        kept == [editor[t] EXCEPT !.baseline = done.text]
    IN
    /\ done.phase = "applied"
    /\ editor' = [editor EXCEPT ![t] =
            IF done.close THEN [Cancelled(kept) EXCEPT !.text = kept.text, !.timer = kept.timer]
            ELSE [kept EXCEPT !.timer = @ /\ Dirty(kept)]]
    /\ notice' = notice \ {t}
    /\ local' = [local EXCEPT ![UserOf[t]] = Empty]
    /\ newer' = newer \ {UserOf[t]}
    /\ recovery' = [recovery EXCEPT ![t] = Empty]
    /\ saving' = [saving EXCEPT ![Live(t)] = NoSave]
    /\ UNCHANGED <<serverVars, typed, prop, confirm, discarded, putting, waiting, deleting,
                   fetching, boundVars>>

\* Wrong: what the editor holds when the answer comes counts as saved.
SaveSucceededAsIs(t) ==
    LET done == saving[Live(t)]
        kept == [editor[t] EXCEPT !.baseline = editor[t].text]
    IN
    /\ done.phase = "applied"
    /\ editor' = [editor EXCEPT ![t] =
            IF done.close THEN [Cancelled(kept) EXCEPT !.text = kept.text]
            ELSE [kept EXCEPT !.timer = FALSE]]
    /\ notice' = notice \ {t}
    /\ local' = [local EXCEPT ![UserOf[t]] = Empty]
    /\ newer' = newer \ {UserOf[t]}
    /\ recovery' = [recovery EXCEPT ![t] = Empty]
    /\ saving' = [saving EXCEPT ![Live(t)] = NoSave]
    /\ UNCHANGED <<serverVars, typed, prop, confirm, discarded, putting, waiting, deleting,
                   fetching, boundVars>>

\* persistPage after the await: the baseline is what was sent.
SaveSucceeded(t) ==
    LET done == saving[Live(t)]
        kept == [editor[t] EXCEPT !.baseline = done.text]
    IN
    /\ done.phase = "applied"
    /\ editor' = [editor EXCEPT ![t] =
            IF done.close THEN [Cancelled(kept) EXCEPT !.text = kept.text]
            ELSE [kept EXCEPT !.timer = @ /\ Dirty(kept)]]
    /\ notice' = notice \ {t}
    /\ local' = [local EXCEPT ![UserOf[t]] = Empty]
    /\ newer' = newer \ {UserOf[t]}
    /\ recovery' = [recovery EXCEPT ![t] = Empty]
    /\ saving' = [saving EXCEPT ![Live(t)] = NoSave]
    /\ UNCHANGED <<serverVars, typed, prop, confirm, discarded, putting, waiting, deleting,
                   fetching, boundVars>>

\* Wrong: the local draft is cleared whatever the answer is.
SaveRefusedClears(t) ==
    /\ saving[Live(t)].phase \in {"refused", "failed"}
    /\ confirm' = IF saving[Live(t)].phase = "refused" THEN confirm \cup {t} ELSE confirm
    /\ local' = [local EXCEPT ![UserOf[t]] = Empty]
    /\ newer' = newer \ {UserOf[t]}
    /\ saving' = [saving EXCEPT ![Live(t)] = NoSave]
    /\ UNCHANGED <<serverVars, typed, tabVars, notice, discarded, putting, waiting,
                   deleting, fetching, boundVars>>

\* Wrong: savePending and autoSaveInFlight stay set after an error.
SaveRefusedOnly(t) ==
    /\ saving[Live(t)].phase = "refused"
    /\ confirm' = confirm \cup {t}
    /\ saving' = [saving EXCEPT ![Live(t)] = NoSave]
    /\ UNCHANGED <<serverVars, browserVars, typed, tabVars, notice, discarded, putting,
                   waiting, deleting, fetching, boundVars>>

\* A refusal opens the overwrite dialog; any other error is a toast.
SaveRefused(t) ==
    LET done == saving[Live(t)] IN
    /\ done.phase \in {"refused", "failed"}
    /\ IF done.phase = "refused"
       THEN confirm' = confirm \cup {t}
       ELSE UNCHANGED confirm
    /\ saving' = [saving EXCEPT ![Live(t)] = NoSave]
    /\ UNCHANGED <<serverVars, browserVars, typed, tabVars, notice, discarded, putting, waiting,
                   deleting, fetching, boundVars>>

\* handleRestore in the page's history.
Restore(t) ==
    /\ AtPage(t)
    /\ Decides
    /\ saving[History(t)].phase = "none"
    /\ \E r \in revisions :
        saving' = [saving EXCEPT ![History(t)] =
            [NoSave EXCEPT !.phase = "sent", !.text = r.text, !.force = TRUE, !.restore = TRUE]]
    /\ UNCHANGED <<serverVars, browserVars, typed, tabVars, userVars, putting, waiting, deleting,
                   fetching, reloads, faults>>

\* The dialog closes and calls for a refresh, or shows an error.
RestoreAnswered(t) ==
    /\ saving[History(t)].phase \in {"applied", "failed"}
    /\ saving' = [saving EXCEPT ![History(t)] = NoSave]
    /\ UNCHANGED <<serverVars, browserVars, typed, tabVars, userVars, putting, waiting, deleting,
                   fetching, boundVars>>

\* Another client saves a text of its own over the page as it is now.
OtherSaves(o) ==
    /\ saving[Live(o)].phase \notin {"sent", "checked"}
    /\ typed < MaxText
    /\ typed' = typed + 1
    /\ saving' = [saving EXCEPT ![Live(o)] =
            [NoSave EXCEPT !.phase = "sent", !.text = typed', !.base = page.stamp]]
    /\ UNCHANGED <<serverVars, browserVars, tabVars, userVars, putting, waiting,
                   deleting, fetching, boundVars>>

-----------------------------------------------------------------------------
(* What happens to a tab.                                                  *)

\* router.refresh(): after a save, and whenever the star, the chat assistant or
\* a dialog of the page asks for it, the editor open or not.  The timer's effect
\* depends on currentPage.
Refresh(t) ==
    /\ prop[t] # ViewOf(page)
    /\ prop' = [prop EXCEPT ![t] = ViewOf(page)]
    /\ editor' = [editor EXCEPT ![t].timer = Dirty(editor[t])]
    /\ UNCHANGED <<serverVars, browserVars, typed, recovery, userVars, requestVars, boundVars>>

\* page_saved over the socket, or a poll that finds another stamp.
Notice(t) ==
    /\ editor[t].open
    /\ prop[t].stamp # page.stamp
    /\ notice' = notice \cup {t}
    /\ UNCHANGED <<serverVars, browserVars, typed, tabVars, confirm, discarded, requestVars,
                   boundVars>>

\* The tab goes away with all it holds, and is opened again.  Its requests may
\* or may not reach the server; beforeunload tries to send a draft.
Reload(t, saved, put, deleted) ==
    /\ reloads < MaxReloads
    /\ reloads' = reloads + 1
    /\ saving[Left(t)].phase \notin {"sent", "checked"}
    /\ saving[Live(t)].phase = "checked" => saved = saving[Live(t)]
    /\ put = DraftOf(t) => putting[Live(t)] = put \/ (putting[Live(t)] = NoPut /\ Dirty(editor[t]))
    /\ deleted.phase # "waiting"
    /\ saving' = [saving EXCEPT ![Live(t)] = NoSave, ![Left(t)] = saved]
    /\ putting' = [putting EXCEPT ![Live(t)] = NoPut, ![Left(t)] = put]
    /\ deleting' = [deleting EXCEPT ![Live(t)] = NoDelete, ![Left(t)] = deleted]
    /\ waiting' = waiting \ {t}
    /\ fetching' = [fetching EXCEPT ![t] = [phase |-> "sent", draft |-> Empty]]
    /\ prop' = [prop EXCEPT ![t] = ViewOf(page)]
    /\ editor' = [editor EXCEPT ![t] = Closed]
    /\ recovery' = [recovery EXCEPT ![t] = Empty]
    /\ notice' = notice \ {t} /\ confirm' = confirm \ {t}
    /\ UNCHANGED <<serverVars, browserVars, typed, discarded, acts, faults>>

\* A request fails: it never reached the server, or its answer did not come back.
Fails(t) ==
    /\ faults < MaxFaults
    /\ faults' = faults + 1
    /\ \/ /\ saving[Live(t)].phase \in {"sent", "applied"}
          /\ saving' = [saving EXCEPT ![Live(t)] = Answer(@, "failed")]
          /\ UNCHANGED <<putting, deleting, fetching>>
       \/ /\ saving[History(t)].phase \in {"sent", "applied"}
          /\ saving' = [saving EXCEPT ![History(t)] = Answer(@, "failed")]
          /\ UNCHANGED <<putting, deleting, fetching>>
       \/ /\ putting[Live(t)].phase \in {"sent", "applied"}
          /\ putting' = [putting EXCEPT ![Live(t)].phase = "failed"]
          /\ UNCHANGED <<saving, deleting, fetching>>
       \/ /\ deleting[Live(t)].phase \in {"sent", "applied"}
          /\ deleting' = [deleting EXCEPT ![Live(t)].phase = "failed"]
          /\ UNCHANGED <<saving, putting, fetching>>
       \/ /\ fetching[t].phase # "none"
          /\ fetching' = [fetching EXCEPT ![t] = NoFetch]
          /\ UNCHANGED <<saving, putting, deleting>>
    /\ UNCHANGED <<serverVars, browserVars, typed, tabVars, userVars, waiting, acts, reloads>>

-----------------------------------------------------------------------------
Server ==
    \/ \E c \in Conns : \/ ServerPut(c) \/ ServerDelete(c)
                        \/ ServerChecks(c) \/ ServerRefuses(c) \/ ServerSaves(c)
    \/ \E t \in Tabs : ServerGet(t)

\* What a tab does of itself: answers handled, timers.
Runs(t) ==
    \/ TimerFires(t) \/ AutoSaves(t) \/ PutAnswered(t) \/ DeleteAnswered(t) \/ GetAnswered(t)
    \/ SaveSucceeded(t) \/ SaveRefused(t) \/ RestoreAnswered(t)

Acts(t) ==
    \/ OpenEditor(t) \/ OpenRecovery(t) \/ Type(t) \/ ToggleAutoSave(t)
    \/ Cancel(t) \/ SaveDraft(t) \/ DiscardAndCancel(t) \/ DiscardRecovery(t)
    \/ \E close \in BOOLEAN : SavePage(t, close)
    \/ ForceSave(t) \/ Stay(t) \/ OverwriteFromNotice(t) \/ Restore(t)

Happens(t) ==
    \/ Refresh(t) \/ Notice(t) \/ Fails(t)
    \/ \E saved \in {saving[Live(t)], NoSave}, put \in {putting[Live(t)], NoPut, DraftOf(t)},
          deleted \in {deleting[Live(t)], NoDelete} : Reload(t, saved, put, deleted)

Next ==
    \/ Server
    \/ \E t \in Tabs : Runs(t) \/ Acts(t) \/ Happens(t)
    \/ \E o \in Others : OtherSaves(o)

Spec == Init /\ [][Next]_vars

\* Browsers and server work on: timers fire, requests are executed, answers are
\* handled.  Nothing is assumed of the users.
Fairness ==
    /\ \A t \in Tabs :
        /\ WF_vars(TimerFires(t)) /\ WF_vars(AutoSaves(t))
        /\ WF_vars(PutAnswered(t)) /\ WF_vars(DeleteAnswered(t)) /\ WF_vars(GetAnswered(t))
        /\ WF_vars(SaveSucceeded(t)) /\ WF_vars(SaveRefused(t)) /\ WF_vars(RestoreAnswered(t))
        /\ WF_vars(ServerGet(t))
    /\ \A c \in Conns :
        /\ WF_vars(ServerPut(c)) /\ WF_vars(ServerDelete(c))
        /\ WF_vars(ServerChecks(c)) /\ WF_vars(ServerRefuses(c)) /\ WF_vars(ServerSaves(c))

FairSpec == Spec /\ Fairness

-----------------------------------------------------------------------------
(* Properties.                                                             *)

Released(text) == \E r \in revisions : r.text = text

\* What a step takes off the page stays in its history, forced saves,
\* overlapping saves and restores included ("Their version stays in the page
\* history either way", help-content.en.tsx).
EveryTextStaysInHistory == [][\E r \in revisions' : r.text = page.text]_vars

\* An editor with nothing unsaved may be left without a question: what it holds
\* is in the page's history, also when the user typed on while the save was under
\* way, or when the save found its text there and wrote none over another's.
WhatLooksSavedIsInHistory ==
    \A t \in Tabs :
        editor[t].open /\ ~Dirty(editor[t]) => Released(editor[t].text)

\* Somewhere outside the editor the text of tab t is kept.
Stored(t) ==
    LET text == editor[t].text IN
    local[UserOf[t]] = text \/ drafts[UserOf[t]] = text \/ Released(text)

\* The step executes, or handles the answer to, a discard, or a save or a draft
\* of another text, that tab t's user sent from any tab.
WorksOffOlderRequest(t) ==
    \E c \in Conns :
        /\ User(c) = UserOf[t]
        /\ \/ saving'[c] # saving[c] /\ saving[c].text # editor[t].text
           \/ putting'[c] # putting[c] /\ putting[c].text # editor[t].text
           \/ deleting'[c] # deleting[c]

\* In another tab of the user, which shares the local draft, a new text is typed.
AnotherTabTypes(t) ==
    \E d \in Tabs \ {t} : UserOf[d] = UserOf[t] /\ typed' # typed /\ editor'[d].text = typed'

\* The last copy of an unsaved text that its user has not discarded goes only
\* by such a step: never by a refused or failed save of that text, by opening,
\* refreshing, reloading or reading a draft back, or by anything of another user.
CopyLostOnlyByOlderRequest ==
    [][\A t \in Tabs :
        (/\ Dirty(editor[t]) /\ Stored(t) /\ t \notin discarded
         /\ Dirty(editor'[t]) /\ editor'[t].text = editor[t].text
         /\ ~Stored(t)')
        => WorksOffOlderRequest(t) \/ AnotherTabTypes(t)]_vars

\* With auto-save on, the draft row follows the editor: whatever was in flight
\* or lost, it comes to hold the text as it stands then.
DraftCatchesUp ==
    \A t \in Tabs :
        []<>(\/ ~Dirty(editor[t]) \/ ~editor[t].autosave
             \/ drafts[UserOf[t]] = editor[t].text)

\* A save is always answered, refused or reported as failed: the buttons it
\* disables come back.
SavesEnd == \A t \in Tabs : saving[Live(t)].phase # "none" ~> saving[Live(t)].phase = "none"

=============================================================================
