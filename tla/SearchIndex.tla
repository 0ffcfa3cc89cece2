---------------------------- MODULE SearchIndex ----------------------------
(***************************************************************************)
(* The semantic index: passages (`page_chunks`) of pages and of the files  *)
(* attached to them, kept in step by two polling passes of the worker      *)
(*   - index_search_pages embeds pages whose updated_at is not the one     *)
(*     recorded in page_search_state,                                      *)
(*   - extract_attachment_texts reads files whose signature is not the one *)
(*     recorded in attachment_texts,                                       *)
(* while users edit pages and replace files and an administrator pauses    *)
(* indexing or changes the embedding model.  A Redis key with a time to    *)
(* live keeps passes of one kind apart.  Every step is one transaction or  *)
(* one call to storage, Redis or the embedding gateway.                    *)
(*                                                                         *)
(* A page's content is identified with its updated_at, a file's content    *)
(* with the number of the put that stored it; 0 stands for "none".         *)
(* Replacements keep a file's name and size, so that office_revision alone *)
(* tells its versions apart in the signature.                              *)
(*                                                                         *)
(* Sources: app/modules/search/indexer.py, app/modules/attachments/text.py,*)
(* app/workers/tasks.py (the two passes), app/api/v1/attachments.py        *)
(* (save_attachment_from_office, replace_attachment).                      *)
(***************************************************************************)
EXTENDS Naturals, FiniteSets

CONSTANTS
    Pages,
    Files,           \* attached, readable files
    PageOf,          \* the page each file is attached to
    Refused,         \* pages whose first content the gateway refuses for good:
                     \* the newest at first, the order worst for the others
    Models,          \* embedding models an administrator may choose
    FirstModel,
    Passes,          \* executions of index_search_pages
    Readers,         \* executions of extract_attachment_texts
    Writers,         \* requests replacing a file
    NoOne,           \* a free lock's holder
    BatchSize,       \* tuning.index_batch
    RefusalsBeforePause,
    Bounds           \* bound: how often each event may happen, one choice of
                     \* numbers per kind of behaviour that is looked at

Events == {"edit", "replace", "model", "pause", "fault", "lapse"}

ASSUME PageOfAssumption == PageOf \in [Files -> Pages]
ASSUME RefusedAssumption == Refused \subseteq Pages
ASSUME ModelAssumption == FirstModel \in Models
ASSUME WorkersAssumption ==
    /\ IsFiniteSet(Passes) /\ IsFiniteSet(Readers)
    /\ Passes \cap Readers = {} /\ NoOne \notin Passes \cup Readers
ASSUME BoundsAssumption ==
    /\ BatchSize \in Nat \ {0} /\ RefusalsBeforePause \in Nat \ {0}
    /\ Bounds \subseteq [Events -> Nat]

VARIABLES
    clock,     \* the last updated_at given out
    page,      \* updated_at of each page
    linked,    \* files the content of their page links to
    blob,      \* the content of each file in the object store
    revision,  \* office_revision of each file's row
    writer,    \* the requests replacing a file
    saved,     \* history: the content stored by each file's last finished replacement
    clashed,   \* history: files two replacements gave the same revision
    texts,     \* attachment_texts: what was read from each file, for which revision
    state,     \* page_search_state
    chunks,    \* page_chunks of each page, its files' passages included
    model,     \* the configured embedding model
    paused,    \* AiEmbeddingSettings.indexing_paused
    lock,      \* who holds each pass lock in Redis
    late,      \* passes whose time budget is spent
    pass,      \* the indexing passes
    reader,    \* the extraction passes
    left,      \* bound: how often each event may still happen
    lapses,    \* locks lost by a live pass so far
    lapsed     \* history: the live passes that lost their lock to its time to live

contentVars == <<clock, page, linked, blob, revision, writer, saved, clashed>>
indexVars == <<texts, state, chunks>>
adminVars == <<model, paused>>
workerVars == <<lock, late, lapsed, pass, reader>>
boundVars == <<left, lapses>>
vars == <<clock, page, linked, blob, revision, writer, saved, clashed,
          texts, state, chunks, model, paused, lock, late, lapsed,
          pass, reader, left, lapses>>

-----------------------------------------------------------------------------
(* Data.                                                                   *)

FilesOf(p) == {f \in Files : PageOf[f] = p}

NoText == [revision |-> 0, content |-> 0]
Text == [revision : Nat, content : Nat]

Kinds == {"none", "indexed", "skipped"}
NoState == [kind |-> "none", updated |-> 0, model |-> FirstModel]
State == [kind : Kinds, updated : Nat, model : Models]

NoPassages == [f \in Files |-> 0]
NoChunks == [updated |-> 0, model |-> FirstModel, files |-> NoPassages]
Chunks == [updated : Nat, model : Models, files : [Files -> Nat]]

Item == [page : Pages, updated : Nat]

IdlePass == [at |-> "idle", model |-> FirstModel, batch |-> {}, item |-> {},
             passages |-> NoPassages, refused |-> {}, done |-> FALSE, worked |-> FALSE]
Pass == [at : {"idle", "starting", "resetting", "selecting", "next", "embedding",
               "storing", "closing"},
         model : Models, batch : SUBSET Item, item : SUBSET Item,
         passages : [Files -> Nat], refused : SUBSET Item,
         done : BOOLEAN, worked : BOOLEAN]

Job == [file : Files, revision : Nat]

IdleReader == [at |-> "idle", batch |-> {}, item |-> {}, content |-> 0,
               done |-> FALSE, worked |-> FALSE]
Reader == [at : {"idle", "starting", "forgetting", "selecting", "next", "reading", "saving"},
           batch : SUBSET Job, item : SUBSET Job, content : Nat,
           done : BOOLEAN, worked : BOOLEAN]

IdleWriter == [at |-> "idle", file |-> {}, revision |-> 0, content |-> 0]
Writer == [at : {"idle", "loaded", "put"}, file : SUBSET Files, revision : Nat, content : Nat]

\* EmbeddingError.permanent: retrying the same input cannot help.
Refuses(p, updated) == p \in Refused /\ updated <= 2

\* _stale_pages' up_to_date: recorded for this updated_at and this model.
UpToDate(p, m) ==
    /\ state[p].kind # "none"
    /\ state[p].updated = page[p]
    /\ state[p].model = m

\* text.py's `current`: the recorded signature is the row's.
TextIsCurrent(f) == texts[f].revision = revision[f]

Indexing == {x \in Passes : pass[x].at # "idle"}
Reading == {r \in Readers : reader[r].at # "idle"}

-----------------------------------------------------------------------------
Init ==
    /\ clock = 2
    /\ page = [p \in Pages |-> IF p \in Refused THEN 2 ELSE 1]
    /\ linked = Files
    /\ blob = [f \in Files |-> 1]
    /\ revision = [f \in Files |-> 1]
    /\ writer = [w \in Writers |-> IdleWriter]
    /\ saved = [f \in Files |-> 1]
    /\ clashed = {}
    /\ texts = [f \in Files |-> NoText]
    /\ state = [p \in Pages |-> NoState]
    /\ chunks = [p \in Pages |-> NoChunks]
    /\ model = FirstModel
    /\ paused = FALSE
    /\ lock = [k \in {"index", "text"} |-> NoOne]
    /\ late = {}
    /\ pass = [x \in Passes |-> IdlePass]
    /\ reader = [r \in Readers |-> IdleReader]
    /\ left \in Bounds
    /\ lapses = 0
    /\ lapsed = {}

-----------------------------------------------------------------------------
(* Users and administrators.                                               *)

Spend(e) ==
    /\ left[e] > 0
    /\ left' = [left EXCEPT ![e] = @ - 1]

\* Any write of a page moves its updated_at; the new content links to the
\* files in ls.
Edit(p, ls) ==
    /\ Spend("edit")
    /\ clock' = clock + 1
    /\ page' = [page EXCEPT ![p] = clock + 1]
    /\ linked' = (linked \ FilesOf(p)) \cup ls
    /\ UNCHANGED <<blob, revision, writer, saved, clashed,
                   indexVars, adminVars, workerVars, lapses>>

WriterUnchanged == UNCHANGED <<clock, page, linked, indexVars, adminVars, workerVars, lapses>>

\* save_attachment_from_office, replace_attachment: the row is read, the
\* content put under the same key, the row written from what was read.
LoadFile(w, f) ==
    /\ writer[w].at = "idle"
    /\ Spend("replace")
    /\ writer' = [writer EXCEPT ![w] = [at |-> "loaded", file |-> {f},
                                       revision |-> revision[f], content |-> 0]]
    /\ UNCHANGED <<blob, revision, saved, clashed>> /\ WriterUnchanged

PutFile(w) ==
    /\ writer[w].at = "loaded"
    /\ \E f \in writer[w].file :
        /\ blob' = [blob EXCEPT ![f] = @ + 1]
        /\ writer' = [writer EXCEPT ![w].at = "put", ![w].content = blob[f] + 1]
    /\ UNCHANGED <<left, revision, saved, clashed>> /\ WriterUnchanged

\* The row is written with the revision that was read and one: the one it has
\* if another replacement was written meanwhile.
CommitFile(w) ==
    /\ writer[w].at = "put"
    /\ \E f \in writer[w].file :
        /\ revision' = [revision EXCEPT ![f] = writer[w].revision + 1]
        /\ saved' = [saved EXCEPT ![f] = writer[w].content]
        /\ clashed' = IF revision[f] = writer[w].revision THEN clashed ELSE clashed \cup {f}
    /\ writer' = [writer EXCEPT ![w] = IdleWriter]
    /\ UNCHANGED <<left, blob>> /\ WriterUnchanged

\* The request is refused or fails before its put: nothing has changed.
GiveUpFile(w) ==
    /\ writer[w].at = "loaded"
    /\ writer' = [writer EXCEPT ![w] = IdleWriter]
    /\ UNCHANGED <<left, blob, revision, saved, clashed>> /\ WriterUnchanged

\* The request fails or its process dies between the put and the commit: the
\* content stays, under the revision of the content it replaced.
FailFile(w) ==
    /\ writer[w].at = "put"
    /\ writer' = [writer EXCEPT ![w] = IdleWriter]
    /\ UNCHANGED <<left, blob, revision, saved, clashed>> /\ WriterUnchanged

ChangeModel(m) ==
    /\ Spend("model")
    /\ m # model
    /\ model' = m
    /\ UNCHANGED <<contentVars, indexVars, paused, workerVars, lapses>>

\* set_indexing_paused.
SetPaused ==
    /\ IF paused THEN UNCHANGED left ELSE Spend("pause")
    /\ paused' = ~paused
    /\ UNCHANGED <<contentVars, indexVars, model, workerVars, lapses>>

-----------------------------------------------------------------------------
(* Pass locks.                                                             *)

\* redis.set(..., nx=True, ex=...).
Take(k, a) ==
    /\ lock[k] = NoOne
    /\ lock' = [lock EXCEPT ![k] = a]

\* Wrong: a plain DEL, whoever holds the key.
ReleaseAnyway(k, a) == lock' = [lock EXCEPT ![k] = NoOne]

\* _RELEASE_IF_OWNER, in the `finally` of every pass.
Release(k, a) == lock' = [lock EXCEPT ![k] = IF @ = a THEN NoOne ELSE @]

\* Wrong: the deadline outlives the pass it was set for.
EndPassStillLate(x) ==
    /\ Release("index", x)
    /\ pass' = [pass EXCEPT ![x] = IdlePass]
    /\ lapsed' = lapsed \ {x}
    /\ UNCHANGED late

EndPass(x) ==
    /\ Release("index", x)
    /\ pass' = [pass EXCEPT ![x] = IdlePass]
    /\ late' = late \ {x}
    /\ lapsed' = lapsed \ {x}

EndReader(r) ==
    /\ Release("text", r)
    /\ reader' = [reader EXCEPT ![r] = IdleReader]
    /\ late' = late \ {r}
    /\ lapsed' = lapsed \ {r}

\* The key outlives a holder that died by its time to live.
Expire(k) ==
    /\ lock[k] \in (Passes \cup Readers) \ (Indexing \cup Reading)
    /\ lock' = [lock EXCEPT ![k] = NoOne]
    /\ UNCHANGED <<contentVars, indexVars, adminVars, late, lapsed, pass, reader, boundVars>>

\* A live holder's renewals did not come in time.
Lapse(k) ==
    /\ Spend("lapse")
    /\ lock[k] \in Indexing \cup Reading
    /\ lock' = [lock EXCEPT ![k] = NoOne]
    /\ lapses' = lapses + 1
    /\ lapsed' = lapsed \cup {lock[k]}
    /\ UNCHANGED <<contentVars, indexVars, adminVars, late, pass, reader>>

\* The time budget of a pass turns out to be spent where the pass looks at it:
\* before its first batch, before every page or file and after every batch.
TimeUp(a) ==
    /\ a \notin late
    /\ \/ a \in Passes /\ pass[a].at \in {"starting", "next", "closing"}
       \/ a \in Readers /\ reader[a].at = "next"
    /\ late' = late \cup {a}
    /\ UNCHANGED <<contentVars, indexVars, adminVars, lock, lapsed, pass, reader, boundVars>>

WorkerDies ==
    /\ Spend("fault")
    /\ Indexing \cup Reading # {}
    /\ pass' = [x \in Passes |-> IdlePass]
    /\ reader' = [r \in Readers |-> IdleReader]
    /\ late' = {}
    /\ lapsed' = {}
    /\ UNCHANGED <<contentVars, indexVars, adminVars, lock, lapses>>

-----------------------------------------------------------------------------
(* index_search_pages.                                                     *)

PassUnchanged == UNCHANGED <<contentVars, adminVars, reader, boundVars>>

BeginPass(x) ==
    /\ pass[x].at = "idle"
    /\ Take("index", x)
    /\ pass' = [pass EXCEPT ![x].at = "starting"]
    /\ UNCHANGED <<indexVars, late, lapsed>> /\ PassUnchanged

\* Indexing is paused, or there is no time left for a first batch.
SkipPass(x) ==
    /\ pass[x].at = "starting"
    /\ paused \/ x \in late
    /\ EndPass(x)
    /\ UNCHANGED indexVars /\ PassUnchanged

\* load_config: once per pass, whatever is configured later.
LoadConfig(x) ==
    /\ pass[x].at = "starting"
    /\ ~paused /\ x \notin late
    /\ pass' = [pass EXCEPT ![x].at = "resetting", ![x].model = model]
    /\ UNCHANGED <<indexVars, lock, late, lapsed>> /\ PassUnchanged

\* Wrong: only the records are dropped, the vectors stay.
ResetStateOnly(x) ==
    /\ pass[x].at = "resetting"
    /\ state' = [p \in Pages |-> IF state[p].model = pass[x].model THEN state[p] ELSE NoState]
    /\ pass' = [pass EXCEPT ![x].at = "selecting"]
    /\ UNCHANGED <<texts, chunks, lock, late, lapsed>> /\ PassUnchanged

ResetIfModelChanged(x) ==
    LET changed == \E p \in Pages : state[p].kind # "none" /\ state[p].model # pass[x].model
    IN  /\ pass[x].at = "resetting"
        /\ chunks' = IF changed THEN [p \in Pages |-> NoChunks] ELSE chunks
        /\ state' = IF changed THEN [p \in Pages |-> NoState] ELSE state
        /\ pass' = [pass EXCEPT ![x].at = "selecting"]
        /\ UNCHANGED <<texts, lock, late, lapsed>> /\ PassUnchanged

StalePages(m) == {p \in Pages : ~UpToDate(p, m)}

\* The newest stale pages, with the updated_at they are read with.
SelectBatch(x) ==
    /\ pass[x].at = "selecting"
    /\ \E ps \in SUBSET StalePages(pass[x].model) :
        /\ ps # {}
        /\ Cardinality(ps) <= BatchSize
        /\ Cardinality(ps) = BatchSize \/ ps = StalePages(pass[x].model)
        /\ \A p \in ps, q \in StalePages(pass[x].model) \ ps : page[p] >= page[q]
        /\ pass' = [pass EXCEPT ![x].at = "next", ![x].refused = {}, ![x].done = FALSE,
                        ![x].batch = {[page |-> p, updated |-> page[p]] : p \in ps}]
    /\ UNCHANGED <<indexVars, lock, late, lapsed>> /\ PassUnchanged

NothingStale(x) ==
    /\ pass[x].at = "selecting"
    /\ StalePages(pass[x].model) = {}
    /\ EndPass(x)
    /\ UNCHANGED indexVars /\ PassUnchanged

\* Before every page: is there time, is indexing paused?  Then the passages
\* of the page's files are read, whatever the page links to.
NextPage(x) ==
    /\ pass[x].at = "next"
    /\ x \notin late /\ ~paused
    /\ \E i \in pass[x].batch :
        /\ \A j \in pass[x].batch : i.updated >= j.updated
        /\ pass' = [pass EXCEPT ![x].at = "embedding", ![x].item = {i}, ![x].batch = @ \ {i},
                        ![x].passages = [f \in Files |-> IF PageOf[f] = i.page
                                                         THEN texts[f].content ELSE 0]]
    /\ UNCHANGED <<indexVars, lock, late, lapsed>> /\ PassUnchanged

CloseBatch(x) ==
    /\ pass[x].at = "next"
    /\ pass[x].batch = {} \/ x \in late \/ paused
    /\ pass' = [pass EXCEPT ![x].at = "closing", ![x].batch = {}]
    /\ UNCHANGED <<indexVars, lock, late, lapsed>> /\ PassUnchanged

Embedded(x) ==
    /\ pass[x].at = "embedding"
    /\ \A i \in pass[x].item : ~Refuses(i.page, i.updated)
    /\ pass' = [pass EXCEPT ![x].at = "storing"]
    /\ UNCHANGED <<indexVars, lock, late, lapsed>> /\ PassUnchanged

\* Wrong: the first refusal ends the pass.
EmbedRefusedStops(x) ==
    /\ pass[x].at = "embedding"
    /\ \E i \in pass[x].item : Refuses(i.page, i.updated)
    /\ pass' = [pass EXCEPT ![x].item = {}, ![x].passages = NoPassages, ![x].at = "closing"]
    /\ UNCHANGED <<indexVars, lock, late, lapsed>> /\ PassUnchanged

\* A permanent EmbeddingError: the next page, unless nothing has gone through
\* and this is one refusal too many.
EmbedRefused(x) ==
    LET refused == pass[x].refused \cup pass[x].item
    IN  /\ pass[x].at = "embedding"
        /\ \E i \in pass[x].item : Refuses(i.page, i.updated)
        /\ pass' = [pass EXCEPT ![x].refused = refused, ![x].item = {},
                        ![x].passages = NoPassages,
                        ![x].at = IF ~pass[x].done /\ Cardinality(refused) >= RefusalsBeforePause
                                  THEN "closing" ELSE "next"]
        /\ UNCHANGED <<indexVars, lock, late, lapsed>> /\ PassUnchanged

\* A transient EmbeddingError: the gateway is busy or gone.
EmbedFails(x) ==
    /\ Spend("fault")
    /\ pass[x].at = "embedding"
    /\ pass' = [pass EXCEPT ![x].at = "closing", ![x].batch = {}, ![x].item = {},
                            ![x].passages = NoPassages]
    /\ UNCHANGED <<contentVars, indexVars, adminVars, lock, late, lapsed, reader, lapses>>

\* Wrong: the record names the page's updated_at at the time of the commit.
StoreAsOfNow(x, i, kind, files) ==
    /\ chunks' = [chunks EXCEPT ![i.page] =
                    IF kind = "indexed"
                    THEN [updated |-> i.updated, model |-> pass[x].model, files |-> files]
                    ELSE NoChunks]
    /\ state' = [state EXCEPT ![i.page] =
                    [kind |-> kind, updated |-> page[i.page], model |-> pass[x].model]]
    /\ UNCHANGED texts

\* _store: the page's passages and its record are replaced in one transaction.
StoreAs(x, i, kind, files) ==
    /\ chunks' = [chunks EXCEPT ![i.page] =
                    IF kind = "indexed"
                    THEN [updated |-> i.updated, model |-> pass[x].model, files |-> files]
                    ELSE NoChunks]
    /\ state' = [state EXCEPT ![i.page] =
                    [kind |-> kind, updated |-> i.updated, model |-> pass[x].model]]
    /\ UNCHANGED texts

StorePage(x) ==
    /\ pass[x].at = "storing"
    /\ \E i \in pass[x].item : StoreAs(x, i, "indexed", pass[x].passages)
    /\ pass' = [pass EXCEPT ![x].at = "next", ![x].done = TRUE, ![x].worked = TRUE,
                            ![x].item = {}, ![x].passages = NoPassages]
    /\ UNCHANGED <<lock, late, lapsed>> /\ PassUnchanged

\* Another pass stores the same page: (page_id, chunk_idx) is unique.
StoreFails(x) ==
    /\ pass[x].at = "storing"
    /\ \E y \in Passes \ {x} :
        /\ pass[y].at = "storing"
        /\ \E i \in pass[x].item, j \in pass[y].item : i.page = j.page
    /\ pass' = [pass EXCEPT ![x].at = "next", ![x].item = {}, ![x].passages = NoPassages]
    /\ UNCHANGED <<indexVars, lock, late, lapsed>> /\ PassUnchanged

\* Others went through: a refused page is recorded so that it does not block
\* the queue.
SkipRefused(x) ==
    /\ pass[x].at = "closing"
    /\ pass[x].done
    /\ \E i \in pass[x].refused :
        /\ StoreAs(x, i, "skipped", NoPassages)
        /\ pass' = [pass EXCEPT ![x].refused = @ \ {i}]
    /\ UNCHANGED <<lock, late, lapsed>> /\ PassUnchanged

\* A batch that indexed something is followed by another, time permitting.
NextBatch(x) ==
    /\ pass[x].at = "closing"
    /\ pass[x].done /\ pass[x].refused = {} /\ x \notin late
    /\ pass' = [pass EXCEPT ![x].at = "resetting", ![x].done = FALSE]
    /\ UNCHANGED <<indexVars, lock, late, lapsed>> /\ PassUnchanged

FinishPass(x) ==
    /\ pass[x].at = "closing"
    /\ ~pass[x].done \/ (pass[x].refused = {} /\ x \in late)
    /\ EndPass(x)
    /\ UNCHANGED indexVars /\ PassUnchanged

\* An exception nobody catches: the `finally` releases the lock.
PassCrashes(x) ==
    /\ Spend("fault")
    /\ x \in Indexing
    /\ EndPass(x)
    /\ UNCHANGED <<contentVars, indexVars, adminVars, reader, lapses>>

-----------------------------------------------------------------------------
(* extract_attachment_texts.                                               *)

ReaderUnchanged == UNCHANGED <<contentVars, adminVars, pass, boundVars>>

BeginReader(r) ==
    /\ reader[r].at = "idle"
    /\ Take("text", r)
    /\ reader' = [reader EXCEPT ![r].at = "starting"]
    /\ UNCHANGED <<indexVars, late, lapsed>> /\ ReaderUnchanged

StartReader(r) ==
    /\ reader[r].at = "starting"
    /\ IF paused THEN EndReader(r)
                 ELSE /\ reader' = [reader EXCEPT ![r].at = "forgetting"]
                      /\ UNCHANGED <<lock, late, lapsed>>
    /\ UNCHANGED indexVars /\ ReaderUnchanged

\* _forget_passages: the passages of these files go, and with them the record
\* of every page that had such passages or a reading of such a file.
ForgetPassages(fs) ==
    LET known == {f \in fs : chunks[PageOf[f]].files[f] # 0 \/ texts[f] # NoText}
    IN  /\ chunks' = [p \in Pages |-> [chunks[p] EXCEPT !.files =
                         [f \in Files |-> IF f \in fs THEN 0 ELSE chunks[p].files[f]]]]
        /\ state' = [p \in Pages |-> IF \E f \in known : PageOf[f] = p THEN NoState
                                                                       ELSE state[p]]

ForgetUnlinked(r) ==
    LET gone == {f \in Files : texts[f] # NoText /\ f \notin linked}
    IN  /\ reader[r].at = "forgetting"
        /\ ForgetPassages(gone)
        /\ texts' = [f \in Files |-> IF f \in gone THEN NoText ELSE texts[f]]
        /\ reader' = [reader EXCEPT ![r].at = "selecting"]
        /\ UNCHANGED <<lock, late, lapsed>> /\ ReaderUnchanged

\* Wrong: the recorded signature is joined in, which a file never read lacks.
PendingOnceRead == {f \in linked : texts[f] # NoText /\ ~TextIsCurrent(f)}

\* _pending, with the revision each file is read for.
Pending == {f \in linked : ~TextIsCurrent(f)}

SelectFiles(r) ==
    /\ reader[r].at = "selecting"
    /\ reader' = [reader EXCEPT ![r].at = "next", ![r].done = FALSE,
                    ![r].batch = {[file |-> f, revision |-> revision[f]] : f \in Pending}]
    /\ UNCHANGED <<indexVars, lock, late, lapsed>> /\ ReaderUnchanged

NextFile(r) ==
    /\ reader[r].at = "next"
    /\ r \notin late /\ ~paused
    /\ \E j \in reader[r].batch :
        reader' = [reader EXCEPT ![r].at = "reading", ![r].item = {j}, ![r].batch = @ \ {j}]
    /\ UNCHANGED <<indexVars, lock, late, lapsed>> /\ ReaderUnchanged

\* download_to_file, read_file.
ReadFile(r) ==
    /\ reader[r].at = "reading"
    /\ \E j \in reader[r].item :
        reader' = [reader EXCEPT ![r].at = "saving", ![r].content = blob[j.file]]
    /\ UNCHANGED <<indexVars, lock, late, lapsed>> /\ ReaderUnchanged

\* The blob cannot be fetched or read: that is recorded as this file's reading.
ReadFails(r) ==
    /\ Spend("fault")
    /\ reader[r].at = "reading"
    /\ reader' = [reader EXCEPT ![r].at = "saving", ![r].content = 0]
    /\ UNCHANGED <<contentVars, indexVars, adminVars, lock, late, lapsed, pass, lapses>>

\* Wrong: the reading is recorded for the revision the row has by now.
SaveTextAsOfNow(r) ==
    /\ reader[r].at = "saving"
    /\ \E j \in reader[r].item :
        /\ ForgetPassages({j.file})
        /\ texts' = [texts EXCEPT ![j.file] =
                        [revision |-> revision[j.file], content |-> reader[r].content]]
    /\ reader' = [reader EXCEPT ![r].at = "next", ![r].item = {}, ![r].content = 0,
                                ![r].done = TRUE, ![r].worked = TRUE]
    /\ UNCHANGED <<lock, late, lapsed>> /\ ReaderUnchanged

\* _save: the old passages go and the reading is recorded, in one transaction.
SaveText(r) ==
    /\ reader[r].at = "saving"
    /\ \E j \in reader[r].item :
        /\ ForgetPassages({j.file})
        /\ texts' = [texts EXCEPT ![j.file] =
                        [revision |-> j.revision, content |-> reader[r].content]]
    /\ reader' = [reader EXCEPT ![r].at = "next", ![r].item = {}, ![r].content = 0,
                                ![r].done = TRUE, ![r].worked = TRUE]
    /\ UNCHANGED <<lock, late, lapsed>> /\ ReaderUnchanged

\* The batch is over: another one if a file was read and there is time.
CloseFiles(r) ==
    /\ reader[r].at = "next"
    /\ reader[r].batch = {} \/ r \in late \/ paused
    /\ IF reader[r].done /\ r \notin late
       THEN /\ reader' = [reader EXCEPT ![r].at = "forgetting", ![r].batch = {}, ![r].done = FALSE]
            /\ UNCHANGED <<lock, late, lapsed>>
       ELSE EndReader(r)
    /\ UNCHANGED indexVars /\ ReaderUnchanged

\* An exception nobody catches: the `finally` releases the lock.
ReaderCrashes(r) ==
    /\ Spend("fault")
    /\ r \in Reading
    /\ EndReader(r)
    /\ UNCHANGED <<contentVars, indexVars, adminVars, pass, lapses>>

-----------------------------------------------------------------------------
PassStep(x) ==
    \/ BeginPass(x) \/ SkipPass(x) \/ LoadConfig(x) \/ ResetIfModelChanged(x)
    \/ SelectBatch(x) \/ NothingStale(x) \/ NextPage(x) \/ CloseBatch(x)
    \/ Embedded(x) \/ EmbedRefused(x) \/ StorePage(x) \/ StoreFails(x)
    \/ SkipRefused(x) \/ NextBatch(x) \/ FinishPass(x)

ReaderStep(r) ==
    \/ BeginReader(r) \/ StartReader(r) \/ ForgetUnlinked(r) \/ SelectFiles(r)
    \/ NextFile(r) \/ ReadFile(r) \/ SaveText(r) \/ CloseFiles(r)

WriterStep(w) == PutFile(w) \/ CommitFile(w)

Next ==
    \/ \E p \in Pages : \E ls \in SUBSET FilesOf(p) : Edit(p, ls)
    \/ \E w \in Writers : \E f \in Files : LoadFile(w, f)
    \/ \E w \in Writers : WriterStep(w) \/ GiveUpFile(w) \/ FailFile(w)
    \/ \E m \in Models : ChangeModel(m)
    \/ SetPaused
    \/ \E k \in {"index", "text"} : Expire(k) \/ Lapse(k)
    \/ \E a \in Passes \cup Readers : TimeUp(a)
    \/ WorkerDies
    \/ \E x \in Passes : PassStep(x) \/ EmbedFails(x) \/ PassCrashes(x)
    \/ \E r \in Readers : ReaderStep(r) \/ ReadFails(r) \/ ReaderCrashes(r)

Spec == Init /\ [][Next]_vars

\* The event loop runs every pass on, arq's cron starts passes every minute,
\* keys expire, and an indexing pass that goes on working is out of time sooner
\* or later.  Users, requests and administrators may stop at any moment, and no
\* failure has to happen.
Fairness ==
    /\ \A x \in Passes : WF_vars(PassStep(x)) /\ SF_vars(pass[x].worked /\ TimeUp(x))
    /\ \A r \in Readers : WF_vars(ReaderStep(r))
    /\ \A k \in {"index", "text"} : WF_vars(Expire(k))

FairSpec == Spec /\ Fairness
-----------------------------------------------------------------------------
(* Properties.                                                             *)

\* Types of the state.
TypeOK ==
    /\ clock \in Nat /\ page \in [Pages -> Nat] /\ linked \in SUBSET Files
    /\ blob \in [Files -> Nat] /\ revision \in [Files -> Nat]
    /\ writer \in [Writers -> Writer] /\ saved \in [Files -> Nat] /\ clashed \in SUBSET Files
    /\ texts \in [Files -> Text] /\ state \in [Pages -> State] /\ chunks \in [Pages -> Chunks]
    /\ model \in Models /\ paused \in BOOLEAN
    /\ lock \in [{"index", "text"} -> Passes \cup Readers \cup {NoOne}]
    /\ late \in SUBSET (Indexing \cup Reading) /\ lapsed \in SUBSET (Indexing \cup Reading)
    /\ pass \in [Passes -> Pass] /\ reader \in [Readers -> Reader]
    /\ left \in [Events -> Nat] /\ lapses \in Nat

\* A page counted as indexed holds passages of exactly the content and the
\* model its record names, so that a page edited while it was embedded stays
\* stale: indexer.py, index_pending (the updated_at is read with the content
\* and stored with the passages, in one transaction).
IndexedIsWhatTheRecordSays ==
    \A p \in Pages : state[p].kind = "indexed" =>
        /\ chunks[p].updated = state[p].updated
        /\ chunks[p].model = state[p].model

\* Vectors of two embedding models stand side by side, where a search would
\* compare them, only while a page is without its record because passages of one
\* of its files were dropped (text.py, _forget_passages): then a reset can miss
\* it, and it stays in the queue.  As long as no lock has lapsed nothing else
\* mixes models: indexer.py, reset_if_model_changed.
VectorsOfOneModel ==
    lapses = 0 => \A p, q \in Pages :
        /\ chunks[p].updated # 0 /\ chunks[q].updated # 0
        /\ chunks[p].model # chunks[q].model
        => \E r \in {p, q} : state[r].kind = "none" /\ FilesOf(r) # {}

\* What was read for the revision a file has is never older than the content
\* its last finished replacement stored, though replacements are interrupted
\* and overlap with readings, unless two replacements gave the file one
\* revision: text.py, signature ("a renamed, replaced or re-edited file is read
\* again"), against attachments.py, where the content is put before the
\* revision is raised.
TextIsOfSignature ==
    \A f \in Files \ clashed :
        TextIsCurrent(f) /\ texts[f].content # 0 => texts[f].content >= saved[f]

\* A pass runs without its lock only if the lock's time to live ran out under
\* it: a pass that lost its lock never frees the lock of the next one, so an
\* overlap ends with the pass that caused it (tasks.py, _RELEASE_IF_OWNER).
UnlockedOnlyByLapse ==
    /\ \A x \in Indexing : lock["index"] = x \/ x \in lapsed
    /\ \A r \in Reading : lock["text"] = r \/ r \in lapsed

\* No pass that has its way to go is out of time before it has stored or read
\* anything: the 50 seconds of a pass suffice for its first page or file.
BudgetSuffices ==
    /\ \A x \in Passes \cap late : pass[x].at \in {"starting", "next"} => pass[x].worked
    /\ \A r \in Readers \cap late : reader[r].worked

\* Once edits, pauses and passes that run out of time over their first page end,
\* every page the gateway accepts is indexed as it stands and for the configured
\* model, and stays so, whatever a crashed worker, a gateway outage or a lapsed
\* lock left behind: indexer.py, "a crash or a gateway outage simply leaves pages
\* stale until the next pass".
IndexCatchesUp ==
    <>[]~paused /\ <>[]BudgetSuffices =>
        <>[](\A p \in Pages : ~Refuses(p, page[p]) => UpToDate(p, model))

\* Likewise every linked file ends up read for the revision it has, and what
\* was read from a file its page no longer links to is forgotten: text.py,
\* extract_pending and forget_unlinked.
TextsCatchUp ==
    <>[]~paused /\ <>[]BudgetSuffices =>
        <>[](\A f \in Files : IF f \in linked THEN TextIsCurrent(f) ELSE texts[f] = NoText)
=============================================================================
