------------------------- MODULE SearchIndex_proofs -------------------------
(***************************************************************************)
(* Theorems about SearchIndex, for any pages, files, passes and bounds:    *)
(* type correctness, what a page's record promises, who may run without a  *)
(* lock, where vectors of two models may meet, that no edit is missed, and *)
(* that a reading recorded for the revision of a file is no older than the *)
(* content the last finished replacement stored.                           *)
(***************************************************************************)
EXTENDS SearchIndex, TLAPS

-----------------------------------------------------------------------------
(* Types.                                                                  *)

\* TypeOK without what relates late and lapsed to the running passes.
Typed ==
    /\ clock \in Nat /\ page \in [Pages -> Nat] /\ linked \in SUBSET Files
    /\ blob \in [Files -> Nat] /\ revision \in [Files -> Nat]
    /\ writer \in [Writers -> Writer] /\ saved \in [Files -> Nat] /\ clashed \in SUBSET Files
    /\ texts \in [Files -> Text] /\ state \in [Pages -> State] /\ chunks \in [Pages -> Chunks]
    /\ model \in Models /\ paused \in BOOLEAN
    /\ lock \in [{"index", "text"} -> Passes \cup Readers \cup {NoOne}]
    /\ pass \in [Passes -> Pass] /\ reader \in [Readers -> Reader]
    /\ left \in [Events -> Nat] /\ lapses \in Nat

LEMMA InitTyped == Init => Typed
<1> SUFFICES ASSUME Init PROVE Typed
  OBVIOUS
<1> USE PageOfAssumption, ModelAssumption
<1>1. NoText \in Text /\ NoState \in State /\ NoChunks \in Chunks
  BY DEF NoText, Text, NoState, State, Kinds, NoChunks, Chunks, NoPassages
<1>2. IdlePass \in Pass /\ IdleReader \in Reader /\ IdleWriter \in Writer
  BY DEF IdlePass, Pass, IdleReader, Reader, IdleWriter, Writer, NoPassages
<1> QED
  BY <1>1, <1>2, BoundsAssumption DEF Init, Typed

LEMMA SpendTyped ==
    ASSUME Typed, NEW e \in Events, Spend(e)
    PROVE  left' \in [Events -> Nat]
<1>1. left[e] - 1 \in Nat
  BY DEF Typed, Spend
<1> QED
  BY <1>1 DEF Typed, Spend

LEMMA EditTyped ==
    ASSUME Typed, NEW p \in Pages, NEW ls \in SUBSET FilesOf(p), Edit(p, ls)
    PROVE  Typed'
<1>1. left' \in [Events -> Nat]
  BY SpendTyped DEF Edit, Events
<1> QED
  BY <1>1 DEF Typed, Edit, FilesOf, indexVars, adminVars, workerVars

LEMMA WriterTyped ==
    ASSUME Typed, NEW w \in Writers,
           (\E f \in Files : LoadFile(w, f)) \/ WriterStep(w) \/ GiveUpFile(w) \/ FailFile(w)
    PROVE  Typed'
<1> USE DEF WriterUnchanged, indexVars, adminVars, workerVars
<1>1. writer[w] \in Writer /\ IdleWriter \in Writer
  BY DEF Typed, IdleWriter, Writer
<1>2. CASE \E f \in Files : LoadFile(w, f)
  <2>1. PICK f \in Files : LoadFile(w, f)
    BY <1>2
  <2>2. left' \in [Events -> Nat]
    BY <2>1, SpendTyped DEF LoadFile, Events
  <2>3. [at |-> "loaded", file |-> {f}, revision |-> revision[f], content |-> 0] \in Writer
    BY DEF Typed, Writer
  <2> QED
    BY <2>1, <2>2, <2>3 DEF LoadFile, Typed
<1>3. CASE PutFile(w)
  <2>1. PICK f \in writer[w].file :
          /\ blob' = [blob EXCEPT ![f] = @ + 1]
          /\ writer' = [writer EXCEPT ![w].at = "put", ![w].content = blob[f] + 1]
    BY <1>3 DEF PutFile
  <2>2. f \in Files /\ blob[f] + 1 \in Nat
    BY <1>1 DEF Typed, Writer
  <2>3. blob' \in [Files -> Nat] /\ writer' \in [Writers -> Writer]
    BY <1>1, <2>1, <2>2 DEF Typed, Writer
  <2> QED
    BY <1>3, <2>3 DEF PutFile, Typed
<1>4. CASE CommitFile(w)
  <2>1. writer[w].revision + 1 \in Nat /\ writer[w].content \in Nat
    BY <1>1 DEF Writer
  <2>2. revision' \in [Files -> Nat] /\ saved' \in [Files -> Nat] /\ clashed' \in SUBSET Files
    BY <1>1, <1>4, <2>1 DEF CommitFile, Typed, Writer
  <2>3. writer' \in [Writers -> Writer]
    BY <1>1, <1>4 DEF CommitFile, Typed
  <2> QED
    BY <1>4, <2>2, <2>3 DEF CommitFile, Typed
<1>5. CASE GiveUpFile(w)
  BY <1>1, <1>5 DEF GiveUpFile, Typed
<1>6. CASE FailFile(w)
  BY <1>1, <1>6 DEF FailFile, Typed
<1> QED
  BY <1>2, <1>3, <1>4, <1>5, <1>6 DEF WriterStep

LEMMA AdminTyped ==
    ASSUME Typed, SetPaused \/ \E m \in Models : ChangeModel(m)
    PROVE  Typed'
<1> USE DEF contentVars, indexVars, workerVars, Events
<1>1. CASE SetPaused
  <2>1. paused' \in BOOLEAN
    BY <1>1 DEF SetPaused
  <2>2. left' \in [Events -> Nat]
    BY <1>1, SpendTyped DEF SetPaused, Typed
  <2> QED
    BY <1>1, <2>1, <2>2 DEF SetPaused, Typed
<1>2. CASE \E m \in Models : ChangeModel(m)
  <2>1. left' \in [Events -> Nat]
    BY <1>2, SpendTyped DEF ChangeModel
  <2> QED
    BY <1>2, <2>1 DEF ChangeModel, Typed
<1> QED
  BY <1>1, <1>2

\* What holds of the variables of the passes after a pass is over.
LEMMA EndTyped ==
    ASSUME Typed
    PROVE  /\ \A x \in Passes : EndPass(x) =>
                 /\ pass' \in [Passes -> Pass]
                 /\ lock' \in [{"index", "text"} -> Passes \cup Readers \cup {NoOne}]
           /\ \A r \in Readers : EndReader(r) =>
                 /\ reader' \in [Readers -> Reader]
                 /\ lock' \in [{"index", "text"} -> Passes \cup Readers \cup {NoOne}]
<1>1. IdlePass \in Pass /\ IdleReader \in Reader
  BY ModelAssumption DEF IdlePass, Pass, IdleReader, Reader, NoPassages
<1> QED
  BY <1>1 DEF Typed, EndPass, EndReader, Release

LEMMA LockTyped ==
    ASSUME Typed,
           \/ \E k \in {"index", "text"} : Expire(k) \/ Lapse(k)
           \/ \E a \in Passes \cup Readers : TimeUp(a)
           \/ WorkerDies
    PROVE  Typed'
<1> USE DEF Typed, contentVars, indexVars, adminVars, boundVars
<1>1. IdlePass \in Pass /\ IdleReader \in Reader
  BY ModelAssumption DEF IdlePass, Pass, IdleReader, Reader, NoPassages
<1>2. CASE \E k \in {"index", "text"} : Expire(k)
  BY <1>2 DEF Expire
<1>3. CASE \E k \in {"index", "text"} : Lapse(k)
  <2>1. left' \in [Events -> Nat]
    BY <1>3, SpendTyped DEF Lapse, Events
  <2> QED
    BY <1>3, <2>1 DEF Lapse
<1>4. CASE \E a \in Passes \cup Readers : TimeUp(a)
  BY <1>4 DEF TimeUp
<1>5. CASE WorkerDies
  <2>1. left' \in [Events -> Nat]
    BY <1>5, SpendTyped DEF WorkerDies, Events
  <2> QED
    BY <1>1, <1>5, <2>1 DEF WorkerDies
<1> QED
  BY <1>2, <1>3, <1>4, <1>5

LEMMA PassTyped ==
    ASSUME Typed, NEW x \in Passes, PassStep(x) \/ EmbedFails(x) \/ PassCrashes(x)
    PROVE  Typed'
<1> USE DEF Typed, contentVars, indexVars, adminVars, PassUnchanged, boundVars
<1>1. NoState \in State /\ NoChunks \in Chunks /\ NoPassages \in [Files -> Nat]
  BY ModelAssumption DEF NoState, State, Kinds, NoChunks, Chunks, NoPassages
<1>2. pass[x] \in Pass
  OBVIOUS
<1>3. CASE BeginPass(x)
  BY <1>2, <1>3 DEF BeginPass, Take, Pass
<1>4. CASE SkipPass(x) \/ NothingStale(x) \/ FinishPass(x) \/ PassCrashes(x)
  <2>1. EndPass(x)
    BY <1>4 DEF SkipPass, NothingStale, FinishPass, PassCrashes
  <2>2. left' \in [Events -> Nat]
    BY <1>4, SpendTyped DEF SkipPass, NothingStale, FinishPass, PassCrashes, Events
  <2> QED
    BY <1>4, <2>1, <2>2, EndTyped DEF SkipPass, NothingStale, FinishPass, PassCrashes
<1>5. CASE LoadConfig(x)
  BY <1>2, <1>5 DEF LoadConfig, Pass
<1>6. CASE ResetIfModelChanged(x)
  <2>1. pass' \in [Passes -> Pass]
    BY <1>2, <1>6 DEF ResetIfModelChanged, Pass
  <2>2. chunks' \in [Pages -> Chunks] /\ state' \in [Pages -> State]
    BY <1>1, <1>6 DEF ResetIfModelChanged
  <2> QED
    BY <1>6, <2>1, <2>2 DEF ResetIfModelChanged
<1>7. CASE SelectBatch(x)
  <2>1. PICK ps \in SUBSET StalePages(pass[x].model) :
          pass' = [pass EXCEPT ![x].at = "next", ![x].refused = {}, ![x].done = FALSE,
                    ![x].batch = {[page |-> p, updated |-> page[p]] : p \in ps}]
    BY <1>7 DEF SelectBatch
  <2>2. {[page |-> p, updated |-> page[p]] : p \in ps} \in SUBSET Item
    BY DEF StalePages, Item
  <2>3. pass' \in [Passes -> Pass]
    BY <1>2, <2>1, <2>2 DEF Pass
  <2> QED
    BY <1>7, <2>3 DEF SelectBatch
<1>8. CASE NextPage(x)
  <2>1. PICK i \in pass[x].batch :
          pass' = [pass EXCEPT ![x].at = "embedding", ![x].item = {i}, ![x].batch = @ \ {i},
                        ![x].passages = [f \in Files |-> IF PageOf[f] = i.page
                                                         THEN texts[f].content ELSE 0]]
    BY <1>8 DEF NextPage
  <2>2. [f \in Files |-> IF PageOf[f] = i.page THEN texts[f].content ELSE 0] \in [Files -> Nat]
    BY DEF Text
  <2>3. {i} \in SUBSET Item /\ pass[x].batch \ {i} \in SUBSET Item
    BY <1>2 DEF Pass
  <2>4. pass' \in [Passes -> Pass]
    BY <1>2, <2>1, <2>2, <2>3 DEF Pass
  <2> QED
    BY <1>8, <2>4 DEF NextPage
<1>9. CASE CloseBatch(x) \/ Embedded(x) \/ NextBatch(x)
  <2>1. CASE CloseBatch(x)
    BY <1>2, <2>1 DEF CloseBatch, Pass
  <2>2. CASE Embedded(x)
    BY <1>2, <2>2 DEF Embedded, Pass
  <2>3. CASE NextBatch(x)
    BY <1>2, <2>3 DEF NextBatch, Pass
  <2> QED
    BY <1>9, <2>1, <2>2, <2>3
<1>10. CASE EmbedRefused(x) \/ EmbedFails(x) \/ StoreFails(x)
  <2>1. CASE EmbedRefused(x)
    <3>1. pass[x].refused \cup pass[x].item \in SUBSET Item
      BY <1>2 DEF Pass
    <3>2. pass' \in [Passes -> Pass]
      BY <1>1, <1>2, <2>1, <3>1 DEF EmbedRefused, Pass
    <3> QED
      BY <2>1, <3>2 DEF EmbedRefused
  <2>2. CASE EmbedFails(x)
    <3>1. pass' \in [Passes -> Pass]
      BY <1>1, <1>2, <2>2 DEF EmbedFails, Pass
    <3>2. left' \in [Events -> Nat]
      BY <2>2, SpendTyped DEF EmbedFails, Events
    <3> QED
      BY <2>2, <3>1, <3>2 DEF EmbedFails
  <2>3. CASE StoreFails(x)
    <3>1. pass' \in [Passes -> Pass]
      BY <1>1, <1>2, <2>3 DEF StoreFails, Pass
    <3> QED
      BY <2>3, <3>1 DEF StoreFails
  <2> QED
    BY <1>10, <2>1, <2>2, <2>3
<1>11. ASSUME NEW i \in Item, NEW kind \in Kinds, NEW files \in [Files -> Nat],
              StoreAs(x, i, kind, files)
       PROVE  chunks' \in [Pages -> Chunks] /\ state' \in [Pages -> State]
  BY <1>1, <1>2, <1>11 DEF StoreAs, Item, Pass, Chunks, State
<1>12. CASE StorePage(x)
  <2>1. chunks' \in [Pages -> Chunks] /\ state' \in [Pages -> State] /\ UNCHANGED texts
    BY <1>2, <1>11, <1>12 DEF StorePage, StoreAs, Pass, Kinds
  <2>2. pass' \in [Passes -> Pass]
    BY <1>1, <1>2, <1>12 DEF StorePage, Pass
  <2> QED
    BY <1>12, <2>1, <2>2 DEF StorePage
<1>13. CASE SkipRefused(x)
  <2>1. chunks' \in [Pages -> Chunks] /\ state' \in [Pages -> State] /\ UNCHANGED texts
    BY <1>1, <1>2, <1>11, <1>13 DEF SkipRefused, StoreAs, Pass, Kinds
  <2>2. PICK i \in pass[x].refused : pass' = [pass EXCEPT ![x].refused = @ \ {i}]
    BY <1>13 DEF SkipRefused
  <2>3. pass[x].refused \ {i} \in SUBSET Item
    BY <1>2 DEF Pass
  <2>4. pass' \in [Passes -> Pass]
    BY <1>2, <2>2, <2>3 DEF Pass
  <2> QED
    BY <1>13, <2>1, <2>4 DEF SkipRefused
<1> QED
  BY <1>3, <1>4, <1>5, <1>6, <1>7, <1>8, <1>9, <1>10, <1>12, <1>13 DEF PassStep

LEMMA ReaderTyped ==
    ASSUME Typed, NEW r \in Readers, ReaderStep(r) \/ ReadFails(r) \/ ReaderCrashes(r)
    PROVE  Typed'
<1> USE DEF Typed, contentVars, indexVars, adminVars, ReaderUnchanged, boundVars
<1>1. NoText \in Text /\ NoState \in State
  BY ModelAssumption DEF NoText, Text, NoState, State, Kinds
<1>2. reader[r] \in Reader
  OBVIOUS
<1>3. ASSUME NEW fs \in SUBSET Files, ForgetPassages(fs)
      PROVE  chunks' \in [Pages -> Chunks] /\ state' \in [Pages -> State]
  <2>1. \A p \in Pages : [f \in Files |-> IF f \in fs THEN 0 ELSE chunks[p].files[f]]
                              \in [Files -> Nat]
    BY DEF Chunks
  <2>2. chunks' \in [Pages -> Chunks]
    BY <1>3, <2>1, ZenonT(40) DEF ForgetPassages, Chunks
  <2>3. state' \in [Pages -> State]
    BY <1>1, <1>3 DEF ForgetPassages
  <2> QED
    BY <2>2, <2>3
<1>4. CASE BeginReader(r)
  BY <1>2, <1>4 DEF BeginReader, Take, Reader
<1>5. CASE StartReader(r)
  <2>1. CASE paused
    BY <1>5, <2>1, EndTyped DEF StartReader
  <2>2. CASE ~paused
    <3>1. reader' \in [Readers -> Reader]
      BY <1>2, <1>5, <2>2 DEF StartReader, Reader
    <3> QED
      BY <1>5, <2>2, <3>1 DEF StartReader
  <2> QED
    BY <2>1, <2>2
<1>6. CASE ForgetUnlinked(r)
  <2>1. chunks' \in [Pages -> Chunks] /\ state' \in [Pages -> State]
    BY <1>3, <1>6 DEF ForgetUnlinked
  <2>2. texts' \in [Files -> Text] /\ reader' \in [Readers -> Reader]
    BY <1>1, <1>2, <1>6 DEF ForgetUnlinked, Reader
  <2> QED
    BY <1>6, <2>1, <2>2 DEF ForgetUnlinked
<1>7. CASE SelectFiles(r)
  <2>1. {[file |-> f, revision |-> revision[f]] : f \in Pending} \in SUBSET Job
    BY DEF Pending, Job
  <2>2. reader' \in [Readers -> Reader]
    BY <1>2, <1>7, <2>1 DEF SelectFiles, Reader
  <2> QED
    BY <1>7, <2>2 DEF SelectFiles
<1>8. CASE NextFile(r)
  <2>1. PICK j \in reader[r].batch :
          reader' = [reader EXCEPT ![r].at = "reading", ![r].item = {j}, ![r].batch = @ \ {j}]
    BY <1>8 DEF NextFile
  <2>2. {j} \in SUBSET Job /\ reader[r].batch \ {j} \in SUBSET Job
    BY <1>2 DEF Reader
  <2>3. reader' \in [Readers -> Reader]
    BY <1>2, <2>1, <2>2 DEF Reader
  <2> QED
    BY <1>8, <2>3 DEF NextFile
<1>9. CASE ReadFile(r)
  <2>1. PICK j \in reader[r].item :
          reader' = [reader EXCEPT ![r].at = "saving", ![r].content = blob[j.file]]
    BY <1>9 DEF ReadFile
  <2>2. blob[j.file] \in Nat
    BY <1>2 DEF Reader, Job
  <2>3. reader' \in [Readers -> Reader]
    BY <1>2, <2>1, <2>2 DEF Reader
  <2> QED
    BY <1>9, <2>3 DEF ReadFile
<1>10. CASE ReadFails(r)
  <2>1. reader' \in [Readers -> Reader]
    BY <1>2, <1>10 DEF ReadFails, Reader
  <2>2. left' \in [Events -> Nat]
    BY <1>10, SpendTyped DEF ReadFails, Events
  <2> QED
    BY <1>10, <2>1, <2>2 DEF ReadFails
<1>11. CASE SaveText(r)
  <2>1. PICK j \in reader[r].item :
          /\ ForgetPassages({j.file})
          /\ texts' = [texts EXCEPT ![j.file] =
                          [revision |-> j.revision, content |-> reader[r].content]]
    BY <1>11 DEF SaveText
  <2>2. j.file \in Files /\ j.revision \in Nat /\ reader[r].content \in Nat
    BY <1>2 DEF Reader, Job
  <2>3. chunks' \in [Pages -> Chunks] /\ state' \in [Pages -> State]
    BY <1>3, <2>1, <2>2
  <2>4. texts' \in [Files -> Text]
    BY <2>1, <2>2 DEF Text
  <2>5. reader' \in [Readers -> Reader]
    BY <1>2, <1>11 DEF SaveText, Reader
  <2> QED
    BY <1>11, <2>3, <2>4, <2>5 DEF SaveText
<1>12. CASE CloseFiles(r)
  <2>1. CASE reader[r].done /\ r \notin late
    BY <1>2, <1>12, <2>1 DEF CloseFiles, Reader
  <2>2. CASE ~(reader[r].done /\ r \notin late)
    BY <1>12, <2>2, EndTyped DEF CloseFiles
  <2> QED
    BY <2>1, <2>2
<1>13. CASE ReaderCrashes(r)
  <2>1. left' \in [Events -> Nat]
    BY <1>13, SpendTyped DEF ReaderCrashes, Events
  <2> QED
    BY <1>13, <2>1, EndTyped DEF ReaderCrashes
<1> QED
  BY <1>4, <1>5, <1>6, <1>7, <1>8, <1>9, <1>10, <1>11, <1>12, <1>13 DEF ReaderStep

LEMMA StepTyped == ASSUME Typed, [Next]_vars PROVE Typed'
<1>1. CASE Next
  BY <1>1, EditTyped, WriterTyped, AdminTyped, LockTyped, PassTyped, ReaderTyped DEF Next
<1>2. CASE UNCHANGED vars
  BY <1>2 DEF vars, Typed
<1> QED
  BY <1>1, <1>2

-----------------------------------------------------------------------------
(* Who runs, and who holds the locks.                                      *)

\* An indexing pass begins, ends, or goes on with the locks as they are.
LEMMA PassRuns ==
    ASSUME Typed, NEW x \in Passes, PassStep(x) \/ EmbedFails(x) \/ PassCrashes(x)
    PROVE  \/ /\ Take("index", x) /\ x \notin Indexing /\ Indexing' = Indexing \cup {x}
              /\ Reading' = Reading /\ UNCHANGED <<late, lapsed>>
           \/ EndPass(x) /\ Indexing' = Indexing \ {x} /\ Reading' = Reading
           \/ Indexing' = Indexing /\ Reading' = Reading /\ UNCHANGED <<lock, late, lapsed>>
<1> USE DEF Typed, Pass, Indexing, Reading, PassUnchanged
<1>1. CASE BeginPass(x)
  BY <1>1 DEF BeginPass
<1>2. CASE SkipPass(x) \/ NothingStale(x) \/ FinishPass(x) \/ PassCrashes(x)
  <2>1. EndPass(x) /\ UNCHANGED reader
    BY <1>2 DEF SkipPass, NothingStale, FinishPass, PassCrashes
  <2>2. pass' = [pass EXCEPT ![x] = IdlePass] /\ IdlePass.at = "idle"
    BY <2>1 DEF EndPass, IdlePass
  <2> QED
    BY <2>1, <2>2
<1> DEFINE GoesOn == /\ pass[x].at # "idle" /\ pass'[x].at # "idle"
                     /\ \A y \in Passes \ {x} : pass'[y] = pass[y]
                     /\ UNCHANGED <<reader, lock, late, lapsed>>
<1>3. GoesOn => Indexing' = Indexing /\ Reading' = Reading /\ UNCHANGED <<lock, late, lapsed>>
  OBVIOUS
<1>4. ASSUME LoadConfig(x) PROVE GoesOn
  BY <1>4 DEF LoadConfig
<1>5. ASSUME ResetIfModelChanged(x) PROVE GoesOn
  BY <1>5 DEF ResetIfModelChanged
<1>6. ASSUME SelectBatch(x) PROVE GoesOn
  BY <1>6 DEF SelectBatch
<1>7. ASSUME NextPage(x) PROVE GoesOn
  BY <1>7 DEF NextPage
<1>8. ASSUME CloseBatch(x) PROVE GoesOn
  BY <1>8 DEF CloseBatch
<1>9. ASSUME Embedded(x) PROVE GoesOn
  BY <1>9 DEF Embedded
<1>10. ASSUME EmbedRefused(x) PROVE GoesOn
  BY <1>10 DEF EmbedRefused
<1>11. ASSUME EmbedFails(x) PROVE GoesOn
  BY <1>11 DEF EmbedFails
<1>12. ASSUME StorePage(x) PROVE GoesOn
  BY <1>12 DEF StorePage
<1>13. ASSUME StoreFails(x) PROVE GoesOn
  BY <1>13 DEF StoreFails
<1>14. ASSUME SkipRefused(x) PROVE GoesOn
  BY <1>14 DEF SkipRefused
<1>15. ASSUME NextBatch(x) PROVE GoesOn
  BY <1>15 DEF NextBatch
<1> HIDE DEF GoesOn
<1> QED
  BY <1>1, <1>2, <1>3, <1>4, <1>5, <1>6, <1>7, <1>8, <1>9, <1>10, <1>11, <1>12, <1>13, <1>14, <1>15 DEF PassStep

LEMMA ReaderRuns ==
    ASSUME Typed, NEW r \in Readers, ReaderStep(r) \/ ReadFails(r) \/ ReaderCrashes(r)
    PROVE  \/ /\ Take("text", r) /\ r \notin Reading /\ Reading' = Reading \cup {r}
              /\ Indexing' = Indexing /\ UNCHANGED <<late, lapsed>>
           \/ EndReader(r) /\ Reading' = Reading \ {r} /\ Indexing' = Indexing
           \/ Indexing' = Indexing /\ Reading' = Reading /\ UNCHANGED <<lock, late, lapsed>>
<1> USE DEF Typed, Reader, Indexing, Reading, ReaderUnchanged
<1>1. CASE BeginReader(r)
  BY <1>1 DEF BeginReader
<1>2. ASSUME EndReader(r), UNCHANGED pass
      PROVE  EndReader(r) /\ Reading' = Reading \ {r} /\ Indexing' = Indexing
  <2>1. reader' = [reader EXCEPT ![r] = IdleReader] /\ IdleReader.at = "idle"
    BY <1>2 DEF EndReader, IdleReader
  <2> QED
    BY <1>2, <2>1
<1> DEFINE GoesOn == /\ reader[r].at # "idle" /\ reader'[r].at # "idle"
                     /\ \A y \in Readers \ {r} : reader'[y] = reader[y]
                     /\ UNCHANGED <<pass, lock, late, lapsed>>
<1>3. GoesOn => Indexing' = Indexing /\ Reading' = Reading /\ UNCHANGED <<lock, late, lapsed>>
  OBVIOUS
<1>4. CASE ReaderCrashes(r)
  BY <1>2, <1>4 DEF ReaderCrashes
<1>5. ASSUME StartReader(r) PROVE GoesOn \/ (EndReader(r) /\ UNCHANGED pass)
  BY <1>5 DEF StartReader
<1>6. ASSUME CloseFiles(r) PROVE GoesOn \/ (EndReader(r) /\ UNCHANGED pass)
  BY <1>6 DEF CloseFiles
<1>7. ASSUME ForgetUnlinked(r) PROVE GoesOn
  BY <1>7 DEF ForgetUnlinked
<1>8. ASSUME SelectFiles(r) PROVE GoesOn
  BY <1>8 DEF SelectFiles
<1>9. ASSUME NextFile(r) PROVE GoesOn
  BY <1>9 DEF NextFile
<1>10. ASSUME ReadFile(r) PROVE GoesOn
  BY <1>10 DEF ReadFile
<1>11. ASSUME ReadFails(r) PROVE GoesOn
  BY <1>11 DEF ReadFails
<1>12. ASSUME SaveText(r) PROVE GoesOn
  BY <1>12 DEF SaveText
<1> HIDE DEF GoesOn
<1> QED
  BY <1>1, <1>2, <1>3, <1>4, <1>5, <1>6, <1>7, <1>8, <1>9, <1>10, <1>11, <1>12 DEF ReaderStep

LocksInv ==
    /\ late \in SUBSET (Indexing \cup Reading)
    /\ lapsed \in SUBSET (Indexing \cup Reading)
    /\ UnlockedOnlyByLapse

LEMMA StepLocks == ASSUME Typed, LocksInv, [Next]_vars PROVE LocksInv'
<1> USE WorkersAssumption
<1>1. Indexing \subseteq Passes /\ Reading \subseteq Readers
  BY DEF Indexing, Reading
<1>2. ASSUME UNCHANGED <<pass, reader, lock, late, lapsed>>
      PROVE  LocksInv'
  BY <1>2 DEF LocksInv, UnlockedOnlyByLapse, Indexing, Reading
<1>3. CASE \/ \E p \in Pages : \E ls \in SUBSET FilesOf(p) : Edit(p, ls)
           \/ \E w \in Writers : \E f \in Files : LoadFile(w, f)
           \/ \E w \in Writers : WriterStep(w) \/ GiveUpFile(w) \/ FailFile(w)
           \/ \E m \in Models : ChangeModel(m)
           \/ SetPaused
  BY <1>2, <1>3 DEF Edit, LoadFile, WriterStep, PutFile, CommitFile, GiveUpFile, FailFile,
                    WriterUnchanged, ChangeModel,
                    SetPaused, workerVars
<1>4. ASSUME NEW k \in {"index", "text"}, Expire(k) PROVE LocksInv'
  <2>1. Indexing' = Indexing /\ Reading' = Reading
    BY <1>4 DEF Expire, Indexing, Reading
  <2> QED
    BY <1>1, <1>4, <2>1 DEF Expire, LocksInv, UnlockedOnlyByLapse, Typed
<1>5. ASSUME NEW k \in {"index", "text"}, Lapse(k) PROVE LocksInv'
  <2>1. Indexing' = Indexing /\ Reading' = Reading
    BY <1>5 DEF Lapse, Indexing, Reading
  <2> QED
    BY <1>1, <1>5, <2>1 DEF Lapse, LocksInv, UnlockedOnlyByLapse, Typed
<1>6. ASSUME NEW a \in Passes \cup Readers, TimeUp(a) PROVE LocksInv'
  <2>1. Indexing' = Indexing /\ Reading' = Reading
    BY <1>6 DEF TimeUp, Indexing, Reading
  <2>2. a \in Indexing \cup Reading
    BY <1>6 DEF TimeUp, Indexing, Reading
  <2> QED
    BY <1>6, <2>1, <2>2 DEF TimeUp, LocksInv, UnlockedOnlyByLapse
<1>7. CASE WorkerDies
  BY <1>7 DEF WorkerDies, LocksInv, UnlockedOnlyByLapse, Indexing, Reading, IdlePass, IdleReader
<1>8. ASSUME NEW x \in Passes, PassStep(x) \/ EmbedFails(x) \/ PassCrashes(x) PROVE LocksInv'
  <2>1. CASE /\ Take("index", x) /\ x \notin Indexing /\ Indexing' = Indexing \cup {x}
             /\ Reading' = Reading /\ UNCHANGED <<late, lapsed>>
    BY <1>1, <2>1 DEF Take, LocksInv, UnlockedOnlyByLapse, Typed
  <2>2. CASE EndPass(x) /\ Indexing' = Indexing \ {x} /\ Reading' = Reading
    BY <1>1, <2>2 DEF EndPass, Release, LocksInv, UnlockedOnlyByLapse, Typed
  <2>3. CASE Indexing' = Indexing /\ Reading' = Reading /\ UNCHANGED <<lock, late, lapsed>>
    BY <2>3 DEF LocksInv, UnlockedOnlyByLapse
  <2> QED
    BY <1>8, <2>1, <2>2, <2>3, PassRuns
<1>9. ASSUME NEW r \in Readers, ReaderStep(r) \/ ReadFails(r) \/ ReaderCrashes(r)
      PROVE  LocksInv'
  <2>1. CASE /\ Take("text", r) /\ r \notin Reading /\ Reading' = Reading \cup {r}
             /\ Indexing' = Indexing /\ UNCHANGED <<late, lapsed>>
    BY <1>1, <2>1 DEF Take, LocksInv, UnlockedOnlyByLapse, Typed
  <2>2. CASE EndReader(r) /\ Reading' = Reading \ {r} /\ Indexing' = Indexing
    BY <1>1, <2>2 DEF EndReader, Release, LocksInv, UnlockedOnlyByLapse, Typed
  <2>3. CASE Indexing' = Indexing /\ Reading' = Reading /\ UNCHANGED <<lock, late, lapsed>>
    BY <2>3 DEF LocksInv, UnlockedOnlyByLapse
  <2> QED
    BY <1>9, <2>1, <2>2, <2>3, ReaderRuns
<1>10. CASE UNCHANGED vars
  BY <1>2, <1>10 DEF vars
<1> QED
  BY <1>3, <1>4, <1>5, <1>6, <1>7, <1>8, <1>9, <1>10 DEF Next

-----------------------------------------------------------------------------
(* What the record of a page says.                                         *)

LEMMA StepIndexed ==
    ASSUME Typed, IndexedIsWhatTheRecordSays, [Next]_vars
    PROVE  IndexedIsWhatTheRecordSays'
<1> USE DEF IndexedIsWhatTheRecordSays
<1>1. CASE UNCHANGED <<state, chunks>>
  BY <1>1
<1>2. ASSUME NEW fs \in SUBSET Files, ForgetPassages(fs)
      PROVE  IndexedIsWhatTheRecordSays'
  <2>1. ASSUME NEW p \in Pages, state'[p].kind = "indexed"
        PROVE  /\ state'[p] = state[p]
               /\ chunks'[p].updated = chunks[p].updated /\ chunks'[p].model = chunks[p].model
    <3>1. state'[p] = state[p]
      BY <1>2, <2>1 DEF ForgetPassages, NoState
    <3>2. chunks[p] \in Chunks
      BY DEF Typed
    <3> QED
      BY <1>2, <3>1, <3>2 DEF ForgetPassages, Chunks
  <2> QED
    BY <2>1
<1>3. ASSUME NEW x \in Passes, NEW i \in Item, NEW kind \in Kinds,
             NEW files \in [Files -> Nat], StoreAs(x, i, kind, files)
      PROVE  IndexedIsWhatTheRecordSays'
  BY <1>3 DEF StoreAs, Item, Typed
<1>4. ASSUME NEW x \in Passes, PassStep(x) \/ EmbedFails(x) \/ PassCrashes(x)
      PROVE  IndexedIsWhatTheRecordSays'
  <2>1. pass[x] \in Pass
    BY DEF Typed
  <2>2. CASE StorePage(x)
    BY <1>3, <2>1, <2>2 DEF StorePage, Pass, Kinds
  <2>3. CASE SkipRefused(x)
    <3>1. NoPassages \in [Files -> Nat]
      BY DEF NoPassages
    <3> QED
      BY <1>3, <2>1, <2>3, <3>1 DEF SkipRefused, Pass, Kinds
  <2>4. CASE ResetIfModelChanged(x)
    BY <2>4 DEF ResetIfModelChanged, NoState
  <2>5. CASE ~StorePage(x) /\ ~SkipRefused(x) /\ ~ResetIfModelChanged(x)
    BY <1>1, <1>4, <2>5 DEF PassStep, BeginPass, SkipPass, LoadConfig, SelectBatch, NothingStale,
         NextPage, CloseBatch, Embedded, EmbedRefused, EmbedFails, StoreFails, NextBatch,
         FinishPass, PassCrashes, indexVars
  <2> QED
    BY <2>2, <2>3, <2>4, <2>5
<1>5. ASSUME NEW r \in Readers, ReaderStep(r) \/ ReadFails(r) \/ ReaderCrashes(r)
      PROVE  IndexedIsWhatTheRecordSays'
  <2>1. CASE ForgetUnlinked(r)
    BY <1>2, <2>1 DEF ForgetUnlinked
  <2>2. CASE SaveText(r)
    <3>1. PICK j \in reader[r].item : ForgetPassages({j.file})
      BY <2>2 DEF SaveText
    <3>2. j.file \in Files
      BY DEF Typed, Reader, Job
    <3> QED
      BY <1>2, <3>1, <3>2
  <2>3. CASE ~ForgetUnlinked(r) /\ ~SaveText(r)
    BY <1>1, <1>5, <2>3 DEF ReaderStep, BeginReader, StartReader, SelectFiles, NextFile, ReadFile,
         ReadFails, CloseFiles, ReaderCrashes, indexVars
  <2> QED
    BY <2>1, <2>2, <2>3
<1>6. CASE \/ \E p \in Pages : \E ls \in SUBSET FilesOf(p) : Edit(p, ls)
           \/ \E w \in Writers : \E f \in Files : LoadFile(w, f)
           \/ \E w \in Writers : WriterStep(w) \/ GiveUpFile(w) \/ FailFile(w)
           \/ \E m \in Models : ChangeModel(m)
           \/ SetPaused
           \/ \E k \in {"index", "text"} : Expire(k) \/ Lapse(k)
           \/ \E a \in Passes \cup Readers : TimeUp(a)
           \/ WorkerDies
  BY <1>1, <1>6 DEF Edit, LoadFile, WriterStep, PutFile, CommitFile, GiveUpFile, FailFile,
                    WriterUnchanged, ChangeModel,
                    SetPaused, Expire, Lapse, TimeUp, WorkerDies, indexVars
<1>7. CASE UNCHANGED vars
  BY <1>1, <1>7 DEF vars
<1> QED
  BY <1>4, <1>5, <1>6, <1>7 DEF Next

-----------------------------------------------------------------------------
(* Models.                                                                 *)

\* Steps of a pass after it has compared the records with its model.
Compared == {"selecting", "next", "embedding", "storing", "closing"}

\* As long as no lock has lapsed the records name one model, and it is the one
\* of every pass that has compared them.
RecordsOfOneModel ==
    lapses = 0 =>
        /\ \A p, q \in Pages : state[p].kind # "none" /\ state[q].kind # "none"
                                    => state[p].model = state[q].model
        /\ \A x \in Passes, p \in Pages :
                pass[x].at \in Compared /\ state[p].kind # "none"
                    => state[p].model = pass[x].model

\* A page that has passages has a record of them, or has lost it because
\* passages of one of its files were dropped.
Unrecorded(p) == state[p].kind = "none" /\ FilesOf(p) # {}
PassagesAreRecorded ==
    \A p \in Pages : chunks[p].updated # 0 => state[p].kind = "indexed" \/ Unrecorded(p)

LEMMA NothingLapsed ==
    ASSUME Typed, lapses = 0 => lapsed = {}, [Next]_vars
    PROVE  lapses' = 0 => lapsed' = {} /\ lapses = 0
<1> USE DEF boundVars, workerVars, contentVars, indexVars, adminVars, PassUnchanged, ReaderUnchanged
<1>1. CASE UNCHANGED <<lapses, lapsed>>
  BY <1>1
<1>2. ASSUME NEW k \in {"index", "text"}, Lapse(k) PROVE lapses' # 0
  BY <1>2 DEF Lapse, Typed
<1>3. CASE WorkerDies
  BY <1>3 DEF WorkerDies
<1>4. ASSUME NEW x \in Passes, PassStep(x) \/ EmbedFails(x) \/ PassCrashes(x)
      PROVE  lapses' = lapses /\ lapsed' \subseteq lapsed
  <2>1. lapses' = lapses
    BY <1>4 DEF PassStep, BeginPass, SkipPass, LoadConfig, ResetIfModelChanged, SelectBatch,
         NothingStale, NextPage, CloseBatch, Embedded, EmbedRefused, EmbedFails, StorePage,
         StoreFails, SkipRefused, NextBatch, FinishPass, PassCrashes
  <2> QED
    BY <1>4, <2>1, PassRuns DEF EndPass
<1>5. ASSUME NEW r \in Readers, ReaderStep(r) \/ ReadFails(r) \/ ReaderCrashes(r)
      PROVE  lapses' = lapses /\ lapsed' \subseteq lapsed
  <2>1. lapses' = lapses
    BY <1>5 DEF ReaderStep, BeginReader, StartReader, ForgetUnlinked, SelectFiles, NextFile,
         ReadFile, ReadFails, SaveText, CloseFiles, ReaderCrashes
  <2> QED
    BY <1>5, <2>1, ReaderRuns DEF EndReader
<1>6. CASE \/ \E p \in Pages : \E ls \in SUBSET FilesOf(p) : Edit(p, ls)
           \/ \E w \in Writers : \E f \in Files : LoadFile(w, f)
           \/ \E w \in Writers : WriterStep(w) \/ GiveUpFile(w) \/ FailFile(w)
           \/ \E m \in Models : ChangeModel(m)
           \/ SetPaused
           \/ \E k \in {"index", "text"} : Expire(k)
           \/ \E a \in Passes \cup Readers : TimeUp(a)
  BY <1>1, <1>6 DEF Edit, LoadFile, WriterStep, PutFile, CommitFile, GiveUpFile, FailFile,
                    WriterUnchanged, ChangeModel,
                    SetPaused, Expire, TimeUp
<1>7. CASE UNCHANGED vars
  BY <1>1, <1>7 DEF vars
<1> QED
  BY <1>2, <1>3, <1>4, <1>5, <1>6, <1>7 DEF Next

LEMMA OnePassAtATime ==
    ASSUME LocksInv, lapsed = {}
    PROVE  \A x, y \in Indexing : x = y
  BY DEF LocksInv, UnlockedOnlyByLapse

\* Records change by a reset, by being stored, or by being dropped; the model
\* of a pass changes only before it compares.
LEMMA StepModels ==
    ASSUME Typed, LocksInv, lapses = 0 => lapsed = {}, RecordsOfOneModel, [Next]_vars
    PROVE  RecordsOfOneModel'
<1> SUFFICES ASSUME lapses' = 0 PROVE RecordsOfOneModel'
  BY DEF RecordsOfOneModel
<1> USE DEF RecordsOfOneModel
<1>1. lapses = 0 /\ lapsed = {} /\ \A x, y \in Indexing : x = y
  BY NothingLapsed, OnePassAtATime
<1> DEFINE Kept(p) == state'[p].kind # "none" => state'[p] = state[p]
           Same(x) == pass'[x].at \in Compared
                          => pass[x].at \in Compared /\ pass'[x].model = pass[x].model
<1>2. ASSUME \A p \in Pages : Kept(p), \A x \in Passes : Same(x)
      PROVE  RecordsOfOneModel'
  BY <1>1, <1>2
<1>3. CASE UNCHANGED <<state, pass>>
  BY <1>2, <1>3
<1>4. ASSUME NEW x \in Passes, EndPass(x), UNCHANGED state PROVE RecordsOfOneModel'
  <2>1. \A y \in Passes : pass'[y] = IF y = x THEN IdlePass ELSE pass[y]
    BY <1>4 DEF EndPass, Typed
  <2> QED
    BY <1>2, <1>4, <2>1 DEF IdlePass, Compared
<1>5. ASSUME NEW x \in Passes, PassStep(x) \/ EmbedFails(x) \/ PassCrashes(x)
      PROVE  RecordsOfOneModel'
  <2> USE DEF PassUnchanged, indexVars, contentVars
  <2>1. pass[x] \in Pass /\ pass \in [Passes -> Pass]
    BY DEF Typed
  <2>2. CASE SkipPass(x) \/ NothingStale(x) \/ FinishPass(x) \/ PassCrashes(x)
    BY <1>4, <2>2 DEF SkipPass, NothingStale, FinishPass, PassCrashes
  <2>3. CASE BeginPass(x)
    BY <1>2, <2>1, <2>3 DEF BeginPass, Compared
  <2>4. CASE LoadConfig(x)
    BY <1>2, <2>1, <2>4 DEF LoadConfig, Compared
  <2>5. CASE ResetIfModelChanged(x)
    <3>1. /\ pass'[x].at = "selecting" /\ pass'[x].model = pass[x].model
          /\ \A y \in Passes \ {x} : pass'[y] = pass[y]
      BY <2>1, <2>5 DEF ResetIfModelChanged, Pass
    <3>2. \A y \in Passes \ {x} : pass[y].at = "idle"
      BY <1>1, <2>5 DEF ResetIfModelChanged, Indexing
    <3>3. \A p \in Pages : state'[p].kind # "none"
                               => state'[p].model = pass[x].model
      BY <2>5 DEF ResetIfModelChanged, NoState
    <3> QED
      BY <3>1, <3>2, <3>3 DEF Compared
  <2>6. ASSUME NEW i \in Item, NEW kind \in Kinds \ {"none"}, NEW files,
               StoreAs(x, i, kind, files), pass[x].at \in Compared,
               pass'[x].model = pass[x].model,
               \A y \in Passes \ {x} : pass'[y] = pass[y]
        PROVE  RecordsOfOneModel'
    <3>1. \A y \in Passes \ {x} : pass[y].at = "idle"
      BY <1>1, <2>6 DEF Indexing, Compared
    <3>2. \A p \in Pages : state'[p].kind # "none" => state'[p].model = pass[x].model
      BY <1>1, <2>6 DEF StoreAs, Typed
    <3> QED
      BY <2>6, <3>1, <3>2 DEF Compared
  <2>7. CASE StorePage(x)
    <3>1. /\ pass[x].at \in Compared /\ pass'[x].model = pass[x].model
          /\ \A y \in Passes \ {x} : pass'[y] = pass[y]
      BY <2>1, <2>7 DEF StorePage, Compared, Pass
    <3>2. PICK i \in pass[x].item : StoreAs(x, i, "indexed", pass[x].passages)
      BY <2>7 DEF StorePage
    <3>3. i \in Item /\ "indexed" \in Kinds \ {"none"}
      BY <2>1 DEF Pass, Kinds
    <3> QED
      BY <2>6, <3>1, <3>2, <3>3
  <2>8. CASE SkipRefused(x)
    <3>1. /\ pass[x].at \in Compared /\ pass'[x].model = pass[x].model
          /\ \A y \in Passes \ {x} : pass'[y] = pass[y]
      BY <2>1, <2>8 DEF SkipRefused, Compared, Pass
    <3>2. PICK i \in pass[x].refused : StoreAs(x, i, "skipped", NoPassages)
      BY <2>8 DEF SkipRefused
    <3>3. i \in Item /\ "skipped" \in Kinds \ {"none"}
      BY <2>1 DEF Pass, Kinds
    <3> QED
      BY <2>6, <3>1, <3>2, <3>3
  <2> DEFINE GoesOn == /\ UNCHANGED state
                       /\ \A y \in Passes : Same(y)
  <2>9. SelectBatch(x) => GoesOn
    BY <2>1 DEF SelectBatch, Compared
  <2>10. NextPage(x) \/ CloseBatch(x) \/ Embedded(x) => GoesOn
    <3>1. NextPage(x) => GoesOn
      BY <2>1 DEF NextPage, Compared
    <3>2. CloseBatch(x) => GoesOn
      BY <2>1 DEF CloseBatch, Compared
    <3>3. Embedded(x) => GoesOn
      BY <2>1 DEF Embedded, Compared
    <3> QED
      BY <3>1, <3>2, <3>3
  <2>11. EmbedRefused(x) \/ EmbedFails(x) \/ StoreFails(x) => GoesOn
    <3>1. EmbedRefused(x) => GoesOn
      BY <2>1 DEF EmbedRefused, Compared
    <3>2. EmbedFails(x) => GoesOn
      BY <2>1 DEF EmbedFails, Compared
    <3>3. StoreFails(x) => GoesOn
      BY <2>1 DEF StoreFails, Compared
    <3> QED
      BY <3>1, <3>2, <3>3
  <2>12. NextBatch(x) => GoesOn
    BY <2>1 DEF NextBatch, Compared
  <2>13. GoesOn => RecordsOfOneModel'
    BY <1>2
  <2> HIDE DEF GoesOn
  <2> QED
    BY <1>5, <2>2, <2>3, <2>4, <2>5, <2>7, <2>8, <2>9, <2>10, <2>11, <2>12, <2>13 DEF PassStep
<1>6. ASSUME NEW r \in Readers, ReaderStep(r) \/ ReadFails(r) \/ ReaderCrashes(r)
      PROVE  RecordsOfOneModel'
  <2> USE DEF ReaderUnchanged, indexVars
  <2>1. UNCHANGED pass
    BY <1>6 DEF ReaderStep, BeginReader, StartReader, ForgetUnlinked, SelectFiles, NextFile,
                ReadFile, ReadFails, SaveText, CloseFiles, ReaderCrashes
  <2>2. UNCHANGED state \/ \E fs : ForgetPassages(fs)
    BY <1>6 DEF ReaderStep, BeginReader, StartReader, ForgetUnlinked, SelectFiles, NextFile,
                ReadFile, ReadFails, SaveText, CloseFiles, ReaderCrashes
  <2>3. ASSUME NEW fs, ForgetPassages(fs) PROVE \A p \in Pages : Kept(p)
    BY <2>3 DEF ForgetPassages, NoState
  <2> QED
    BY <1>2, <2>1, <2>2, <2>3
<1>7. CASE WorkerDies
  BY <1>2, <1>7 DEF WorkerDies, indexVars, IdlePass, Compared
<1>8. CASE \/ \E p \in Pages : \E ls \in SUBSET FilesOf(p) : Edit(p, ls)
           \/ \E w \in Writers : \E f \in Files : LoadFile(w, f)
           \/ \E w \in Writers : WriterStep(w) \/ GiveUpFile(w) \/ FailFile(w)
           \/ \E m \in Models : ChangeModel(m)
           \/ SetPaused
           \/ \E k \in {"index", "text"} : Expire(k) \/ Lapse(k)
           \/ \E a \in Passes \cup Readers : TimeUp(a)
  BY <1>3, <1>8 DEF Edit, LoadFile, WriterStep, PutFile, CommitFile, GiveUpFile, FailFile,
                    WriterUnchanged, ChangeModel,
                    SetPaused, Expire, Lapse, TimeUp, indexVars, workerVars
<1>9. CASE UNCHANGED vars
  BY <1>3, <1>9 DEF vars
<1> HIDE DEF RecordsOfOneModel
<1> QED
  BY <1>5, <1>6, <1>7, <1>8, <1>9 DEF Next

\* A record goes with the passages it is of, or because passages of a file of its
\* page are dropped.
LEMMA StepRecorded ==
    ASSUME Typed, PassagesAreRecorded, [Next]_vars
    PROVE  PassagesAreRecorded'
<1> USE DEF PassagesAreRecorded
<1>1. CASE UNCHANGED <<state, chunks>>
  BY <1>1 DEF Unrecorded
<1>2. ASSUME NEW x \in Passes, PassStep(x) \/ EmbedFails(x) \/ PassCrashes(x)
      PROVE  PassagesAreRecorded'
  <2>1. ASSUME NEW i \in Item, NEW kind \in {"indexed", "skipped"}, NEW files,
               StoreAs(x, i, kind, files)
        PROVE  PassagesAreRecorded'
    BY <2>1 DEF StoreAs, NoChunks, Typed, Unrecorded
  <2>2. pass[x] \in Pass
    BY DEF Typed
  <2>3. CASE StorePage(x)
    BY <2>1, <2>2, <2>3 DEF StorePage, Pass
  <2>4. CASE SkipRefused(x)
    BY <2>1, <2>2, <2>4 DEF SkipRefused, Pass
  <2>5. CASE ResetIfModelChanged(x)
    BY <2>5 DEF ResetIfModelChanged, NoChunks, Unrecorded
  <2>6. CASE ~StorePage(x) /\ ~SkipRefused(x) /\ ~ResetIfModelChanged(x)
    BY <1>1, <1>2, <2>6 DEF PassStep, BeginPass, SkipPass, LoadConfig, SelectBatch, NothingStale,
         NextPage, CloseBatch, Embedded, EmbedRefused, EmbedFails, StoreFails, NextBatch,
         FinishPass, PassCrashes, indexVars
  <2> QED
    BY <2>3, <2>4, <2>5, <2>6
<1>3. ASSUME NEW r \in Readers, ReaderStep(r) \/ ReadFails(r) \/ ReaderCrashes(r)
      PROVE  PassagesAreRecorded'
  <2>1. ASSUME NEW fs \in SUBSET Files, ForgetPassages(fs) PROVE PassagesAreRecorded'
    <3>1. ASSUME NEW p \in Pages
          PROVE  state'[p] = state[p] \/ Unrecorded(p)'
      BY <2>1 DEF ForgetPassages, Unrecorded, FilesOf, NoState
    <3>2. \A p \in Pages : chunks'[p].updated = chunks[p].updated
      BY <2>1 DEF ForgetPassages, Typed, Chunks
    <3> QED
      BY <3>1, <3>2 DEF Unrecorded
  <2>2. CASE ForgetUnlinked(r)
    BY <2>1, <2>2 DEF ForgetUnlinked
  <2>3. CASE SaveText(r)
    <3>1. PICK j \in reader[r].item : ForgetPassages({j.file})
      BY <2>3 DEF SaveText
    <3>2. j.file \in Files
      BY DEF Typed, Reader, Job
    <3> QED
      BY <2>1, <3>1, <3>2
  <2>4. CASE ~ForgetUnlinked(r) /\ ~SaveText(r)
    BY <1>1, <1>3, <2>4 DEF ReaderStep, BeginReader, StartReader, SelectFiles, NextFile, ReadFile,
         ReadFails, CloseFiles, ReaderCrashes, indexVars
  <2> QED
    BY <2>2, <2>3, <2>4
<1>4. CASE \/ \E p \in Pages : \E ls \in SUBSET FilesOf(p) : Edit(p, ls)
           \/ \E w \in Writers : \E f \in Files : LoadFile(w, f)
           \/ \E w \in Writers : WriterStep(w) \/ GiveUpFile(w) \/ FailFile(w)
           \/ \E m \in Models : ChangeModel(m)
           \/ SetPaused
           \/ \E k \in {"index", "text"} : Expire(k) \/ Lapse(k)
           \/ \E a \in Passes \cup Readers : TimeUp(a)
           \/ WorkerDies
  BY <1>1, <1>4 DEF Edit, LoadFile, WriterStep, PutFile, CommitFile, GiveUpFile, FailFile,
                    WriterUnchanged, ChangeModel,
                    SetPaused, Expire, Lapse, TimeUp, WorkerDies, indexVars
<1>5. CASE UNCHANGED vars
  BY <1>1, <1>5 DEF vars
<1> QED
  BY <1>2, <1>3, <1>4, <1>5 DEF Next

\* Where passages are recorded, the records speak for them.
LEMMA RecordsSpeak ==
    ASSUME RecordsOfOneModel, IndexedIsWhatTheRecordSays, PassagesAreRecorded
    PROVE  VectorsOfOneModel
  BY DEF RecordsOfOneModel, IndexedIsWhatTheRecordSays, PassagesAreRecorded, Unrecorded,
         VectorsOfOneModel

-----------------------------------------------------------------------------
(* Edits.                                                                  *)

\* An edit makes its page stale for every model, whatever is being embedded or
\* stored at the time: indexer.py, "The indexer polls for pages whose
\* updated_at no longer matches what was indexed".
EditsMakeStale ==
    [][\A p \in Pages : page'[p] # page[p] => \A m \in Models : ~UpToDate(p, m)']_vars

\* No record, and nothing on its way to being recorded, is ahead of its page.
NothingAhead ==
    /\ \A p \in Pages : page[p] <= clock /\ state[p].updated <= page[p]
    /\ \A x \in Passes : \A i \in pass[x].batch \cup pass[x].item \cup pass[x].refused :
            i.updated <= page[i.page]

LEMMA InitAhead == Init => NothingAhead
  BY DEF Init, NothingAhead, NoState, IdlePass

LEMMA StepAhead ==
    ASSUME Typed, NothingAhead, [Next]_vars
    PROVE  NothingAhead'
<1> USE DEF NothingAhead, contentVars, indexVars
<1> DEFINE Seen(x) == pass[x].batch \cup pass[x].item \cup pass[x].refused
<1>1. \A x \in Passes : Seen(x) \subseteq Item
  BY DEF Typed, Pass
<1>2. ASSUME UNCHANGED <<clock, page>>,
             \A p \in Pages : state'[p].updated <= page[p],
             \A x \in Passes : \A i \in Seen(x)' : i \in Seen(x) \/ i.updated <= page[i.page]
      PROVE  NothingAhead'
  BY <1>2
<1>3. ASSUME NEW p \in Pages, NEW ls \in SUBSET FilesOf(p), Edit(p, ls) PROVE NothingAhead'
  <2>1. /\ clock' = clock + 1 /\ page' = [page EXCEPT ![p] = clock + 1]
        /\ UNCHANGED <<state, pass>>
    BY <1>3 DEF Edit, workerVars
  <2>2. \A q \in Pages : page[q] <= page'[q] /\ page'[q] <= clock' /\ page'[q] \in Nat
    BY <2>1 DEF Typed
  <2>3. \A q \in Pages : page[q] \in Nat /\ state[q].updated \in Nat
    BY DEF Typed, State
  <2>4. \A x \in Passes : \A i \in Seen(x) : i.page \in Pages /\ i.updated \in Nat
    BY <1>1 DEF Item
  <2> QED
    BY <2>1, <2>2, <2>3, <2>4
<1>4. ASSUME NEW x \in Passes, PassStep(x) \/ EmbedFails(x) \/ PassCrashes(x)
      PROVE  NothingAhead'
  <2> USE DEF PassUnchanged
  <2>1. UNCHANGED <<clock, page>>
    BY <1>4 DEF PassStep, BeginPass, SkipPass, LoadConfig, ResetIfModelChanged, SelectBatch,
         NothingStale, NextPage, CloseBatch, Embedded, EmbedRefused, EmbedFails, StorePage,
         StoreFails, SkipRefused, NextBatch, FinishPass, PassCrashes
  <2>2. pass[x] \in Pass /\ pass \in [Passes -> Pass]
    BY DEF Typed
  <2>3. ASSUME UNCHANGED state, \A y \in Passes \ {x} : pass'[y] = pass[y],
               Seen(x)' \subseteq Seen(x)
        PROVE  NothingAhead'
    BY <1>2, <2>1, <2>3
  <2>4. ASSUME EndPass(x), UNCHANGED state PROVE NothingAhead'
    BY <2>2, <2>3, <2>4 DEF EndPass, IdlePass
  <2>5. CASE SkipPass(x) \/ NothingStale(x) \/ FinishPass(x) \/ PassCrashes(x)
    BY <2>4, <2>5 DEF SkipPass, NothingStale, FinishPass, PassCrashes
  <2>6. CASE ResetIfModelChanged(x)
    <3>1. \A p \in Pages : state'[p].updated <= page[p]
      BY <2>6 DEF ResetIfModelChanged, NoState, Typed
    <3>2. \A y \in Passes : Seen(y)' = Seen(y)
      BY <2>2, <2>6 DEF ResetIfModelChanged
    <3> QED
      BY <1>2, <2>1, <3>1, <3>2
  <2>7. CASE SelectBatch(x)
    <3>1. PICK ps \in SUBSET StalePages(pass[x].model) :
            pass' = [pass EXCEPT ![x].at = "next", ![x].refused = {}, ![x].done = FALSE,
                      ![x].batch = {[page |-> p, updated |-> page[p]] : p \in ps}]
      BY <2>7 DEF SelectBatch
    <3>2. UNCHANGED state
      BY <2>7 DEF SelectBatch
    <3>3. \A i \in pass'[x].batch : i.updated <= page[i.page]
      <4>1. pass'[x].batch = {[page |-> p, updated |-> page[p]] : p \in ps}
        BY <2>2, <3>1 DEF Pass
      <4>2. \A p \in ps : page[p] \in Nat
        BY DEF StalePages, Typed
      <4> QED
        BY <4>1, <4>2
    <3>4. pass'[x].item = pass[x].item /\ pass'[x].refused = {}
      BY <2>2, <3>1 DEF Pass
    <3>5. \A y \in Passes \ {x} : pass'[y] = pass[y]
      BY <2>2, <3>1
    <3> QED
      BY <1>2, <2>1, <3>2, <3>3, <3>4, <3>5
  <2>8. ASSUME NEW i \in Seen(x), NEW kind, NEW files, StoreAs(x, i, kind, files)
        PROVE  \A p \in Pages : state'[p].updated <= page[p]
    BY <1>1, <2>8 DEF StoreAs, Item, Typed
  <2>9. CASE StorePage(x)
    <3>1. \A p \in Pages : state'[p].updated <= page[p]
      BY <2>8, <2>9 DEF StorePage
    <3>2. \A y \in Passes : Seen(y)' \subseteq Seen(y)
      BY <2>2, <2>9 DEF StorePage, Pass
    <3> QED
      BY <1>2, <2>1, <3>1, <3>2
  <2>10. CASE SkipRefused(x)
    <3>1. \A p \in Pages : state'[p].updated <= page[p]
      BY <2>8, <2>10 DEF SkipRefused
    <3>2. \A y \in Passes : Seen(y)' \subseteq Seen(y)
      BY <2>2, <2>10 DEF SkipRefused, Pass
    <3> QED
      BY <1>2, <2>1, <3>1, <3>2
  <2>11. CASE BeginPass(x)
    BY <2>2, <2>3, <2>11 DEF BeginPass, Pass
  <2>12. CASE LoadConfig(x)
    BY <2>2, <2>3, <2>12 DEF LoadConfig, Pass
  <2>13. CASE NextPage(x)
    BY <2>2, <2>3, <2>13 DEF NextPage, Pass
  <2>14. CASE CloseBatch(x)
    BY <2>2, <2>3, <2>14 DEF CloseBatch, Pass
  <2>15. CASE Embedded(x)
    BY <2>2, <2>3, <2>15 DEF Embedded, Pass
  <2>16. CASE EmbedRefused(x)
    BY <2>2, <2>3, <2>16 DEF EmbedRefused, Pass
  <2>17. CASE EmbedFails(x)
    BY <2>2, <2>3, <2>17 DEF EmbedFails, Pass
  <2>18. CASE StoreFails(x)
    BY <2>2, <2>3, <2>18 DEF StoreFails, Pass
  <2>19. CASE NextBatch(x)
    BY <2>2, <2>3, <2>19 DEF NextBatch, Pass
  <2> QED
    BY <1>4, <2>5, <2>6, <2>7, <2>9, <2>10, <2>11, <2>12, <2>13, <2>14, <2>15, <2>16, <2>17,
       <2>18, <2>19 DEF PassStep
<1>5. ASSUME NEW r \in Readers, ReaderStep(r) \/ ReadFails(r) \/ ReaderCrashes(r)
      PROVE  NothingAhead'
  <2> USE DEF ReaderUnchanged
  <2>1. UNCHANGED <<clock, page, pass>>
    BY <1>5 DEF ReaderStep, BeginReader, StartReader, ForgetUnlinked, SelectFiles, NextFile,
                ReadFile, ReadFails, SaveText, CloseFiles, ReaderCrashes
  <2>2. UNCHANGED state \/ \E fs : ForgetPassages(fs)
    BY <1>5 DEF ReaderStep, BeginReader, StartReader, ForgetUnlinked, SelectFiles, NextFile,
                ReadFile, ReadFails, SaveText, CloseFiles, ReaderCrashes
  <2>3. \A p \in Pages : state'[p].updated <= page[p]
    BY <2>2, SMTT(40) DEF ForgetPassages, NoState, Typed
  <2> QED
    BY <1>2, <2>1, <2>3
<1>6. CASE WorkerDies
  <2>1. UNCHANGED <<clock, page, state>> /\ \A x \in Passes : Seen(x)' = {}
    BY <1>6 DEF WorkerDies, IdlePass
  <2> QED
    BY <1>2, <2>1
<1>7. CASE \/ \E w \in Writers : \E f \in Files : LoadFile(w, f)
           \/ \E w \in Writers : WriterStep(w) \/ GiveUpFile(w) \/ FailFile(w)
           \/ \E m \in Models : ChangeModel(m)
           \/ SetPaused
           \/ \E k \in {"index", "text"} : Expire(k) \/ Lapse(k)
           \/ \E a \in Passes \cup Readers : TimeUp(a)
  <2>1. UNCHANGED <<clock, page, state, pass>>
    BY <1>7 DEF LoadFile, WriterStep, PutFile, CommitFile, GiveUpFile, FailFile,
                WriterUnchanged, ChangeModel, SetPaused,
                Expire, Lapse, TimeUp, workerVars
  <2> QED
    BY <2>1
<1>8. CASE UNCHANGED vars
  BY <1>8 DEF vars
<1> HIDE DEF NothingAhead
<1> QED
  BY <1>3, <1>4, <1>5, <1>6, <1>7, <1>8 DEF Next

\* Only an edit moves updated_at, and to a stamp nobody has used.
LEMMA EditStales ==
    ASSUME Typed, NothingAhead, [Next]_vars,
           NEW p \in Pages, page'[p] # page[p], NEW m \in Models
    PROVE  ~UpToDate(p, m)'
<1> USE DEF contentVars, PassUnchanged, ReaderUnchanged
<1>1. CASE \E q \in Pages : \E ls \in SUBSET FilesOf(q) : Edit(q, ls)
  <2>1. page'[p] = clock + 1 /\ UNCHANGED state
    BY <1>1 DEF Edit, Typed, indexVars
  <2>2. state[p].updated <= page[p] /\ page[p] <= clock
    BY DEF NothingAhead
  <2>3. state[p].updated \in Nat /\ page[p] \in Nat /\ clock \in Nat
    BY DEF Typed, State
  <2> QED
    BY <2>1, <2>2, <2>3 DEF UpToDate
<1>2. ASSUME NEW x \in Passes, PassStep(x) \/ EmbedFails(x) \/ PassCrashes(x)
      PROVE  UNCHANGED page
  BY <1>2 DEF PassStep, BeginPass, SkipPass, LoadConfig, ResetIfModelChanged, SelectBatch,
       NothingStale, NextPage, CloseBatch, Embedded, EmbedRefused, EmbedFails, StorePage,
       StoreFails, SkipRefused, NextBatch, FinishPass, PassCrashes
<1>3. ASSUME NEW r \in Readers, ReaderStep(r) \/ ReadFails(r) \/ ReaderCrashes(r)
      PROVE  UNCHANGED page
  BY <1>3 DEF ReaderStep, BeginReader, StartReader, ForgetUnlinked, SelectFiles, NextFile,
              ReadFile, ReadFails, SaveText, CloseFiles, ReaderCrashes
<1>4. ASSUME \/ \E w \in Writers : \E f \in Files : LoadFile(w, f)
             \/ \E w \in Writers : WriterStep(w) \/ GiveUpFile(w) \/ FailFile(w)
             \/ \E n \in Models : ChangeModel(n)
             \/ SetPaused
             \/ \E k \in {"index", "text"} : Expire(k) \/ Lapse(k)
             \/ \E a \in Passes \cup Readers : TimeUp(a)
             \/ WorkerDies
             \/ UNCHANGED vars
      PROVE  UNCHANGED page
  BY <1>4 DEF LoadFile, WriterStep, PutFile, CommitFile, GiveUpFile, FailFile,
              WriterUnchanged, ChangeModel, SetPaused,
              Expire, Lapse, TimeUp, WorkerDies, vars
<1> QED
  BY <1>1, <1>2, <1>3, <1>4 DEF Next

-----------------------------------------------------------------------------
(* What lasts.                                                             *)

\* What a pass still has to do, for a pass in state s.
ToDo(s) == s.batch \cup s.item \cup s.refused

\* A pass does one page after the other, and none of its batch twice.
InTurn(s) ==
    /\ s.at \in {"idle", "starting"} => ToDo(s) = {}
    /\ s.at \notin {"embedding", "storing"} => s.item = {}
    /\ \A i, j \in ToDo(s) : i.page = j.page => i = j
    /\ s.item \cap (s.batch \cup s.refused) = {}
    /\ s.batch \cap s.refused = {}
PassesInTurn == \A x \in Passes : InTurn(pass[x])

\* As long as no lock has lapsed, a pass has before it stale pages only.
WorkIsStale ==
    lapses = 0 => \A x \in Passes : \A i \in ToDo(pass[x]) : ~UpToDate(i.page, pass[x].model)

\* A page that is indexed as it stands, for the configured model, stays so, as
\* long as no lock has lapsed, until it is edited, the model is changed, a file of
\* it is read or forgotten, or a pass compares that was started for a model which
\* is configured no more: no pass writes an older reading over a newer one
\* (indexer.py, index_pending and _store; a batch is read once and then stored
\* page by page).
IndexedLasts ==
    [][lapses' = 0 => \A p \in Pages : UpToDate(p, model) /\ ~UpToDate(p, model)'
          => \/ page'[p] # page[p] \/ model' # model
             \/ \E f \in FilesOf(p) : texts'[f] # texts[f]
             \/ \E x \in Passes : pass[x].at = "resetting" /\ pass[x].model # model]_vars

LEMMA OthersGoOn ==
    ASSUME Typed, NEW x \in Passes, PassStep(x) \/ EmbedFails(x) \/ PassCrashes(x)
    PROVE  \A y \in Passes \ {x} : pass'[y] = pass[y]
<1>1. \E s : pass' = [pass EXCEPT ![x] = s]
  <2> USE DEF Typed
  <2>1. CASE SkipPass(x) \/ NothingStale(x) \/ FinishPass(x) \/ PassCrashes(x)
    BY <2>1 DEF SkipPass, NothingStale, FinishPass, PassCrashes, EndPass
  <2>2. CASE BeginPass(x) \/ LoadConfig(x) \/ ResetIfModelChanged(x) \/ NextBatch(x)
    BY <2>2 DEF BeginPass, LoadConfig, ResetIfModelChanged, NextBatch
  <2>3. CASE SelectBatch(x) \/ NextPage(x) \/ CloseBatch(x) \/ Embedded(x)
    BY <2>3, ZenonT(40) DEF SelectBatch, NextPage, CloseBatch, Embedded
  <2>4. CASE EmbedRefused(x) \/ EmbedFails(x) \/ StorePage(x) \/ StoreFails(x) \/ SkipRefused(x)
    BY <2>4 DEF EmbedRefused, EmbedFails, StorePage, StoreFails, SkipRefused
  <2> QED
    BY <2>1, <2>2, <2>3, <2>4 DEF PassStep
<1> QED
  BY <1>1 DEF Typed

\* What the steps of a pass make of its work and of the records.
LEMMA WorkOfSteps ==
    ASSUME Typed, NEW x \in Passes, InTurn(pass[x]),
           PassStep(x) \/ EmbedFails(x) \/ PassCrashes(x)
    PROVE  /\ InTurn(pass'[x])
           /\ \/ /\ UNCHANGED state
                 /\ \/ ToDo(pass'[x]) = {}
                    \/ ToDo(pass'[x]) \subseteq ToDo(pass[x]) /\ pass'[x].model = pass[x].model
              \/ /\ UNCHANGED state /\ pass'[x].model = pass[x].model
                 /\ \A i \in ToDo(pass'[x]) : ~UpToDate(i.page, pass[x].model)
              \/ ResetIfModelChanged(x) /\ ToDo(pass'[x]) = ToDo(pass[x])
                                        /\ pass'[x].model = pass[x].model
              \/ /\ pass[x].at \in Compared /\ pass'[x].model = pass[x].model
                 /\ \E i \in ToDo(pass[x]), kind \in {"indexed", "skipped"} : \E files :
                       StoreAs(x, i, kind, files) /\ ToDo(pass'[x]) \subseteq ToDo(pass[x]) \ {i}
<1> USE DEF InTurn, ToDo
<1>1. pass[x] \in Pass /\ pass \in [Passes -> Pass]
  BY DEF Typed
<1>2. CASE SkipPass(x) \/ NothingStale(x) \/ FinishPass(x) \/ PassCrashes(x)
  <2>1. EndPass(x) /\ UNCHANGED state
    BY <1>2 DEF SkipPass, NothingStale, FinishPass, PassCrashes, indexVars
  <2>2. pass'[x] = IdlePass
    BY <1>1, <2>1 DEF EndPass
  <2> QED
    BY <2>1, <2>2 DEF IdlePass
<1>3. CASE BeginPass(x)
  BY <1>1, <1>3 DEF BeginPass, indexVars, Pass
<1>4. CASE LoadConfig(x)
  BY <1>1, <1>4 DEF LoadConfig, indexVars, Pass
<1>5. CASE ResetIfModelChanged(x)
  BY <1>1, <1>5 DEF ResetIfModelChanged, Pass
<1>6. CASE SelectBatch(x)
  <2>1. PICK ps \in SUBSET StalePages(pass[x].model) :
          pass' = [pass EXCEPT ![x].at = "next", ![x].refused = {}, ![x].done = FALSE,
                    ![x].batch = {[page |-> p, updated |-> page[p]] : p \in ps}]
    BY <1>6 DEF SelectBatch
  <2>2. /\ UNCHANGED state /\ pass[x].at = "selecting"
        /\ pass'[x].at = "next" /\ pass'[x].model = pass[x].model /\ pass'[x].item = pass[x].item
        /\ pass'[x].refused = {}
        /\ pass'[x].batch = {[page |-> p, updated |-> page[p]] : p \in ps}
    BY <1>1, <1>6, <2>1 DEF SelectBatch, indexVars, Pass
  <2>3. ToDo(pass'[x]) = {[page |-> p, updated |-> page[p]] : p \in ps}
    BY <2>2
  <2>4. \A i \in ToDo(pass'[x]) : i.page \in ps /\ i = [page |-> i.page, updated |-> page[i.page]]
    BY <2>3
  <2>5. \A p \in ps : ~UpToDate(p, pass[x].model)
    BY DEF StalePages
  <2>6. InTurn(pass'[x])
    BY <2>2, <2>4
  <2> QED
    BY <2>2, <2>4, <2>5, <2>6
<1>7. CASE NextPage(x)
  <2>1. PICK i \in pass[x].batch :
          /\ pass'[x].at = "embedding" /\ pass'[x].item = {i}
          /\ pass'[x].batch = pass[x].batch \ {i} /\ pass'[x].refused = pass[x].refused
          /\ pass'[x].model = pass[x].model
    BY <1>1, <1>7 DEF NextPage, Pass
  <2>2. UNCHANGED state /\ pass[x].at = "next"
    BY <1>7 DEF NextPage, indexVars
  <2> QED
    BY <2>1, <2>2
<1>8. CASE CloseBatch(x)
  BY <1>1, <1>8 DEF CloseBatch, indexVars, Pass
<1>9. CASE Embedded(x)
  BY <1>1, <1>9 DEF Embedded, indexVars, Pass
<1>10. CASE EmbedRefused(x)
  <2>1. /\ pass'[x].at \in {"closing", "next"} /\ pass'[x].item = {}
        /\ pass'[x].refused = pass[x].refused \cup pass[x].item
        /\ pass'[x].batch = pass[x].batch /\ pass'[x].model = pass[x].model
        /\ UNCHANGED state
    BY <1>1, <1>10 DEF EmbedRefused, indexVars, Pass
  <2> QED
    BY <2>1
<1>11. CASE EmbedFails(x)
  BY <1>1, <1>11 DEF EmbedFails, indexVars, Pass
<1>12. CASE StorePage(x)
  <2>1. PICK i \in pass[x].item : StoreAs(x, i, "indexed", pass[x].passages)
    BY <1>12 DEF StorePage
  <2>2. /\ pass[x].at = "storing" /\ pass'[x].at = "next" /\ pass'[x].item = {}
        /\ pass'[x].batch = pass[x].batch /\ pass'[x].refused = pass[x].refused
        /\ pass'[x].model = pass[x].model
    BY <1>1, <1>12 DEF StorePage, Pass
  <2> QED
    BY <2>1, <2>2 DEF Compared
<1>13. CASE StoreFails(x)
  BY <1>1, <1>13 DEF StoreFails, indexVars, Pass
<1>14. CASE SkipRefused(x)
  <2>1. PICK i \in pass[x].refused : /\ StoreAs(x, i, "skipped", NoPassages)
                                     /\ pass' = [pass EXCEPT ![x].refused = @ \ {i}]
    BY <1>14 DEF SkipRefused
  <2>2. /\ pass[x].at = "closing" /\ pass'[x].at = "closing" /\ pass'[x].item = pass[x].item
        /\ pass'[x].batch = pass[x].batch /\ pass'[x].refused = pass[x].refused \ {i}
        /\ pass'[x].model = pass[x].model
    BY <1>1, <1>14, <2>1 DEF SkipRefused, Pass
  <2> QED
    BY <2>1, <2>2 DEF Compared
<1>15. CASE NextBatch(x)
  BY <1>1, <1>15 DEF NextBatch, indexVars, Pass
<1> QED
  BY <1>2, <1>3, <1>4, <1>5, <1>6, <1>7, <1>8, <1>9, <1>10, <1>11, <1>12, <1>13, <1>14, <1>15
     DEF PassStep

LEMMA InitInTurn == Init => PassesInTurn /\ WorkIsStale
  BY DEF Init, PassesInTurn, WorkIsStale, InTurn, ToDo, IdlePass

\* The steps that are not an indexing pass's leave the passes as they are, or end
\* them all.
LEMMA PassesRest ==
    ASSUME [Next]_vars, ~\E x \in Passes : PassStep(x) \/ EmbedFails(x) \/ PassCrashes(x)
    PROVE  UNCHANGED pass \/ pass' = [x \in Passes |-> IdlePass]
<1> USE DEF contentVars, indexVars, adminVars, workerVars, boundVars, ReaderUnchanged
<1>1. ASSUME NEW r \in Readers, ReaderStep(r) \/ ReadFails(r) \/ ReaderCrashes(r)
      PROVE  UNCHANGED pass
  BY <1>1 DEF ReaderStep, BeginReader, StartReader, ForgetUnlinked, SelectFiles, NextFile,
              ReadFile, ReadFails, SaveText, CloseFiles, ReaderCrashes
<1>2. ASSUME \/ \E p \in Pages : \E ls \in SUBSET FilesOf(p) : Edit(p, ls)
             \/ \E w \in Writers : \E f \in Files : LoadFile(w, f)
             \/ \E w \in Writers : WriterStep(w) \/ GiveUpFile(w) \/ FailFile(w)
             \/ \E m \in Models : ChangeModel(m)
             \/ SetPaused
             \/ \E k \in {"index", "text"} : Expire(k) \/ Lapse(k)
             \/ \E a \in Passes \cup Readers : TimeUp(a)
      PROVE  UNCHANGED pass
  BY <1>2 DEF Edit, LoadFile, WriterStep, PutFile, CommitFile, GiveUpFile, FailFile,
              WriterUnchanged, ChangeModel, SetPaused,
              Expire, Lapse, TimeUp
<1>3. WorkerDies => pass' = [x \in Passes |-> IdlePass]
  BY DEF WorkerDies
<1>4. UNCHANGED vars => UNCHANGED pass
  BY DEF vars
<1> QED
  BY <1>1, <1>2, <1>3, <1>4 DEF Next

LEMMA StepInTurn == ASSUME Typed, PassesInTurn, [Next]_vars PROVE PassesInTurn'
<1> USE DEF PassesInTurn
<1>1. ASSUME NEW x \in Passes, PassStep(x) \/ EmbedFails(x) \/ PassCrashes(x)
      PROVE  PassesInTurn'
  <2>1. InTurn(pass'[x]) /\ \A y \in Passes \ {x} : pass'[y] = pass[y]
    BY <1>1, WorkOfSteps, OthersGoOn
  <2> QED
    BY <2>1
<1>2. InTurn(IdlePass)
  BY DEF InTurn, ToDo, IdlePass
<1> QED
  BY <1>1, <1>2, PassesRest

\* What the other steps make of the records: nothing, an edit, or a page's record
\* that goes as a file of it is read or forgotten.
LEMMA RecordsRest ==
    ASSUME Typed, [Next]_vars, ~\E x \in Passes : PassStep(x) \/ EmbedFails(x) \/ PassCrashes(x),
           NEW p \in Pages
    PROVE  state'[p] = state[p] \/ state'[p] = NoState
<1> USE DEF contentVars, indexVars, adminVars, workerVars, boundVars, ReaderUnchanged
<1>1. ASSUME NEW r \in Readers, ReaderStep(r) \/ ReadFails(r) \/ ReaderCrashes(r)
      PROVE  UNCHANGED state \/ \E fs : ForgetPassages(fs)
  BY <1>1 DEF ReaderStep, BeginReader, StartReader, ForgetUnlinked, SelectFiles, NextFile,
              ReadFile, ReadFails, SaveText, CloseFiles, ReaderCrashes
<1>2. ASSUME NEW fs, ForgetPassages(fs) PROVE state'[p] \in {state[p], NoState}
  BY <1>2 DEF ForgetPassages
<1>3. ASSUME \/ \E q \in Pages : \E ls \in SUBSET FilesOf(q) : Edit(q, ls)
             \/ \E w \in Writers : \E f \in Files : LoadFile(w, f)
             \/ \E w \in Writers : WriterStep(w) \/ GiveUpFile(w) \/ FailFile(w)
             \/ \E m \in Models : ChangeModel(m)
             \/ SetPaused
             \/ \E k \in {"index", "text"} : Expire(k) \/ Lapse(k)
             \/ \E a \in Passes \cup Readers : TimeUp(a)
             \/ WorkerDies
             \/ UNCHANGED vars
      PROVE  UNCHANGED state
  BY <1>3 DEF Edit, LoadFile, WriterStep, PutFile, CommitFile, GiveUpFile, FailFile,
              WriterUnchanged, ChangeModel, SetPaused,
              Expire, Lapse, TimeUp, WorkerDies, vars
<1> QED
  BY <1>1, <1>2, <1>3 DEF Next

LEMMA StepStale ==
    ASSUME Typed, LocksInv, lapses = 0 => lapsed = {}, NothingAhead, PassesInTurn, WorkIsStale,
           [Next]_vars
    PROVE  WorkIsStale'
<1> SUFFICES ASSUME lapses' = 0, NEW x \in Passes, NEW i \in ToDo(pass'[x])
             PROVE  ~UpToDate(i.page, pass[x].model)'
  BY DEF WorkIsStale
<1> DEFINE m == pass[x].model
<1>1. lapses = 0 /\ \A y, z \in Indexing : y = z
  BY NothingLapsed, OnePassAtATime
<1>2. Typed'
  BY StepTyped
<1>3. i.page \in Pages /\ pass'[x].model \in Models
  BY <1>2 DEF Typed, Pass, Item, ToDo
<1>4. CASE page'[i.page] # page[i.page]
  BY <1>3, <1>4, EditStales DEF UpToDate
<1>5. ASSUME page'[i.page] = page[i.page],
             \/ state'[i.page] = state[i.page] /\ ~UpToDate(i.page, pass'[x].model)
             \/ state'[i.page] = NoState
      PROVE  ~UpToDate(i.page, pass[x].model)'
  BY <1>5 DEF UpToDate, NoState
<1>6. ASSUME NEW y \in Passes, PassStep(y) \/ EmbedFails(y) \/ PassCrashes(y),
             page'[i.page] = page[i.page]
      PROVE  ~UpToDate(i.page, pass[x].model)'
  <2>1. pass'[x].at # "idle"
    BY StepInTurn DEF PassesInTurn, InTurn
  <2>2. CASE x # y
    <3>1. pass'[x] = pass[x]
      BY <1>6, <2>2, OthersGoOn
    <3>2. pass[y].at = "idle"
      BY <1>1, <2>1, <2>2, <3>1 DEF Indexing
    <3>3. BeginPass(y)
      BY <1>6, <3>2 DEF PassStep, BeginPass, SkipPass, LoadConfig, ResetIfModelChanged, SelectBatch,
           NothingStale, NextPage, CloseBatch, Embedded, EmbedRefused, EmbedFails, StorePage,
           StoreFails, SkipRefused, NextBatch, FinishPass, PassCrashes, Indexing
    <3>4. UNCHANGED state
      BY <3>3 DEF BeginPass, indexVars
    <3> QED
      BY <1>1, <1>5, <1>6, <3>1, <3>4 DEF WorkIsStale
  <2>3. CASE x = y
    <3>1. InTurn(pass[x])
      BY DEF PassesInTurn
    <3>2. CASE /\ UNCHANGED state
               /\ ToDo(pass'[x]) \subseteq ToDo(pass[x]) /\ pass'[x].model = m
      BY <1>1, <1>5, <1>6, <3>2 DEF WorkIsStale
    <3>3. CASE /\ UNCHANGED state /\ pass'[x].model = m
               /\ \A j \in ToDo(pass'[x]) : ~UpToDate(j.page, m)
      BY <1>5, <1>6, <3>3
    <3>4. CASE ResetIfModelChanged(x) /\ ToDo(pass'[x]) = ToDo(pass[x]) /\ pass'[x].model = m
      <4>1. state'[i.page] \in {state[i.page], NoState}
        BY <1>3, <3>4 DEF ResetIfModelChanged
      <4> QED
        BY <1>1, <1>5, <1>6, <3>4, <4>1 DEF WorkIsStale
    <3>5. ASSUME NEW j \in ToDo(pass[x]), NEW kind, NEW files, StoreAs(x, j, kind, files),
                 ToDo(pass'[x]) \subseteq ToDo(pass[x]) \ {j}, pass'[x].model = m
          PROVE  ~UpToDate(i.page, pass[x].model)'
      <4>1. i \in ToDo(pass[x]) /\ i # j /\ i.page # j.page
        BY <3>1, <3>5 DEF InTurn
      <4>2. state'[i.page] = state[i.page]
        BY <1>3, <3>5, <4>1 DEF StoreAs, Typed
      <4> QED
        BY <1>1, <1>5, <1>6, <3>5, <4>1, <4>2 DEF WorkIsStale
    <3> QED
      BY <1>6, <2>3, <3>1, <3>2, <3>3, <3>4, <3>5, WorkOfSteps
  <2> QED
    BY <2>2, <2>3
<1>7. ASSUME ~\E y \in Passes : PassStep(y) \/ EmbedFails(y) \/ PassCrashes(y),
             page'[i.page] = page[i.page]
      PROVE  ~UpToDate(i.page, pass[x].model)'
  <2>1. pass'[x] = pass[x]
    <3>1. ToDo(IdlePass) = {}
      BY DEF ToDo, IdlePass
    <3> QED
      BY <1>7, <3>1, PassesRest
  <2> QED
    BY <1>1, <1>3, <1>5, <1>7, <2>1, RecordsRest DEF WorkIsStale
<1> QED
  BY <1>4, <1>6, <1>7

\* What an extraction pass in state s still has to read or to record.
ToRead(s) == s.batch \cup s.item

\* An extraction pass reads one file after the other, and none of its batch twice.
ReadsInTurn(s) ==
    /\ s.at \notin {"next", "reading", "saving"} => ToRead(s) = {}
    /\ s.at \notin {"reading", "saving"} => s.item = {}
    /\ \A i, j \in ToRead(s) : i.file = j.file => i = j
    /\ s.item \cap s.batch = {}
ReadersInTurn == \A r \in Readers : ReadsInTurn(reader[r])

\* As long as no lock has lapsed, what is to be read has not been read for that
\* revision.
ReadsArePending ==
    lapses = 0 =>
        \A r \in Readers : \A j \in ToRead(reader[r]) : texts[j.file].revision # j.revision

\* What the steps of an extraction pass make of its work, the readings and the
\* records.
LEMMA ReadingOfSteps ==
    ASSUME Typed, NEW r \in Readers, ReadsInTurn(reader[r]),
           ReaderStep(r) \/ ReadFails(r) \/ ReaderCrashes(r)
    PROVE  /\ ReadsInTurn(reader'[r])
           /\ \A s \in Readers \ {r} : reader'[s] = reader[s]
           /\ \/ UNCHANGED <<texts, state>> /\ ToRead(reader'[r]) \subseteq ToRead(reader[r])
              \/ /\ UNCHANGED <<texts, state>>
                 /\ ToRead(reader'[r]) = {[file |-> f, revision |-> revision[f]] : f \in Pending}
              \/ ForgetUnlinked(r) /\ ToRead(reader'[r]) = {}
              \/ \E j \in ToRead(reader[r]) :
                    /\ ForgetPassages({j.file})
                    /\ texts' = [texts EXCEPT ![j.file] =
                                    [revision |-> j.revision, content |-> reader[r].content]]
                    /\ ToRead(reader'[r]) \subseteq ToRead(reader[r]) \ {j}
<1> USE DEF ReadsInTurn, ToRead, indexVars
<1>1. reader[r] \in Reader /\ reader \in [Readers -> Reader]
  BY DEF Typed
<1>2. ASSUME EndReader(r), UNCHANGED <<texts, state>>
      PROVE  /\ ReadsInTurn(reader'[r]) /\ ToRead(reader'[r]) = {}
             /\ \A s \in Readers \ {r} : reader'[s] = reader[s]
  BY <1>1, <1>2 DEF EndReader, IdleReader
<1>3. CASE BeginReader(r)
  BY <1>1, <1>3 DEF BeginReader, Reader
<1>4. CASE StartReader(r)
  <2>1. CASE paused
    BY <1>2, <1>4, <2>1 DEF StartReader
  <2>2. CASE ~paused
    BY <1>1, <1>4, <2>2 DEF StartReader, Reader
  <2> QED
    BY <2>1, <2>2
<1>5. CASE ForgetUnlinked(r)
  BY <1>1, <1>5 DEF ForgetUnlinked, Reader
<1>6. CASE SelectFiles(r)
  <2>1. /\ reader'[r].batch = {[file |-> f, revision |-> revision[f]] : f \in Pending}
        /\ reader[r].at = "selecting" /\ reader'[r].item = reader[r].item
        /\ reader'[r].at = "next"
        /\ \A s \in Readers \ {r} : reader'[s] = reader[s]
        /\ UNCHANGED <<texts, state>>
    BY <1>1, <1>6 DEF SelectFiles, Reader
  <2> QED
    BY <2>1
<1>7. CASE NextFile(r)
  <2>1. PICK j \in reader[r].batch :
          /\ reader'[r].at = "reading" /\ reader'[r].item = {j}
          /\ reader'[r].batch = reader[r].batch \ {j}
          /\ \A s \in Readers \ {r} : reader'[s] = reader[s]
    BY <1>1, <1>7 DEF NextFile, Reader
  <2>2. reader[r].at = "next" /\ UNCHANGED <<texts, state>>
    BY <1>7 DEF NextFile
  <2> QED
    BY <2>1, <2>2
<1>8. CASE ReadFile(r)
  BY <1>1, <1>8 DEF ReadFile, Reader
<1>9. CASE ReadFails(r)
  BY <1>1, <1>9 DEF ReadFails, Reader
<1>10. CASE SaveText(r)
  <2>1. PICK j \in reader[r].item :
          /\ ForgetPassages({j.file})
          /\ texts' = [texts EXCEPT ![j.file] =
                          [revision |-> j.revision, content |-> reader[r].content]]
    BY <1>10 DEF SaveText
  <2>2. /\ reader[r].at = "saving" /\ reader'[r].at = "next" /\ reader'[r].item = {}
        /\ reader'[r].batch = reader[r].batch
        /\ \A s \in Readers \ {r} : reader'[s] = reader[s]
    BY <1>1, <1>10 DEF SaveText, Reader
  <2> QED
    BY <2>1, <2>2
<1>11. CASE CloseFiles(r)
  <2>1. CASE reader[r].done /\ r \notin late
    BY <1>1, <1>11, <2>1 DEF CloseFiles, Reader
  <2>2. CASE ~(reader[r].done /\ r \notin late)
    BY <1>2, <1>11, <2>2 DEF CloseFiles
  <2> QED
    BY <2>1, <2>2
<1>12. CASE ReaderCrashes(r)
  BY <1>2, <1>12 DEF ReaderCrashes
<1> QED
  BY <1>3, <1>4, <1>5, <1>6, <1>7, <1>8, <1>9, <1>10, <1>11, <1>12 DEF ReaderStep

\* The steps that are not an extraction pass's leave the extraction passes and the
\* readings as they are, or end all passes.
LEMMA ReadersRest ==
    ASSUME [Next]_vars, ~\E r \in Readers : ReaderStep(r) \/ ReadFails(r) \/ ReaderCrashes(r)
    PROVE  /\ UNCHANGED texts
           /\ UNCHANGED reader \/ reader' = [r \in Readers |-> IdleReader]
<1> USE DEF contentVars, indexVars, adminVars, workerVars, boundVars, PassUnchanged
<1>1. ASSUME NEW x \in Passes, PassStep(x) \/ EmbedFails(x) \/ PassCrashes(x)
      PROVE  UNCHANGED <<texts, reader>>
  BY <1>1 DEF PassStep, BeginPass, SkipPass, LoadConfig, ResetIfModelChanged, SelectBatch,
       NothingStale, NextPage, CloseBatch, Embedded, EmbedRefused, EmbedFails, StorePage,
       StoreFails, StoreAs, SkipRefused, NextBatch, FinishPass, PassCrashes
<1>2. ASSUME \/ \E p \in Pages : \E ls \in SUBSET FilesOf(p) : Edit(p, ls)
             \/ \E w \in Writers : \E f \in Files : LoadFile(w, f)
             \/ \E w \in Writers : WriterStep(w) \/ GiveUpFile(w) \/ FailFile(w)
             \/ \E m \in Models : ChangeModel(m)
             \/ SetPaused
             \/ \E k \in {"index", "text"} : Expire(k) \/ Lapse(k)
             \/ \E a \in Passes \cup Readers : TimeUp(a)
             \/ UNCHANGED vars
      PROVE  UNCHANGED <<texts, reader>>
  BY <1>2 DEF Edit, LoadFile, WriterStep, PutFile, CommitFile, GiveUpFile, FailFile,
              WriterUnchanged, ChangeModel, SetPaused,
              Expire, Lapse, TimeUp, vars
<1>3. WorkerDies => UNCHANGED texts /\ reader' = [r \in Readers |-> IdleReader]
  BY DEF WorkerDies
<1> QED
  BY <1>1, <1>2, <1>3 DEF Next

LEMMA InitReads == Init => ReadersInTurn /\ ReadsArePending
  BY DEF Init, ReadersInTurn, ReadsInTurn, ReadsArePending, ToRead, IdleReader

LEMMA StepReadsInTurn == ASSUME Typed, ReadersInTurn, [Next]_vars PROVE ReadersInTurn'
<1> USE DEF ReadersInTurn
<1>1. ASSUME NEW r \in Readers, ReaderStep(r) \/ ReadFails(r) \/ ReaderCrashes(r)
      PROVE  ReadersInTurn'
  BY <1>1, ReadingOfSteps
<1>2. ReadsInTurn(IdleReader)
  BY DEF ReadsInTurn, ToRead, IdleReader
<1> QED
  BY <1>1, <1>2, ReadersRest

LEMMA OneReaderAtATime ==
    ASSUME LocksInv, lapsed = {}
    PROVE  \A r, s \in Reading : r = s
  BY DEF LocksInv, UnlockedOnlyByLapse

\* What is to be read after a step was to be read before, and its reading has not
\* changed; or it has just been found not to have been read.
LEMMA WhatIsToRead ==
    ASSUME Typed, LocksInv, lapses = 0 => lapsed = {}, ReadersInTurn, [Next]_vars, lapses' = 0,
           NEW r \in Readers, NEW j \in ToRead(reader'[r])
    PROVE  /\ j.file \in Files /\ texts'[j.file] = texts[j.file]
           /\ \/ j \in ToRead(reader[r])
              \/ j.revision = revision[j.file] /\ ~TextIsCurrent(j.file)
<1>1. lapses = 0 /\ \A q, s \in Reading : q = s
  BY NothingLapsed, OneReaderAtATime
<1>2. Typed'
  BY StepTyped
<1>3. j.file \in Files
  BY <1>2 DEF Typed, Reader, Job, ToRead
<1>4. ReadsInTurn(reader[r]) /\ ReadsInTurn(reader'[r])
  BY StepReadsInTurn DEF ReadersInTurn
<1>5. ASSUME NEW s \in Readers, ReaderStep(s) \/ ReadFails(s) \/ ReaderCrashes(s), s # r
      PROVE  reader'[r] = reader[r] /\ UNCHANGED texts
  <2>1. reader'[r] = reader[r] /\ reader[r].at # "idle"
    BY <1>4, <1>5, ReadingOfSteps DEF ReadersInTurn, ReadsInTurn
  <2>2. reader[s].at = "idle"
    BY <1>1, <1>5, <2>1 DEF Reading
  <2>3. BeginReader(s)
    BY <1>5, <2>2 DEF ReaderStep, BeginReader, StartReader, ForgetUnlinked, SelectFiles, NextFile,
                ReadFile, ReadFails, SaveText, CloseFiles, ReaderCrashes, Reading
  <2> QED
    BY <2>1, <2>3 DEF BeginReader, indexVars
<1>6. CASE ReaderStep(r) \/ ReadFails(r) \/ ReaderCrashes(r)
  <2>1. CASE UNCHANGED <<texts, state>> /\ ToRead(reader'[r]) \subseteq ToRead(reader[r])
    BY <1>3, <2>1
  <2>2. CASE /\ UNCHANGED <<texts, state>>
             /\ ToRead(reader'[r]) = {[file |-> f, revision |-> revision[f]] : f \in Pending}
    BY <1>3, <2>2 DEF Pending
  <2>3. CASE ToRead(reader'[r]) = {}
    BY <2>3
  <2>4. ASSUME NEW i \in ToRead(reader[r]),
               texts' = [texts EXCEPT ![i.file] =
                            [revision |-> i.revision, content |-> reader[r].content]],
               ToRead(reader'[r]) \subseteq ToRead(reader[r]) \ {i}
        PROVE  j \in ToRead(reader[r]) /\ texts'[j.file] = texts[j.file]
    BY <1>3, <1>4, <2>4 DEF ReadsInTurn, Typed
  <2> QED
    BY <1>3, <1>4, <1>6, <2>1, <2>2, <2>3, <2>4, ReadingOfSteps
<1>7. CASE ~\E s \in Readers : ReaderStep(s) \/ ReadFails(s) \/ ReaderCrashes(s)
  <2>1. ToRead(IdleReader) = {}
    BY DEF ToRead, IdleReader
  <2> QED
    BY <1>3, <1>7, <2>1, ReadersRest
<1> QED
  BY <1>3, <1>5, <1>6, <1>7

LEMMA StepPending ==
    ASSUME Typed, LocksInv, lapses = 0 => lapsed = {}, ReadersInTurn, ReadsArePending, [Next]_vars
    PROVE  ReadsArePending'
  BY WhatIsToRead, NothingLapsed DEF ReadsArePending, TextIsCurrent

LEMMA IndexedStep ==
    ASSUME Typed, LocksInv, lapses = 0 => lapsed = {}, RecordsOfOneModel, NothingAhead,
           PassesInTurn, WorkIsStale, ReadersInTurn, ReadsArePending, [Next]_vars, lapses' = 0,
           NEW p \in Pages, UpToDate(p, model), page'[p] = page[p], model' = model,
           \A f \in FilesOf(p) : texts'[f] = texts[f],
           \A x \in Passes : pass[x].at = "resetting" => pass[x].model = model
    PROVE  UpToDate(p, model)'
<1>1. lapses = 0
  BY NothingLapsed
<1>2. state'[p] = state[p] => UpToDate(p, model)'
  BY DEF UpToDate
<1>3. ASSUME NEW x \in Passes, PassStep(x) \/ EmbedFails(x) \/ PassCrashes(x)
      PROVE  state'[p] = state[p]
  <2>1. CASE UNCHANGED state
    BY <2>1
  <2>2. CASE ResetIfModelChanged(x)
    <3>1. pass[x].model = model
      BY <2>2 DEF ResetIfModelChanged
    <3>2. \A q \in Pages : state[q].kind # "none" => state[q].model = model
      BY <1>1 DEF RecordsOfOneModel, UpToDate
    <3> QED
      BY <2>2, <3>1, <3>2 DEF ResetIfModelChanged
  <2>3. ASSUME pass[x].at \in Compared, NEW i \in ToDo(pass[x]), NEW kind, NEW files,
               StoreAs(x, i, kind, files)
        PROVE  state'[p] = state[p]
    <3>1. pass[x].model = model
      BY <1>1, <2>3 DEF RecordsOfOneModel, UpToDate
    <3>2. i.page # p
      BY <1>1, <2>3, <3>1 DEF WorkIsStale
    <3> QED
      BY <2>3, <3>2 DEF StoreAs, Typed
  <2> QED
    BY <1>3, <2>1, <2>2, <2>3, WorkOfSteps DEF PassesInTurn
<1>4. ASSUME NEW r \in Readers, ReaderStep(r) \/ ReadFails(r) \/ ReaderCrashes(r)
      PROVE  state'[p] = state[p]
  <2>1. ReadsInTurn(reader[r])
    BY DEF ReadersInTurn
  <2>2. CASE ForgetUnlinked(r)
    <3> DEFINE gone == {f \in Files : texts[f] # NoText /\ f \notin linked}
    <3>1. /\ ForgetPassages(gone)
          /\ texts' = [f \in Files |-> IF f \in gone THEN NoText ELSE texts[f]]
      BY <2>2 DEF ForgetUnlinked
    <3>2. \A f \in gone : PageOf[f] # p
      BY <3>1 DEF FilesOf
    <3> QED
      BY <3>1, <3>2 DEF ForgetPassages, Typed
  <2>3. ASSUME NEW j \in ToRead(reader[r]), ForgetPassages({j.file}),
               texts' = [texts EXCEPT ![j.file] =
                            [revision |-> j.revision, content |-> reader[r].content]]
        PROVE  state'[p] = state[p]
    <3>1. j.file \in Files
      BY DEF Typed, Reader, Job, ToRead
    <3>2. texts'[j.file].revision # texts[j.file].revision
      BY <1>1, <2>3, <3>1 DEF ReadsArePending, Typed
    <3>3. PageOf[j.file] # p
      BY <3>1, <3>2 DEF FilesOf
    <3> QED
      BY <2>3, <3>3 DEF ForgetPassages, Typed
  <2> QED
    BY <1>4, <2>1, <2>2, <2>3, ReadingOfSteps
<1>5. CASE /\ ~\E x \in Passes : PassStep(x) \/ EmbedFails(x) \/ PassCrashes(x)
           /\ ~\E r \in Readers : ReaderStep(r) \/ ReadFails(r) \/ ReaderCrashes(r)
  <2>1. UNCHANGED state
    BY <1>5 DEF Next, Edit, LoadFile, WriterStep, PutFile, CommitFile, GiveUpFile, FailFile,
                WriterUnchanged, ChangeModel,
                SetPaused, Expire, Lapse, TimeUp, WorkerDies, vars, indexVars
  <2> QED
    BY <1>2, <2>1
<1> QED
  BY <1>2, <1>3, <1>4, <1>5

-----------------------------------------------------------------------------
(* What a reading is a reading of.                                         *)

\* Content n, read for revision v of file f, is no older than what the last
\* finished replacement stored, if v is still the row's revision and no two
\* replacements gave the file one revision.
ReadingOf(f, v, n) == f \notin clashed /\ v = revision[f] /\ n # 0 => n >= saved[f]

\* The inductive invariant: a finished replacement stored what is there or has
\* been there, no reading is from a later revision, a pass reads one file at a
\* time, and readings on their way to being recorded are as good as recorded ones.
ReadingsInv ==
    /\ \A f \in Files : saved[f] <= blob[f]
    /\ \A w \in Writers : \A f, g \in writer[w].file : f = g
    /\ \A w \in Writers : writer[w].at = "put" =>
            \A f \in writer[w].file : writer[w].content <= blob[f]
    /\ \A f \in Files \ clashed : texts[f].revision <= revision[f]
    /\ \A f \in Files : ReadingOf(f, texts[f].revision, texts[f].content)
    /\ \A r \in Readers : \A j \in reader[r].batch \cup reader[r].item :
            j.file \notin clashed => j.revision <= revision[j.file]
    /\ \A r \in Readers : \A i, j \in reader[r].item : i = j
    /\ \A r \in Readers : reader[r].at = "saving" =>
            \A j \in reader[r].item : ReadingOf(j.file, j.revision, reader[r].content)

LEMMA ReadingsSuffice == ReadingsInv => TextIsOfSignature
  BY DEF ReadingsInv, ReadingOf, TextIsOfSignature, TextIsCurrent

LEMMA InitReadings == Init => ReadingsInv
  BY DEF Init, ReadingsInv, ReadingOf, IdleWriter, IdleReader, NoText

\* A clash is not forgotten.
LEMMA ClashesStay == ASSUME [Next]_vars PROVE clashed \subseteq clashed'
<1> USE DEF contentVars, PassUnchanged, ReaderUnchanged
<1>1. ASSUME NEW x \in Passes, PassStep(x) \/ EmbedFails(x) \/ PassCrashes(x)
      PROVE  UNCHANGED clashed
  BY <1>1 DEF PassStep, BeginPass, SkipPass, LoadConfig, ResetIfModelChanged, SelectBatch,
       NothingStale, NextPage, CloseBatch, Embedded, EmbedRefused, EmbedFails, StorePage,
       StoreFails, SkipRefused, NextBatch, FinishPass, PassCrashes
<1>2. ASSUME NEW r \in Readers, ReaderStep(r) \/ ReadFails(r) \/ ReaderCrashes(r)
      PROVE  UNCHANGED clashed
  BY <1>2 DEF ReaderStep, BeginReader, StartReader, ForgetUnlinked, SelectFiles, NextFile,
              ReadFile, ReadFails, SaveText, CloseFiles, ReaderCrashes
<1>3. ASSUME NEW w \in Writers, CommitFile(w) PROVE clashed \subseteq clashed'
  BY <1>3 DEF CommitFile
<1>4. ASSUME \/ \E p \in Pages : \E ls \in SUBSET FilesOf(p) : Edit(p, ls)
             \/ \E w \in Writers : \E f \in Files : LoadFile(w, f)
             \/ \E w \in Writers : PutFile(w) \/ GiveUpFile(w) \/ FailFile(w)
             \/ \E m \in Models : ChangeModel(m)
             \/ SetPaused
             \/ \E k \in {"index", "text"} : Expire(k) \/ Lapse(k)
             \/ \E a \in Passes \cup Readers : TimeUp(a)
             \/ WorkerDies
             \/ UNCHANGED vars
      PROVE  UNCHANGED clashed
  BY <1>4 DEF Edit, LoadFile, PutFile, GiveUpFile, FailFile, ChangeModel, SetPaused,
              Expire, Lapse, TimeUp, WorkerDies, vars
<1> QED
  BY <1>1, <1>2, <1>3, <1>4 DEF Next, WriterStep

LEMMA StepReadings ==
    ASSUME Typed, ReadingsInv, [Next]_vars
    PROVE  ReadingsInv'
<1> USE DEF ReadingsInv, ReadingOf
<1>1. CASE UNCHANGED <<blob, revision, writer, saved, clashed, texts, reader>>
  BY <1>1
<1>2. ASSUME NEW w \in Writers,
             \A v \in Writers \ {w} : writer'[v] = writer[v],
             writer'[w].at # "put", \A f, g \in writer'[w].file : f = g,
             UNCHANGED <<blob, revision, saved, clashed, texts, reader>>
      PROVE  ReadingsInv'
  BY <1>2
<1>3. ASSUME NEW w \in Writers, (\E f \in Files : LoadFile(w, f)) \/ GiveUpFile(w) \/ FailFile(w)
      PROVE  ReadingsInv'
  BY <1>2, <1>3 DEF LoadFile, GiveUpFile, FailFile, WriterUnchanged, IdleWriter, Typed, indexVars,
                    workerVars
<1>4. ASSUME NEW w \in Writers, PutFile(w) PROVE ReadingsInv'
  <2>1. PICK f \in writer[w].file :
          /\ blob' = [blob EXCEPT ![f] = @ + 1]
          /\ writer' = [writer EXCEPT ![w].at = "put", ![w].content = blob[f] + 1]
    BY <1>4 DEF PutFile
  <2>2. UNCHANGED <<revision, saved, clashed, texts, reader>>
    BY <1>4 DEF PutFile, WriterUnchanged, indexVars, workerVars
  <2>3. writer[w] \in Writer /\ f \in Files
    BY DEF Typed, Writer
  <2>4. \A g \in Files : blob[g] \in Nat /\ blob'[g] \in Nat /\ blob[g] <= blob'[g]
    BY <2>1, <2>3 DEF Typed
  <2>5. \A g \in Files : saved'[g] <= blob'[g]
    BY <2>2, <2>4 DEF Typed
  <2>6. \A v \in Writers : writer'[v].at = "put" =>
          \A g \in writer'[v].file : writer'[v].content <= blob'[g]
    <3> SUFFICES ASSUME NEW v \in Writers, writer'[v].at = "put", NEW g \in writer'[v].file
                 PROVE  writer'[v].content <= blob'[g]
      OBVIOUS
    <3>1. CASE v # w
      <4>1. writer'[v] = writer[v] /\ writer[v] \in Writer
        BY <2>1, <3>1 DEF Typed
      <4>2. g \in Files /\ writer[v].content \in Nat /\ writer[v].content <= blob[g]
        BY <4>1 DEF Writer
      <4> QED
        BY <2>4, <4>1, <4>2
    <3>2. CASE v = w
      <4>1. writer'[w].content = blob[f] + 1 /\ writer'[w].file = writer[w].file
        BY <2>1, <2>3 DEF Typed, Writer
      <4>2. g = f
        BY <3>2, <4>1
      <4> QED
        BY <2>1, <2>3, <3>2, <4>1, <4>2 DEF Typed
    <3> QED
      BY <3>1, <3>2
  <2>7. \A v \in Writers : writer'[v].file = writer[v].file
    BY <2>1, <2>3 DEF Typed, Writer
  <2> QED
    BY <2>2, <2>5, <2>6, <2>7
<1>5. ASSUME NEW w \in Writers, CommitFile(w) PROVE ReadingsInv'
  <2>1. PICK f \in writer[w].file :
          /\ revision' = [revision EXCEPT ![f] = writer[w].revision + 1]
          /\ saved' = [saved EXCEPT ![f] = writer[w].content]
          /\ clashed' = IF revision[f] = writer[w].revision THEN clashed ELSE clashed \cup {f}
    BY <1>5 DEF CommitFile
  <2>2. /\ writer[w].at = "put" /\ writer' = [writer EXCEPT ![w] = IdleWriter]
        /\ UNCHANGED <<blob, texts, reader>>
    BY <1>5 DEF CommitFile, WriterUnchanged, indexVars, workerVars
  <2>3. writer[w] \in Writer /\ f \in Files
    BY DEF Typed, Writer
  <2>4. \A g \in Files : saved'[g] <= blob'[g]
    BY <2>1, <2>2, <2>3 DEF Typed
  <2>5. \A v \in Writers : writer'[v].at = "put" =>
          \A g \in writer'[v].file : writer'[v].content <= blob'[g]
    BY <2>2 DEF Typed, IdleWriter
  <2>6. \A v \in Writers : \A g, h \in writer'[v].file : g = h
    BY <2>2 DEF Typed, IdleWriter
  <2>7. /\ clashed \subseteq clashed' /\ \A g \in Files : revision[g] \in Nat
        /\ \A g \in Files \ {f} : revision'[g] = revision[g] /\ saved'[g] = saved[g]
    BY <2>1, <2>3 DEF Typed
  <2>8. f \notin clashed' => revision'[f] = revision[f] + 1
    BY <2>1, <2>3 DEF Typed
  <2>9. ASSUME NEW g \in Files, NEW v \in Nat, NEW n \in Nat,
               g \notin clashed => v <= revision[g], ReadingOf(g, v, n)
        PROVE  (g \notin clashed' => v <= revision'[g]) /\ ReadingOf(g, v, n)'
    <3>1. CASE g = f
      BY <2>7, <2>9, <2>8, <3>1
    <3>2. CASE g # f
      BY <2>7, <2>9, <3>2
    <3> QED
      BY <3>1, <3>2
  <2>10. \A g \in Files : texts[g].revision \in Nat /\ texts[g].content \in Nat
    BY DEF Typed, Text
  <2>11. \A r \in Readers : /\ reader[r].content \in Nat
                            /\ \A j \in reader[r].batch \cup reader[r].item :
                                 j.file \in Files /\ j.revision \in Nat
    BY DEF Typed, Reader, Job
  <2> HIDE DEF ReadingOf
  <2>12. \A g \in Files : /\ g \notin clashed' => texts'[g].revision <= revision'[g]
                          /\ ReadingOf(g, texts[g].revision, texts[g].content)'
    BY <2>2, <2>9, <2>10
  <2>13. \A r \in Readers : \A j \in reader'[r].batch \cup reader'[r].item :
          j.file \notin clashed' => j.revision <= revision'[j.file]
    <3> SUFFICES ASSUME NEW r \in Readers, NEW j \in reader[r].batch \cup reader[r].item,
                        j.file \notin clashed'
                 PROVE  j.revision <= revision'[j.file]
      BY <2>2
    <3>1. j.file \in Files /\ j.revision \in Nat
      BY <2>11
    <3>2. j.file \notin clashed
      BY <2>7
    <3>3. j.revision <= revision[j.file] /\ revision[j.file] \in Nat
      BY <2>7, <3>1, <3>2
    <3> QED
      BY <2>7, <2>8, <3>1, <3>2, <3>3
  <2>14. \A r \in Readers : reader'[r].at = "saving" =>
           \A j \in reader'[r].item : ReadingOf(j.file, j.revision, reader[r].content)'
    BY <2>2, <2>9, <2>11
  <2>15. \A r \in Readers : \A i, j \in reader'[r].item : i = j
    BY <2>2
  <2> QED
    BY <2>2, <2>4, <2>5, <2>12, <2>13, <2>14, <2>6, <2>15
<1>6. ASSUME NEW r \in Readers, ReaderStep(r) \/ ReadFails(r) \/ ReaderCrashes(r)
      PROVE  ReadingsInv'
  <2> USE DEF contentVars, ReaderUnchanged
  <2>1. UNCHANGED <<blob, revision, writer, saved, clashed>>
    BY <1>6 DEF ReaderStep, BeginReader, StartReader, ForgetUnlinked, SelectFiles, NextFile,
                ReadFile, ReadFails, SaveText, CloseFiles, ReaderCrashes
  <2>2. reader[r] \in Reader /\ reader \in [Readers -> Reader]
    BY DEF Typed
  <2>3. ASSUME \A i, j \in reader'[r].item : i = j,
               \A j \in reader'[r].batch \cup reader'[r].item :
                 j.file \notin clashed => j.revision <= revision[j.file],
               reader'[r].at = "saving" =>
                 \A j \in reader'[r].item : ReadingOf(j.file, j.revision, reader'[r].content),
               \A s \in Readers \ {r} : reader'[s] = reader[s],
               \A f \in Files : \/ texts'[f] = texts[f]
                                 \/ /\ f \notin clashed => texts'[f].revision <= revision[f]
                                    /\ ReadingOf(f, texts'[f].revision, texts'[f].content)
        PROVE  ReadingsInv'
    BY <2>1, <2>3
  <2>4. ASSUME EndReader(r), UNCHANGED texts PROVE ReadingsInv'
    BY <2>2, <2>3, <2>4 DEF EndReader, IdleReader
  <2>5. CASE BeginReader(r)
    BY <2>2, <2>3, <2>5 DEF BeginReader, indexVars
  <2>6. CASE StartReader(r)
    <3>1. CASE paused
      BY <2>4, <2>6, <3>1 DEF StartReader, indexVars
    <3>2. CASE ~paused
      BY <2>2, <2>3, <2>6, <3>2 DEF StartReader, indexVars, Reader
    <3> QED
      BY <3>1, <3>2
  <2>7. CASE ForgetUnlinked(r)
    BY <2>2, <2>3, <2>7 DEF ForgetUnlinked, NoText, Typed
  <2>8. CASE SelectFiles(r)
    <3>1. /\ reader'[r].batch = {[file |-> f, revision |-> revision[f]] : f \in Pending}
          /\ reader'[r].item = reader[r].item /\ reader'[r].at = "next"
          /\ \A s \in Readers \ {r} : reader'[s] = reader[s]
          /\ UNCHANGED texts
      BY <2>2, <2>8 DEF SelectFiles, indexVars, Reader
    <3>2. \A j \in reader'[r].batch : j.revision = revision[j.file] /\ revision[j.file] \in Nat
      BY <3>1 DEF Pending, Typed
    <3> QED
      BY <2>3, <3>1, <3>2
  <2>9. CASE NextFile(r)
    BY <2>2, <2>3, <2>9 DEF NextFile, indexVars
  <2>10. CASE ReadFile(r)
    <3>1. PICK j \in reader[r].item :
            reader' = [reader EXCEPT ![r].at = "saving", ![r].content = blob[j.file]]
      BY <2>10 DEF ReadFile
    <3>2. /\ reader'[r].batch = reader[r].batch /\ reader'[r].item = reader[r].item
          /\ reader'[r].content = blob[j.file]
          /\ \A s \in Readers \ {r} : reader'[s] = reader[s]
          /\ UNCHANGED texts
      BY <2>2, <2>10, <3>1 DEF ReadFile, indexVars, Reader
    <3>3. reader[r].item = {j} /\ j.file \in Files
      BY <2>2 DEF Reader, Job
    <3> QED
      BY <2>3, <3>2, <3>3
  <2>11. CASE ReadFails(r)
    BY <2>2, <2>3, <2>11 DEF ReadFails, indexVars
  <2>12. CASE SaveText(r)
    BY <2>2, <2>3, <2>12, SMTT(40), ZenonT(40) DEF SaveText
  <2>13. CASE CloseFiles(r)
    <3>1. CASE reader[r].done /\ r \notin late
      BY <2>2, <2>3, <2>13, <3>1 DEF CloseFiles, indexVars, Reader
    <3>2. CASE ~(reader[r].done /\ r \notin late)
      BY <2>4, <2>13, <3>2 DEF CloseFiles, indexVars
    <3> QED
      BY <3>1, <3>2
  <2>14. CASE ReaderCrashes(r)
    BY <2>4, <2>14 DEF ReaderCrashes, indexVars
  <2> QED
    BY <1>6, <2>5, <2>6, <2>7, <2>8, <2>9, <2>10, <2>11, <2>12, <2>13, <2>14 DEF ReaderStep
<1>7. CASE WorkerDies
  BY <1>7 DEF WorkerDies, IdleReader, contentVars, indexVars
<1>8. ASSUME NEW x \in Passes, PassStep(x) \/ EmbedFails(x) \/ PassCrashes(x)
      PROVE  UNCHANGED <<blob, revision, writer, saved, clashed, texts, reader>>
  BY <1>8 DEF PassStep, BeginPass, SkipPass, LoadConfig, ResetIfModelChanged, SelectBatch,
       NothingStale, NextPage, CloseBatch, Embedded, EmbedRefused, EmbedFails, StorePage,
       StoreFails, StoreAs, SkipRefused, NextBatch, FinishPass, PassCrashes, PassUnchanged,
       contentVars, indexVars
<1>9. CASE \/ \E p \in Pages : \E ls \in SUBSET FilesOf(p) : Edit(p, ls)
           \/ \E m \in Models : ChangeModel(m)
           \/ SetPaused
           \/ \E k \in {"index", "text"} : Expire(k) \/ Lapse(k)
           \/ \E a \in Passes \cup Readers : TimeUp(a)
  BY <1>1, <1>9 DEF Edit, ChangeModel, SetPaused, Expire, Lapse, TimeUp, contentVars, indexVars,
                    workerVars
<1>10. CASE UNCHANGED vars
  BY <1>1, <1>10 DEF vars
<1> HIDE DEF ReadingsInv
<1> QED
  BY <1>1, <1>3, <1>4, <1>5, <1>6, <1>7, <1>8, <1>9, <1>10 DEF Next, WriterStep

\* A reading for the revision a file has lasts, as long as no lock has lapsed,
\* until the file is replaced or is linked no more: no pass records an older
\* reading over a newer one, or forgets what is linked (text.py, extract_pending
\* and forget_unlinked).  Files two replacements gave one revision are left out.
ReadingLasts ==
    [][lapses' = 0 => \A f \in Files \ clashed' : TextIsCurrent(f) /\ ~TextIsCurrent(f)'
          => revision'[f] # revision[f] \/ f \notin linked]_vars

\* What is to be read is no older than what has been.
ReadsInOrder ==
    lapses = 0 =>
        \A r \in Readers : \A j \in ToRead(reader[r]) :
            j.file \notin clashed => texts[j.file].revision <= j.revision

LEMMA StepReadsInOrder ==
    ASSUME Typed, LocksInv, lapses = 0 => lapsed = {}, ReadersInTurn, ReadingsInv, ReadsInOrder,
           [Next]_vars
    PROVE  ReadsInOrder'
<1> SUFFICES ASSUME lapses' = 0, NEW r \in Readers, NEW j \in ToRead(reader'[r]),
                    j.file \notin clashed'
             PROVE  texts'[j.file].revision <= j.revision
  BY DEF ReadsInOrder
<1>1. lapses = 0
  BY NothingLapsed
<1>2. /\ j.file \in Files /\ texts'[j.file] = texts[j.file]
      /\ \/ j \in ToRead(reader[r])
         \/ j.revision = revision[j.file] /\ ~TextIsCurrent(j.file)
  BY WhatIsToRead
<1> QED
  BY <1>1, <1>2, ClashesStay DEF ReadsInOrder, ReadingsInv

LEMMA ReadingStep ==
    ASSUME Typed, ReadersInTurn, ReadsArePending, ReadingsInv, ReadsInOrder, [Next]_vars,
           lapses = 0, NEW f \in linked, f \in Files \ clashed, TextIsCurrent(f),
           revision'[f] = revision[f]
    PROVE  TextIsCurrent(f)'
<1>1. texts'[f] = texts[f] => TextIsCurrent(f)'
  BY DEF TextIsCurrent
<1>2. ASSUME NEW r \in Readers, ReaderStep(r) \/ ReadFails(r) \/ ReaderCrashes(r)
      PROVE  texts'[f] = texts[f]
  <2>1. ReadsInTurn(reader[r])
    BY DEF ReadersInTurn
  <2>2. CASE ForgetUnlinked(r)
    BY <2>2 DEF ForgetUnlinked
  <2>3. ASSUME NEW j \in ToRead(reader[r]),
               texts' = [texts EXCEPT ![j.file] =
                            [revision |-> j.revision, content |-> reader[r].content]]
        PROVE  texts'[f] = texts[f]
    <3>1. j.file \in Files /\ j.revision \in Nat
      BY DEF Typed, Reader, Job, ToRead
    <3>2. /\ texts[j.file].revision # j.revision
          /\ j.file \notin clashed => texts[j.file].revision <= j.revision
      BY DEF ReadsArePending, ReadsInOrder
    <3>3. j.file \notin clashed => j.revision <= revision[j.file]
      BY DEF ReadingsInv, ToRead
    <3>4. texts[j.file].revision \in Nat /\ revision[j.file] \in Nat
      BY <3>1 DEF Typed, Text
    <3>5. j.file # f
      BY <3>1, <3>2, <3>3, <3>4 DEF TextIsCurrent
    <3> QED
      BY <2>3, <3>5 DEF Typed
  <2> QED
    BY <1>2, <2>1, <2>2, <2>3, ReadingOfSteps
<1> QED
  BY <1>1, <1>2, ReadersRest

-----------------------------------------------------------------------------
(* Theorems.                                                               *)

\* Every reachable state is well typed, and only running passes have a spent
\* budget or a lapsed lock.
THEOREM TypeCorrect == Spec => []TypeOK
<1>1. Init => Typed /\ LocksInv
  BY InitTyped DEF Init, LocksInv, UnlockedOnlyByLapse, Indexing, Reading, IdlePass, IdleReader
<1>2. Typed /\ LocksInv /\ [Next]_vars => (Typed /\ LocksInv)'
  BY StepTyped, StepLocks
<1>3. Typed /\ LocksInv => TypeOK
  BY DEF Typed, LocksInv, TypeOK
<1> QED
  BY <1>1, <1>2, <1>3, PTL DEF Spec

\* A pass without its lock lost it to the lock's time to live: however passes,
\* deaths, expiries and lapses interleave, none frees another's lock.
THEOREM LocksKeptApart == Spec => []UnlockedOnlyByLapse
<1>1. Init => Typed /\ LocksInv
  BY InitTyped DEF Init, LocksInv, UnlockedOnlyByLapse, Indexing, Reading, IdlePass, IdleReader
<1>2. Typed /\ LocksInv /\ [Next]_vars => (Typed /\ LocksInv)'
  BY StepTyped, StepLocks
<1>3. LocksInv => UnlockedOnlyByLapse
  BY DEF LocksInv
<1> QED
  BY <1>1, <1>2, <1>3, PTL DEF Spec

\* A page's record names the content and the model of its passages, with any
\* number of passes at once and edits and model changes between their steps.
THEOREM RecordsAreTrue == Spec => []IndexedIsWhatTheRecordSays
<1>1. Init => Typed /\ IndexedIsWhatTheRecordSays
  BY InitTyped DEF Init, IndexedIsWhatTheRecordSays, NoState
<1>2. Typed /\ IndexedIsWhatTheRecordSays /\ [Next]_vars
        => (Typed /\ IndexedIsWhatTheRecordSays)'
  BY StepTyped, StepIndexed
<1> QED
  BY <1>1, <1>2, PTL DEF Spec

\* What was read for the revision a file has is no older than what the last
\* finished replacement stored, with any number of replacing requests, which may
\* overlap or end between the put and the commit, and of extraction passes.  Only
\* files two replacements gave one revision, both read plus one, are left out.
THEOREM ReadingsAreTrue == Spec => []TextIsOfSignature
<1>1. Init => Typed /\ ReadingsInv
  BY InitTyped, InitReadings
<1>2. Typed /\ ReadingsInv /\ [Next]_vars => (Typed /\ ReadingsInv)'
  BY StepTyped, StepReadings
<1> QED
  BY <1>1, <1>2, ReadingsSuffice, PTL DEF Spec

\* As long as no lock has lapsed the records of all pages name one model, that of
\* the pass at work, and passages of two models meet only where a page lost its
\* record because passages of a file were dropped: with model changes at any time,
\* edits, deaths, and extraction passes beside the indexing (indexer.py,
\* reset_if_model_changed, looks at records alone).
THEOREM ModelsAreNotMixed == Spec => []RecordsOfOneModel /\ []VectorsOfOneModel
<1> DEFINE Inv == /\ Typed /\ LocksInv /\ (lapses = 0 => lapsed = {})
                  /\ RecordsOfOneModel /\ IndexedIsWhatTheRecordSays /\ PassagesAreRecorded
<1>1. Init => Inv
  BY InitTyped DEF Init, LocksInv, UnlockedOnlyByLapse, Indexing, Reading, IdlePass, IdleReader,
                   RecordsOfOneModel, Compared, NoState, IndexedIsWhatTheRecordSays,
                   PassagesAreRecorded, NoChunks
<1>2. Inv /\ [Next]_vars => Inv'
  BY StepTyped, StepLocks, NothingLapsed, StepModels, StepIndexed, StepRecorded
<1>3. Inv => RecordsOfOneModel /\ VectorsOfOneModel
  BY RecordsSpeak
<1> QED
  BY <1>1, <1>2, <1>3, PTL DEF Spec

\* No edit is missed, with any number of passes and lapsed locks.
THEOREM EditsAreSeen == Spec => EditsMakeStale
<1>1. Init => Typed /\ NothingAhead
  BY InitTyped, InitAhead
<1>2. Typed /\ NothingAhead /\ [Next]_vars => (Typed /\ NothingAhead)'
  BY StepTyped, StepAhead
<1>3. Typed /\ NothingAhead /\ [Next]_vars
        => [\A p \in Pages : page'[p] # page[p] => \A m \in Models : ~UpToDate(p, m)']_vars
  BY EditStales
<1> QED
  BY <1>1, <1>2, <1>3, PTL DEF Spec, EditsMakeStale

\* What is indexed stays indexed while nothing asks for it again, whatever passes
\* run beside each other, as long as no lock has lapsed.
THEOREM IndexedStays == Spec => IndexedLasts
<1> DEFINE Inv == /\ Typed /\ LocksInv /\ (lapses = 0 => lapsed = {})
                  /\ RecordsOfOneModel /\ NothingAhead
                  /\ PassesInTurn /\ WorkIsStale /\ ReadersInTurn /\ ReadsArePending
<1>1. Init => Inv
  BY InitTyped, InitAhead, InitInTurn, InitReads
     DEF Init, LocksInv, UnlockedOnlyByLapse, Indexing, Reading, IdlePass, IdleReader,
         RecordsOfOneModel, Compared, NoState
<1>2. Inv /\ [Next]_vars => Inv'
  BY StepTyped, StepLocks, NothingLapsed, StepModels, StepAhead, StepInTurn, StepStale,
     StepReadsInTurn, StepPending
<1>3. Inv /\ [Next]_vars =>
        [lapses' = 0 => \A p \in Pages : UpToDate(p, model) /\ ~UpToDate(p, model)'
          => \/ page'[p] # page[p] \/ model' # model
             \/ \E f \in FilesOf(p) : texts'[f] # texts[f]
             \/ \E x \in Passes : pass[x].at = "resetting" /\ pass[x].model # model]_vars
  BY IndexedStep
<1> QED
  BY <1>1, <1>2, <1>3, PTL DEF Spec, IndexedLasts

\* What has been read stays read while nothing asks for it again.
THEOREM ReadingStays == Spec => ReadingLasts
<1> DEFINE Inv == /\ Typed /\ LocksInv /\ (lapses = 0 => lapsed = {})
                  /\ ReadersInTurn /\ ReadsArePending /\ ReadingsInv /\ ReadsInOrder
<1>1. Init => Inv
  BY InitTyped, InitReads, InitReadings
     DEF Init, LocksInv, UnlockedOnlyByLapse, Indexing, Reading, IdlePass, IdleReader,
         ReadsInOrder, ToRead
<1>2. Inv /\ [Next]_vars => Inv'
  BY StepTyped, StepLocks, NothingLapsed, StepReadsInTurn, StepPending, StepReadings,
     StepReadsInOrder
<1>3. Inv /\ [Next]_vars =>
        [lapses' = 0 => \A f \in Files \ clashed' : TextIsCurrent(f) /\ ~TextIsCurrent(f)'
          => revision'[f] # revision[f] \/ f \notin linked]_vars
  BY ReadingStep, NothingLapsed, ClashesStay
<1> QED
  BY <1>1, <1>2, <1>3, PTL DEF Spec, ReadingLasts

\* As long as no lock has lapsed there is one pass of a kind at most, whatever
\* dies, is started twice or overruns its time (tasks.py, the two SET NX keys).
THEOREM PassesAreAlone ==
    Spec => [](lapses = 0 => /\ \A x, y \in Indexing : x = y
                             /\ \A r, s \in Reading : r = s)
<1> DEFINE Inv == Typed /\ LocksInv /\ (lapses = 0 => lapsed = {})
<1>1. Init => Inv
  BY InitTyped DEF Init, LocksInv, UnlockedOnlyByLapse, Indexing, Reading, IdlePass, IdleReader
<1>2. Inv /\ [Next]_vars => Inv'
  BY StepTyped, StepLocks, NothingLapsed
<1>3. Inv => (lapses = 0 => /\ \A x, y \in Indexing : x = y
                            /\ \A r, s \in Reading : r = s)
  BY OnePassAtATime, OneReaderAtATime
<1> QED
  BY <1>1, <1>2, <1>3, PTL DEF Spec
=============================================================================
