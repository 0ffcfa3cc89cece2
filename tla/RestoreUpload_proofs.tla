------------------------- MODULE RestoreUpload_proofs -------------------------
(***************************************************************************)
(* What the uploads of RestoreUpload keep, for any tabs, files, archives,  *)
(* number of parts and bounds.                                             *)
(*                                                                         *)
(* The inductive invariant says, call by call, what its handler may still  *)
(* rely on when it goes on (CallOK), what rows tell of the store whatever  *)
(* fails (RowsOK), and, as long as nothing has failed, which handler is to *)
(* answer for a row and a store that disagree (Answered).                  *)
(***************************************************************************)
EXTENDS RestoreUpload, WellFoundedInduction, TLAPS

Begins(c) == c.stage = "begun"
Over == {"uploaded", "scanned", "cancelled"}

\* The handler that has opened a multipart upload for a row not yet committed.
Fresh(c) == c.kind = "start" /\ Begins(c) /\ c.seen = "none"

CallOK(c) ==
    LET a == c.archive IN
    /\ Begins(c) => c.kind \in {"start", "complete", "delete", "scan"}
    /\ Begins(c) \/ c.kind \in {"put", "complete", "delete", "scan"} => a \in Archives
    /\ ~Begins(c) /\ c.kind \in {"hash", "start"} => a = None
    /\ c.kind = "put" => c.part \in Parts
    /\ c.kind = "complete" => c.have = Parts
    /\ c.kind \in {"put", "complete"} /\ a \in open => c.have \subseteq parts[a]
    /\ Fresh(c) => Status(a) = "none" /\ a \in open
    /\ a # None /\ ~Fresh(c) => Status(a) # "none"
    /\ c.kind = "scan" \/ (Begins(c) /\ c.seen \in Over) => Status(a) \in Over
    /\ Begins(c) /\ c.kind \in {"complete", "scan"} => a \in object
    /\ Begins(c) /\ c.kind = "start" /\ c.seen \in Over => a \in object
    /\ Begins(c) /\ c.kind \in {"complete", "delete"} => a \notin open /\ c.seen # "none"

CardOK(d) ==
    \A a \in {d.archive, d.pending, d.picker} \ {None} : Status(a) # "none"

RowOK(a) ==
    /\ row[a].mp <=> Status(a) = "uploading"
    /\ Status(a) \in Over => a \notin open
    /\ Status(a) \in {"uploaded", "scanned"} \/ row[a].job = "active" => a \in object

Opens(a) == \E c \in calls : Fresh(c) /\ c.archive = a
Closes(a) ==
    \E c \in calls : /\ Begins(c) /\ c.archive = a
                     /\ c.kind = "complete" \/ (c.kind = "delete" /\ c.seen = "uploading")

Answered(a) ==
    /\ a \in open /\ Status(a) = "none" => Opens(a)
    /\ Status(a) = "uploading" /\ a \notin open => Closes(a)

OneOpens == \A c, d \in calls : Fresh(c) /\ Fresh(d) /\ c.archive = d.archive => c = d

UploadInvariant ==
    /\ TypeOK
    /\ \A c \in calls : CallOK(c)
    /\ \A t \in Tabs : CardOK(card[t])
    /\ \A a \in Archives : RowOK(a)
    /\ OneOpens
    /\ faults = 0 => \A a \in Archives : Answered(a)

-----------------------------------------------------------------------------
(* The calls of a run *)

\* A set of parts that is not empty has a least one.
LEMMA LeastPart ==
    ASSUME NEW S \in SUBSET Parts, S # {}
    PROVE  /\ \E p \in S : \A q \in S : p <= q
           /\ (CHOOSE p \in S : \A q \in S : p <= q) \in Parts
<1>1. IsWellFoundedOn(OpToRel(<, Nat), Nat)
  BY NatLessThanWellFounded
<1>2. S \subseteq Nat
  BY PartsAssumption DEF Parts
<1>3. PICK p \in S : \A q \in S : ~ (<<q, p>> \in OpToRel(<, Nat))
  BY <1>1, <1>2, WFMin
<1>4. \A q \in S : p <= q
  <2> SUFFICES ASSUME NEW q \in S PROVE p <= q
    OBVIOUS
  <2>1. q \in Nat /\ p \in Nat
    BY <1>2
  <2>2. ~ (q < p)
    BY <1>3, <2>1 DEF OpToRel
  <2> QED
    BY <2>1, <2>2
<1>5. \E r \in S : \A q \in S : r <= q
  BY <1>4
<1> QED
  BY <1>5

\* The call a run makes next is a put of a part or the completion of all of them.
LEMMA NextCallSound ==
    ASSUME NEW t \in Tabs \cup {Nobody}, NEW a \in Archives, NEW have \in SUBSET Parts
    PROVE  LET d == NextCall(t, a, have) IN
           /\ d \in Call /\ d.by = t /\ d.archive = a /\ d.have = have /\ d.stage = "sent"
           /\ \/ d.kind = "put" /\ d.part \in Parts
              \/ d.kind = "complete" /\ have = Parts
<1>1. CASE Parts \ have = {}
  BY <1>1 DEF NextCall, NewCall, Call
<1>2. CASE Parts \ have # {}
  <2> DEFINE p == CHOOSE p \in Parts \ have : \A q \in Parts \ have : p <= q
  <2>1. p \in Parts
    BY <1>2, LeastPart
  <2> HIDE DEF p
  <2>2. NextCall(t, a, have) = [NewCall("put", t, None, a, have) EXCEPT !.part = p]
    BY <1>2 DEF NextCall, p
  <2> QED
    BY <2>1, <2>2 DEF NewCall, Call
<1> QED
  BY <1>1, <1>2

-----------------------------------------------------------------------------
(* Steps that leave rows and store alone *)

\* The invariant holds at first.
LEMMA InitOK == Init => UploadInvariant
<1> SUFFICES ASSUME Init PROVE UploadInvariant
  OBVIOUS
<1>1. TypeOK
  BY UploadBounds DEF Init, TypeOK, Row, NoRow, Card, EmptyCard
<1>2. \A a \in Archives : RowOK(a) /\ Answered(a)
  BY DEF Init, RowOK, Answered, Status, NoRow, Over
<1>3. \A t \in Tabs : CardOK(card[t])
  BY DEF Init, CardOK, EmptyCard
<1> QED
  BY <1>1, <1>2, <1>3 DEF Init, UploadInvariant, OneOpens

\* The handlers that answer for a row and a store that disagree.
Answers(c) == Begins(c) /\ (Fresh(c) \/ c.kind \in {"complete", "delete"})
SameWork(c, d) ==
    d.stage = c.stage /\ d.kind = c.kind /\ d.archive = c.archive /\ d.seen = c.seen

\* A step that leaves rows and store alone, and drops no handler that has to answer.
LEMMA QuietStep ==
    ASSUME UploadInvariant, UNCHANGED <<row, store>>,
           \A d \in calls' : d \in Call /\ CallOK(d),
           OneOpens',
           faults' \in 0 .. MaxFaults, acts' \in 0 .. MaxActs,
           faults' = 0 => /\ faults = 0
                          /\ \A c \in calls : Answers(c) => \E d \in calls' : SameWork(c, d),
           card' \in [Tabs -> Card], \A t \in Tabs : CardOK(card'[t])
    PROVE  UploadInvariant'
<1> USE DEF store
<1>1. TypeOK'
  BY DEF UploadInvariant, TypeOK
<1>2. \A c \in calls' : CallOK(c)'
  BY DEF CallOK, Status, Fresh, Begins
<1>3. \A t \in Tabs : CardOK(card[t])'
  BY DEF CardOK, Status
<1>4. \A a \in Archives : RowOK(a)'
  BY DEF UploadInvariant, RowOK, Status
<1>5. faults' = 0 => \A a \in Archives : Answered(a)'
  <2> SUFFICES ASSUME faults' = 0, NEW a \in Archives PROVE Answered(a)'
    OBVIOUS
  <2>1. Answered(a)
    BY DEF UploadInvariant
  <2>2. Opens(a) => Opens(a)'
    <3> SUFFICES ASSUME NEW c \in calls, Fresh(c), c.archive = a PROVE Opens(a)'
      BY DEF Opens
    <3>1. PICK d \in calls' : SameWork(c, d)
      BY DEF Answers, Fresh
    <3> QED
      BY <3>1 DEF Opens, SameWork, Fresh, Begins
  <2>3. Closes(a) => Closes(a)'
    <3> SUFFICES ASSUME NEW c \in calls, Begins(c), c.archive = a,
                        c.kind = "complete" \/ (c.kind = "delete" /\ c.seen = "uploading")
                 PROVE  Closes(a)'
      BY DEF Closes
    <3>1. PICK d \in calls' : SameWork(c, d)
      BY DEF Answers
    <3> QED
      BY <3>1 DEF Closes, SameWork, Begins
  <2> QED
    BY <2>1, <2>2, <2>3 DEF Answered, Status
<1> QED
  BY <1>1, <1>2, <1>3, <1>4, <1>5 DEF UploadInvariant

\* The calls a tab leaves behind are as sound as they were.
LEMMA LeftBehindSound ==
    ASSUME UploadInvariant, NEW t \in Tabs
    PROVE  LET left == LeftBehind(t) IN
           /\ \A d \in left : d \in Call /\ CallOK(d)
           /\ \A c \in calls : Answers(c) => \E d \in left : SameWork(c, d)
           /\ \A c, d \in left : Fresh(c) /\ Fresh(d) /\ c.archive = d.archive => c = d
<1> DEFINE of(c) == [c EXCEPT !.by = Nobody]
<1>1. \A c \in calls : /\ c \in Call /\ CallOK(c)
                       /\ of(c) \in Call /\ SameWork(c, of(c)) /\ of(c).have = c.have
                       /\ of(c).part = c.part
  BY DEF UploadInvariant, TypeOK, Call, SameWork
<1>2. \A c \in calls : CallOK(of(c)) /\ (Fresh(of(c)) <=> Fresh(c))
  <2> SUFFICES ASSUME NEW c \in calls PROVE CallOK(of(c)) /\ (Fresh(of(c)) <=> Fresh(c))
    OBVIOUS
  <2>1. CallOK(c) /\ SameWork(c, of(c)) /\ of(c).have = c.have /\ of(c).part = c.part
    BY <1>1
  <2> HIDE DEF of
  <2> QED
    BY <2>1 DEF CallOK, SameWork, Fresh, Begins
<1>3. \A d \in LeftBehind(t) : (d \in calls \ Runs(t)) \/ \E c \in Runs(t) : d = of(c)
  BY DEF LeftBehind
<1>4. Runs(t) \subseteq calls
  BY DEF Runs
<1>5. \A c \in calls : Answers(c) => c \in LeftBehind(t) \/ of(c) \in LeftBehind(t)
  <2> SUFFICES ASSUME NEW c \in calls, Answers(c)
               PROVE  c \in LeftBehind(t) \/ of(c) \in LeftBehind(t)
    OBVIOUS
  <2>1. c.kind # "hash"
    BY DEF Answers, Fresh
  <2> QED
    BY <2>1 DEF LeftBehind
<1>6. \A c \in calls : SameWork(c, c)
  BY DEF SameWork
<1> HIDE DEF of
<1>7. \A c, d \in LeftBehind(t) : Fresh(c) /\ Fresh(d) /\ c.archive = d.archive => c = d
  <2> SUFFICES ASSUME NEW c \in LeftBehind(t), NEW d \in LeftBehind(t),
                      Fresh(c), Fresh(d), c.archive = d.archive
               PROVE  c = d
    OBVIOUS
  <2>1. PICK x \in calls : (x = c /\ x \notin Runs(t)) \/ (x \in Runs(t) /\ c = of(x))
    BY <1>3, <1>4
  <2>2. PICK y \in calls : (y = d /\ y \notin Runs(t)) \/ (y \in Runs(t) /\ d = of(y))
    BY <1>3, <1>4
  <2>3. Fresh(x) /\ x.archive = c.archive
    BY <2>1, <1>1, <1>2 DEF SameWork
  <2>4. Fresh(y) /\ y.archive = d.archive
    BY <2>2, <1>1, <1>2 DEF SameWork
  <2>5. x = y
    BY <2>3, <2>4 DEF UploadInvariant, OneOpens
  <2> QED
    BY <2>1, <2>2, <2>5
<1> QED
  BY <1>1, <1>2, <1>3, <1>4, <1>5, <1>6, <1>7

\* A step of the user: the calls under way, those of t perhaps left behind,
\* with some that are only on their way yet.
LEMMA UserStep ==
    ASSUME UploadInvariant, NEW t \in Tabs,
           UNCHANGED <<row, store, faults>>, acts' \in 0 .. MaxActs,
           NEW more, \A x \in more : x \in Call /\ CallOK(x) /\ ~Begins(x),
           calls' = LeftBehind(t) \cup more \/ calls' = calls \cup more,
           card' \in [Tabs -> Card], \A u \in Tabs : CardOK(card'[u])
    PROVE  UploadInvariant'
<1>1. PICK kept : /\ calls' = kept \cup more
                  /\ \A d \in kept : d \in Call /\ CallOK(d)
                  /\ \A c \in calls : Answers(c) => \E d \in kept : SameWork(c, d)
                  /\ \A c, d \in kept : Fresh(c) /\ Fresh(d) /\ c.archive = d.archive => c = d
  <2>1. CASE calls' = calls \cup more
    <3>1. \A c \in calls : SameWork(c, c)
      BY DEF SameWork
    <3>2. \A d \in calls : d \in Call /\ CallOK(d)
      BY DEF UploadInvariant, TypeOK
    <3> QED
      BY <2>1, <3>1, <3>2 DEF UploadInvariant, OneOpens
  <2>2. CASE calls' = LeftBehind(t) \cup more
    BY <2>2, LeftBehindSound
  <2> QED
    BY <2>1, <2>2
<1>2. OneOpens'
  BY <1>1 DEF OneOpens, Fresh, Begins
<1>3. faults \in 0 .. MaxFaults
  BY DEF UploadInvariant, TypeOK
<1> QED
  BY <1>1, <1>2, <1>3, QuietStep

\* The same without a new call.
LEMMA UserStepNoCall ==
    ASSUME UploadInvariant, NEW t \in Tabs,
           UNCHANGED <<row, store, faults>>, acts' \in 0 .. MaxActs,
           calls' = LeftBehind(t) \/ calls' = calls,
           card' \in [Tabs -> Card], \A u \in Tabs : CardOK(card'[u])
    PROVE  UploadInvariant'
<1> DEFINE more == {}
<1>1. \A x \in more : x \in Call /\ CallOK(x) /\ ~Begins(x)
  OBVIOUS
<1>2. calls' = LeftBehind(t) \cup more \/ calls' = calls \cup more
  OBVIOUS
<1> HIDE DEF more
<1> QED
  BY <1>1, <1>2, UserStep

\* A fingerprint begins without an archive.
LEMMA HashCallOK ==
    ASSUME NEW t \in Tabs, NEW f \in Files \cup {None}
    PROVE  LET x == NewCall("hash", t, f, None, {}) IN x \in Call /\ CallOK(x) /\ ~Begins(x)
BY NoneAssumption DEF NewCall, Call, CallOK, Fresh, Begins, Over

\* What a card names may be deleted.
LEMMA DeletesOK ==
    ASSUME UploadInvariant, NEW t \in Tabs,
           NEW a \in {card[t].archive, card[t].pending, card[t].picker}
    PROVE  \A x \in Deletes(a) : x \in Call /\ CallOK(x) /\ ~Begins(x)
<1> SUFFICES ASSUME a # None PROVE \A x \in Deletes(a) : x \in Call /\ CallOK(x) /\ ~Begins(x)
  BY DEF Deletes
<1>1. a \in Archives /\ Status(a) # "none"
  BY DEF UploadInvariant, TypeOK, Card, CardOK
<1> QED
  BY <1>1 DEF Deletes, NewCall, Call, CallOK, Fresh, Begins

\* A card whose fields are among those of the card, or empty, is sound.
LEMMA CardsKept ==
    ASSUME UploadInvariant, NEW t \in Tabs, NEW d \in Card,
           card' = [card EXCEPT ![t] = d],
           {d.archive, d.pending, d.picker}
               \subseteq {None, card[t].archive, card[t].pending, card[t].picker}
    PROVE  card' \in [Tabs -> Card] /\ \A u \in Tabs : CardOK(card'[u])
<1>1. card \in [Tabs -> Card] /\ \A u \in Tabs : CardOK(card[u])
  BY DEF UploadInvariant, TypeOK
<1>2. CardOK(d)
  BY <1>1 DEF CardOK
<1> QED
  BY <1>1, <1>2

\* Decisions stay within their bound.
LEMMA ActsBound == ASSUME UploadInvariant, acts < MaxActs, acts' = acts + 1
                   PROVE  acts' \in 0 .. MaxActs
BY UploadBounds DEF UploadInvariant, TypeOK

\* Restores begin and end beside the uploads.
LEMMA JobKeeps ==
    ASSUME UploadInvariant, NEW a \in Archives, NEW j \in {"active", "ended"},
           row' = [row EXCEPT ![a].job = j],
           j = "active" => Status(a) \in {"uploaded", "scanned"},
           UNCHANGED <<open, parts, object, calls, card, faults>>, acts' \in 0 .. MaxActs
    PROVE  UploadInvariant'
<1>1. /\ row \in [Archives -> Row] /\ row' \in [Archives -> Row]
      /\ \A b \in Archives : Status(b)' = Status(b) /\ row'[b].mp = row[b].mp
      /\ \A b \in Archives : row'[b].job = IF b = a THEN j ELSE row[b].job
  BY DEF UploadInvariant, TypeOK, Row, Status
<1>2. TypeOK'
  BY <1>1 DEF UploadInvariant, TypeOK
<1>3. \A c \in calls : CallOK(c) /\ c.archive \in Archives \cup {None}
  BY DEF UploadInvariant, TypeOK, Call
<1>4. \A c \in calls' : CallOK(c)'
  BY <1>1, <1>3 DEF CallOK, Fresh, Begins, Over
<1>5. \A t \in Tabs : CardOK(card[t])'
  BY <1>1 DEF UploadInvariant, TypeOK, Card, CardOK
<1>6. \A b \in Archives : RowOK(b)'
  BY <1>1 DEF UploadInvariant, RowOK
<1>7. faults' = 0 => \A b \in Archives : Answered(b)'
  BY <1>1 DEF UploadInvariant, Answered, Opens, Closes, Fresh, Begins
<1> QED
  BY <1>2, <1>4, <1>5, <1>6, <1>7 DEF UploadInvariant, OneOpens, Fresh, Begins

\* Whatever the user does keeps the invariant.
LEMMA UserKeeps ==
    ASSUME UploadInvariant, NEW t \in Tabs, User(t)
    PROVE  UploadInvariant'
<1> DEFINE Sound(x) == x \in Call /\ CallOK(x) /\ ~Begins(x)
<1>0. /\ card[t] \in Card /\ EmptyCard \in Card /\ card[t].file \in Files \cup {None}
      /\ card \in [Tabs -> Card] /\ \A u \in Tabs : CardOK(card[u])
      /\ acts \in 0 .. MaxActs
  BY DEF UploadInvariant, TypeOK, Card, EmptyCard
<1>1. ASSUME NEW f \in Files, SelectFile(t, f) PROVE UploadInvariant'
  <2> DEFINE c == [card[t] EXCEPT !.file = f, !.archive = None, !.outcome = "none"]
             d == [c EXCEPT !.pending = None, !.picker = None, !.outcome = "none"]
  <2>1. /\ c \in Card /\ c.file = f
        /\ {c.archive, c.pending, c.picker} \subseteq {None, card[t].pending, card[t].picker}
    BY <1>0 DEF Card
  <2>2. d \in Card /\ {d.archive, d.pending, d.picker} = {None}
    BY <1>0 DEF Card
  <2> HIDE DEF d
  <2>3. CASE card' = [card EXCEPT ![t] = c] /\ UNCHANGED <<row, store, calls, acts, faults>>
    <3>1. card' \in [Tabs -> Card] /\ \A u \in Tabs : CardOK(card'[u])
      BY <2>1, <2>3, CardsKept
    <3> QED
      BY <1>0, <2>3, <3>1, UserStepNoCall
  <2>4. CASE Acts /\ StartsRun(t, c)
    <3>1. card' = [card EXCEPT ![t] = d]
          /\ calls' = LeftBehind(t) \cup {NewCall("hash", t, f, None, {})}
      BY <2>1, <2>4 DEF StartsRun, d
    <3>2. card' \in [Tabs -> Card] /\ \A u \in Tabs : CardOK(card'[u])
      BY <2>2, <3>1, CardsKept
    <3>3. \A x \in {NewCall("hash", t, f, None, {})} : Sound(x)
      BY HashCallOK
    <3> QED
      BY <2>4, <3>1, <3>2, <3>3, ActsBound, UserStep, ZenonT(40) DEF Acts
  <2> QED
    BY <1>1, <2>3, <2>4 DEF SelectFile
<1>2. ASSUME PressUpload(t) PROVE UploadInvariant'
  <2> DEFINE d == [card[t] EXCEPT !.pending = None, !.picker = None, !.outcome = "none"]
  <2>1. d \in Card /\ {d.archive, d.pending, d.picker} \subseteq {None, card[t].archive}
    BY <1>0 DEF Card
  <2> HIDE DEF d
  <2>2. card' = [card EXCEPT ![t] = d]
        /\ calls' = LeftBehind(t) \cup {NewCall("hash", t, card[t].file, None, {})}
    BY <1>2 DEF PressUpload, StartsRun, d
  <2>3. card' \in [Tabs -> Card] /\ \A u \in Tabs : CardOK(card'[u])
    BY <2>1, <2>2, CardsKept
  <2>4. \A x \in {NewCall("hash", t, card[t].file, None, {})} : Sound(x)
    BY <1>0, HashCallOK
  <2>5. acts' \in 0 .. MaxActs /\ UNCHANGED <<row, store, faults>>
    BY <1>2, ActsBound DEF PressUpload, Acts
  <2> QED
    BY <2>2, <2>3, <2>4, <2>5, UserStep, ZenonT(40)
<1>3. ASSUME Pause(t) PROVE UploadInvariant'
  <2>1. calls' = LeftBehind(t) /\ card' = card
    BY <1>3 DEF Pause
  <2> QED
    BY <1>0, <1>3, <2>1, ActsBound, UserStepNoCall DEF Pause, Acts
<1>4. ASSUME CancelUpload(t) PROVE UploadInvariant'
  <2> DEFINE d == [EmptyCard EXCEPT !.picker = card[t].picker]
  <2>1. d \in Card /\ {d.archive, d.pending, d.picker} \subseteq {None, card[t].picker}
    BY <1>0 DEF Card, EmptyCard
  <2>2. card' = [card EXCEPT ![t] = d] /\ calls' = LeftBehind(t) \cup Deletes(card[t].archive)
    BY <1>4 DEF CancelUpload
  <2> HIDE DEF d
  <2>3. card' \in [Tabs -> Card] /\ \A u \in Tabs : CardOK(card'[u])
    BY <2>1, <2>2, CardsKept
  <2>4. \A x \in Deletes(card[t].archive) : Sound(x)
    BY DeletesOK
  <2> QED
    BY <1>4, <2>2, <2>3, <2>4, ActsBound, UserStep DEF CancelUpload, Acts
<1>5. ASSUME DiscardPending(t) PROVE UploadInvariant'
  <2> DEFINE d == [card[t] EXCEPT !.pending = None]
  <2>1. d \in Card /\ {d.archive, d.pending, d.picker} \subseteq {None, card[t].archive, card[t].picker}
    BY <1>0 DEF Card
  <2>2. card' = [card EXCEPT ![t] = d] /\ calls' = calls \cup Deletes(card[t].pending)
    BY <1>5 DEF DiscardPending
  <2> HIDE DEF d
  <2>3. card' \in [Tabs -> Card] /\ \A u \in Tabs : CardOK(card'[u])
    BY <2>1, <2>2, CardsKept
  <2>4. \A x \in Deletes(card[t].pending) : Sound(x)
    BY DeletesOK
  <2> QED
    BY <1>5, <2>2, <2>3, <2>4, ActsBound, UserStep DEF DiscardPending, Acts
<1>6. ASSUME UploadAnother(t) PROVE UploadInvariant'
  <2> DEFINE d == [card[t] EXCEPT !.file = None, !.archive = None, !.outcome = "none"]
  <2>1. d \in Card /\ {d.archive, d.pending, d.picker} \subseteq {None, card[t].pending, card[t].picker}
    BY <1>0 DEF Card
  <2>2. card' = [card EXCEPT ![t] = d] /\ calls' = LeftBehind(t) \cup Deletes(card[t].archive)
    BY <1>6 DEF UploadAnother
  <2> HIDE DEF d
  <2>3. card' \in [Tabs -> Card] /\ \A u \in Tabs : CardOK(card'[u])
    BY <2>1, <2>2, CardsKept
  <2>4. \A x \in Deletes(card[t].archive) : Sound(x)
    BY DeletesOK
  <2> QED
    BY <1>6, <2>2, <2>3, <2>4, ActsBound, UserStep DEF UploadAnother, Acts
<1>7. ASSUME DiscardPicked(t) PROVE UploadInvariant'
  <2> DEFINE d == [EmptyCard EXCEPT !.archive = card[t].archive]
  <2>1. d \in Card /\ {d.archive, d.pending, d.picker} \subseteq {None, card[t].archive}
    BY <1>0 DEF Card, EmptyCard
  <2>2. card' = [card EXCEPT ![t] = d] /\ calls' = calls \cup Deletes(card[t].picker)
    BY <1>7 DEF DiscardPicked
  <2> HIDE DEF d
  <2>3. card' \in [Tabs -> Card] /\ \A u \in Tabs : CardOK(card'[u])
    BY <2>1, <2>2, CardsKept
  <2>4. \A x \in Deletes(card[t].picker) : Sound(x)
    BY DeletesOK
  <2> QED
    BY <1>7, <2>2, <2>3, <2>4, ActsBound, UserStep DEF DiscardPicked, Acts
<1>8. ASSUME Leave(t) PROVE UploadInvariant'
  <2>1. EmptyCard \in Card /\ {EmptyCard.archive, EmptyCard.pending, EmptyCard.picker} = {None}
    BY <1>0 DEF EmptyCard
  <2>2. card' = [card EXCEPT ![t] = EmptyCard] /\ calls' = LeftBehind(t)
    BY <1>8 DEF Leave
  <2>3. card' \in [Tabs -> Card] /\ \A u \in Tabs : CardOK(card'[u])
    BY <2>1, <2>2, CardsKept
  <2> QED
    BY <1>8, <2>2, <2>3, ActsBound, UserStepNoCall DEF Leave, Acts
<1>9. ASSUME Look(t) PROVE UploadInvariant'
  <2>1. PICK a \in Archives : /\ Status(a) \in {"uploading", "scanned"}
                             /\ \/ card' = [card EXCEPT ![t].picker = a]
                                \/ card' = [card EXCEPT ![t].pending = a]
    BY <1>9, <1>0 DEF Look, Card
  <2>2. card' \in [Tabs -> Card] /\ \A u \in Tabs : CardOK(card'[u])
    BY <1>0, <2>1 DEF Card, CardOK
  <2>3. calls' = calls /\ UNCHANGED <<row, store, acts, faults>>
    BY <1>9 DEF Look
  <2> QED
    BY <1>0, <2>2, <2>3, UserStepNoCall
<1>10. ASSUME Restore(t) PROVE UploadInvariant'
  <2> DEFINE a == card[t].picker
  <2>1. /\ a \in Archives /\ Status(a) \in {"uploaded", "scanned"}
        /\ row' = [row EXCEPT ![a].job = "active"]
        /\ UNCHANGED <<open, parts, object, calls, card, faults>>
        /\ acts' \in 0 .. MaxActs
    BY <1>10, <1>0, ActsBound DEF Restore, store, Card
  <2> QED
    BY <2>1, JobKeeps
<1> QED
  BY <1>1, <1>2, <1>3, <1>4, <1>5, <1>6, <1>7, <1>8, <1>9, <1>10 DEF User

-----------------------------------------------------------------------------
(* Steps of a call *)

\* What the invariant says of a call and the cards.
LEMMA CallFacts ==
    ASSUME UploadInvariant, NEW c \in calls
    PROVE  /\ c \in Call /\ CallOK(c)
           /\ c.by \in Tabs \cup {Nobody} /\ (c.by # Nobody => c.by \in Tabs)
           /\ c.file \in Files \cup {None} /\ c.archive \in Archives \cup {None}
           /\ c.have \subseteq Parts /\ c.part \in Parts \cup {0}
           /\ c.seen \in {"none", "uploading", "uploaded", "scanned", "cancelled"}
           /\ c.stage \in {"sent", "begun"}
           /\ card \in [Tabs -> Card] /\ \A t \in Tabs : CardOK(card[t])
           /\ acts \in 0 .. MaxActs /\ faults \in 0 .. MaxFaults
BY DEF UploadInvariant, TypeOK, Call

\* A call that answers for nothing gives way to one that is sound, or to none.
LEMMA GivesWay ==
    ASSUME UploadInvariant, NEW c \in calls, UNCHANGED <<row, store, acts>>,
           NEW next, calls' = (calls \ {c}) \cup next,
           \A d \in next : d \in Call /\ CallOK(d) /\ ~Fresh(d),
           \/ faults' = faults /\ (Answers(c) => \E d \in next : SameWork(c, d))
           \/ faults' = faults + 1 /\ faults < MaxFaults,
           card' \in [Tabs -> Card], \A t \in Tabs : CardOK(card'[t])
    PROVE  UploadInvariant'
<1>1. \A d \in calls' : d \in Call /\ CallOK(d)
  BY DEF UploadInvariant, TypeOK
<1>2. OneOpens'
  BY DEF UploadInvariant, OneOpens, Fresh, Begins
<1>3. faults' \in 0 .. MaxFaults /\ acts' \in 0 .. MaxActs /\ (faults' = 0 => faults' = faults)
  BY UploadBounds, CallFacts
<1>4. ASSUME faults' = 0, NEW d \in calls, Answers(d) PROVE \E e \in calls' : SameWork(d, e)
  <2>1. CASE d = c
    BY <1>3, <1>4, <2>1, CallFacts, UploadBounds
  <2>2. CASE d # c
    <3>1. d \in calls' /\ SameWork(d, d)
      BY <2>2 DEF SameWork
    <3> QED
      BY <3>1
  <2> QED
    BY <2>1, <2>2
<1> QED
  BY <1>1, <1>2, <1>3, <1>4, QuietStep

\* What becomes of the card of a run that has come to an end.
LEMMA EndsRunCard ==
    ASSUME UploadInvariant, NEW c \in calls,
           NEW outcome \in {"failed", "rejected"}, EndsRun(c, outcome)
    PROVE  /\ calls' = calls \ {c}
           /\ card' \in [Tabs -> Card]
           /\ \A t \in Tabs : CardOK(card'[t])
<1>1. CASE c.by = Nobody
  BY <1>1, CallFacts DEF EndsRun
<1>2. CASE c.by # Nobody
  <2> DEFINE d == [card[c.by] EXCEPT !.outcome = outcome]
  <2>1. c.by \in Tabs /\ card[c.by] \in Card
    BY <1>2, CallFacts
  <2>2. /\ d \in Card /\ d.archive = card[c.by].archive /\ d.pending = card[c.by].pending
        /\ d.picker = card[c.by].picker
    BY <2>1 DEF Card
  <2>3. card' = [card EXCEPT ![c.by] = d]
    BY <1>2 DEF EndsRun
  <2> HIDE DEF d
  <2>4. card' \in [Tabs -> Card] /\ \A t \in Tabs : CardOK(card'[t])
    BY <2>1, <2>2, <2>3, CardsKept
  <2> QED
    BY <2>4 DEF EndsRun
<1> QED
  BY <1>1, <1>2

\* A run that ends leaves what the card names.
LEMMA EndsRunFields ==
    ASSUME UploadInvariant, NEW c \in calls, NEW outcome, EndsRun(c, outcome), NEW t \in Tabs
    PROVE  /\ card'[t].archive = card[t].archive
           /\ card'[t].pending = card[t].pending
           /\ card'[t].picker = card[t].picker
<1>1. card \in [Tabs -> Card] /\ card[t] \in Card
  BY CallFacts
<1> QED
  BY <1>1 DEF EndsRun, Card

\* A call that answers for nothing, or one that fails, may end its run.
LEMMA EndsRunKeeps ==
    ASSUME UploadInvariant, NEW c \in calls,
           NEW outcome \in {"failed", "rejected"}, EndsRun(c, outcome),
           UNCHANGED <<row, store, acts>>,
           \/ ~Answers(c) /\ faults' = faults
           \/ faults < MaxFaults /\ faults' = faults + 1
    PROVE  UploadInvariant'
<1> DEFINE next == {}
<1>1. calls' = (calls \ {c}) \cup next /\ \A d \in next : d \in Call /\ CallOK(d) /\ ~Fresh(d)
  BY EndsRunCard
<1> HIDE DEF next
<1> QED
  BY <1>1, EndsRunCard, GivesWay

\* A run goes on with one call at most.
LEMMA ContinuesWith ==
    ASSUME NEW c, NEW d, Continues(c, d)
    PROVE  \E next \in SUBSET {d} : calls' = (calls \ {c}) \cup next
                                  /\ (c.by = Nobody => next = {})
BY DEF Continues

\* The fingerprint is there and the start is sent.
LEMMA HashedKeeps ==
    ASSUME UploadInvariant, NEW c \in calls, Hashed(c)
    PROVE  UploadInvariant'
<1> DEFINE d == NewCall("start", c.by, c.file, None, {})
<1>1. d \in Call /\ CallOK(d) /\ ~Fresh(d)
  BY CallFacts, NoneAssumption DEF NewCall, Call, CallOK, Fresh, Begins, Over
<1>2. PICK next \in SUBSET {d} : calls' = (calls \ {c}) \cup next
  BY ContinuesWith DEF Hashed
<1>3. ~Answers(c) /\ UNCHANGED <<row, store, card, acts, faults>>
  BY DEF Hashed, Answers, Fresh
<1>4. \A e \in next : e \in Call /\ CallOK(e) /\ ~Fresh(e)
  BY <1>1, <1>2
<1> HIDE DEF d
<1> QED
  BY <1>2, <1>3, <1>4, CallFacts, GivesWay

\* A call fails; from then on nothing is claimed of rows and store that disagree.
LEMMA CallFailsKeeps ==
    ASSUME UploadInvariant, NEW c \in calls, CallFails(c)
    PROVE  UploadInvariant'
<1>1. PICK outcome \in {"failed", "rejected"} : EndsRun(c, outcome)
  BY DEF CallFails
<1> QED
  BY <1>1, EndsRunKeeps DEF CallFails

\* A scan begins to read its object.
LEMMA BeginScanKeeps ==
    ASSUME UploadInvariant, NEW c \in calls, BeginScan(c)
    PROVE  UploadInvariant'
<1> DEFINE a == c.archive
           d == [c EXCEPT !.stage = "begun", !.archive = a, !.seen = Status(a)]
<1>1. ~Answers(c) /\ c.kind = "scan" /\ UNCHANGED <<row, store, acts, faults>>
  BY DEF BeginScan, IsCall, Answers, Fresh, Begins
<1>2. CASE EndsRun(c, "rejected")
  BY <1>1, <1>2, EndsRunKeeps
<1>3. CASE Begun(c, a, Status(a)) /\ UNCHANGED card /\ (Status(a) = "scanned" \/ a \in object)
  <2>1. a \in Archives /\ Status(a) \in Over /\ row[a] \in Row
    BY <1>1, CallFacts DEF CallOK, UploadInvariant, TypeOK
  <2>2. a \in object
    BY <1>3, <2>1 DEF UploadInvariant, RowOK
  <2>3. d \in Call /\ CallOK(d) /\ ~Fresh(d)
    BY <1>1, <2>1, <2>2, CallFacts DEF Call, CallOK, Fresh, Begins, Over
  <2>4. calls' = (calls \ {c}) \cup {d}
    BY <1>3 DEF Begun
  <2> HIDE DEF d
  <2> QED
    BY <1>1, <1>3, <2>3, <2>4, CallFacts, GivesWay, ZenonT(40)
<1> QED
  BY <1>2, <1>3 DEF BeginScan

-----------------------------------------------------------------------------
(* Handlers that begin *)

\* A start finds an archive or opens a multipart upload.
LEMMA BeginStartKeeps ==
    ASSUME UploadInvariant, NEW c \in calls, BeginStart(c)
    PROVE  UploadInvariant'
<1>1. /\ c.kind = "start" /\ ~Begins(c) /\ ~Answers(c) /\ ~Fresh(c)
      /\ UNCHANGED <<row, parts, object, card, acts, faults>>
  BY DEF BeginStart, IsCall, Begins, Answers, Fresh
<1>2. ASSUME NEW a \in Archives, Begun(c, a, Status(a)), UNCHANGED open,
             \/ Status(a) \in Over /\ a \in object
             \/ Status(a) = "uploading"
      PROVE  UploadInvariant'
  <2> DEFINE d == [c EXCEPT !.stage = "begun", !.archive = a, !.seen = Status(a)]
  <2>1. a # None
    BY NoneAssumption
  <2>2. d \in Call /\ CallOK(d) /\ ~Fresh(d)
    BY <1>1, <1>2, <2>1, CallFacts DEF Call, CallOK, Fresh, Begins, Over
  <2>3. calls' = (calls \ {c}) \cup {d}
    BY <1>2 DEF Begun
  <2> HIDE DEF d
  <2> QED
    BY <1>1, <1>2, <2>2, <2>3, CallFacts, GivesWay, ZenonT(40) DEF store
<1>3. ASSUME NEW a \in Unused, Begun(c, a, "none"), open' = open \cup {a}
      PROVE  UploadInvariant'
  <2> DEFINE d == [c EXCEPT !.stage = "begun", !.archive = a, !.seen = "none"]
  <2>1. /\ a \in Archives /\ a \notin open /\ Status(a) = "none" /\ a # None
        /\ \A e \in calls : e.archive # a
    BY NoneAssumption DEF Unused
  <2>2. calls' = (calls \ {c}) \cup {d}
    BY <1>3 DEF Begun
  <2>3. d \in Call /\ CallOK(d)' /\ Fresh(d) /\ d.archive = a
    BY <1>1, <1>3, <2>1, CallFacts DEF Call, CallOK, Fresh, Begins, Over, Status
  <2> HIDE DEF d
  <2>4. ASSUME NEW e \in calls PROVE CallOK(e)'
    <3>1. CallOK(e) /\ e.archive # a
      BY <2>1, CallFacts
    <3> QED
      BY <1>1, <1>3, <3>1 DEF CallOK, Status
  <2>5. TypeOK'
    BY <1>1, <1>3, <2>1, <2>2, <2>3 DEF UploadInvariant, TypeOK
  <2>6. \A t \in Tabs : CardOK(card[t])'
    BY <1>1 DEF UploadInvariant, CardOK, Status
  <2>7. \A b \in Archives : RowOK(b)'
    BY <1>1, <1>3, <2>1 DEF UploadInvariant, RowOK, Status, Over
  <2>8. OneOpens'
    BY <2>1, <2>2, <2>3 DEF UploadInvariant, OneOpens
  <2>9. ASSUME faults' = 0, NEW b \in Archives PROVE Answered(b)'
    <3>1. CASE b = a
      <4>1. Opens(a)'
        BY <2>2, <2>3 DEF Opens
      <4> QED
        BY <1>1, <2>1, <3>1, <4>1 DEF Answered, Status
    <3>2. CASE b # a
      <4>1. Answered(b)
        BY <1>1, <2>9 DEF UploadInvariant
      <4>2. (Opens(b) => Opens(b)') /\ (Closes(b) => Closes(b)')
        BY <1>1, <2>2 DEF Opens, Closes
      <4> QED
        BY <1>1, <1>3, <3>2, <4>1, <4>2 DEF Answered, Status
    <3> QED
      BY <3>1, <3>2
  <2> QED
    BY <2>2, <2>3, <2>4, <2>5, <2>6, <2>7, <2>8, <2>9 DEF UploadInvariant
<1>4. CASE \E a \in Reusable(c.file) : Begun(c, a, Status(a)) /\ UNCHANGED open
  <2>1. \A a \in Reusable(c.file) : a \in Archives /\ Status(a) \in Over /\ a \in object
    BY DEF Reusable, Over, UploadInvariant, TypeOK
  <2> QED
    BY <1>2, <1>4, <2>1
<1>5. CASE \E a \in Resumable(c.file) : Begun(c, a, "uploading") /\ UNCHANGED open
  <2>1. \A a \in Resumable(c.file) : a \in Archives /\ Status(a) = "uploading"
    BY DEF Resumable, UploadInvariant, TypeOK
  <2> QED
    BY <1>2, <1>5, <2>1
<1>6. CASE /\ Unused # {}
           /\ LET a == CHOOSE b \in Unused : TRUE
              IN Begun(c, a, "none") /\ open' = open \cup {a}
  BY <1>3, <1>6
<1> QED
  BY <1>4, <1>5, <1>6 DEF BeginStart

\* A part is stored, or its upload is gone.
LEMMA PutPartKeeps ==
    ASSUME UploadInvariant, NEW c \in calls, PutPart(c)
    PROVE  UploadInvariant'
<1> DEFINE a == c.archive
<1>1. /\ c.kind = "put" /\ ~Begins(c) /\ ~Answers(c)
      /\ UNCHANGED <<row, open, object, acts, faults>>
      /\ a \in Archives /\ a # None /\ Status(a) # "none" /\ c.part \in Parts
      /\ a \in open => c.have \subseteq parts[a]
  BY CallFacts, NoneAssumption DEF PutPart, IsCall, Begins, Answers, Fresh, CallOK
<1>2. CASE EndsRun(c, "failed") /\ UNCHANGED parts
  BY <1>1, <1>2, EndsRunKeeps DEF store
<1>3. CASE /\ a \in open
           /\ parts' = [parts EXCEPT ![a] = @ \cup {c.part}]
           /\ Continues(c, NextCall(c.by, a, c.have \cup {c.part}))
           /\ UNCHANGED card
  <2> DEFINE d == NextCall(c.by, a, c.have \cup {c.part})
  <2>1. PICK next \in SUBSET {d} : calls' = (calls \ {c}) \cup next
    BY <1>3, ContinuesWith
  <2>2. /\ d \in Call /\ d.archive = a /\ d.have = c.have \cup {c.part} /\ d.stage = "sent"
        /\ \/ d.kind = "put" /\ d.part \in Parts
           \/ d.kind = "complete" /\ d.have = Parts
    <3>1. c.by \in Tabs \cup {Nobody} /\ c.have \cup {c.part} \in SUBSET Parts
      BY <1>1, CallFacts
    <3> QED
      BY <1>1, <3>1, NextCallSound
  <2> HIDE DEF d
  <2>3. /\ parts \in [Archives -> SUBSET Parts] /\ parts' \in [Archives -> SUBSET Parts]
        /\ \A b \in Archives : parts[b] \subseteq parts'[b]
        /\ parts'[a] = parts[a] \cup {c.part}
    BY <1>1, <1>3 DEF UploadInvariant, TypeOK
  <2>4. CallOK(d)' /\ ~Begins(d)
    BY <1>1, <1>3, <2>2, <2>3 DEF CallOK, Fresh, Begins, Status
  <2>5. ASSUME NEW e \in calls PROVE CallOK(e)'
    <3>1. CallOK(e)
      BY CallFacts
    <3> QED
      BY <1>1, <2>3, <3>1 DEF CallOK, Status
  <2>6. TypeOK'
    BY <1>1, <1>3, <2>1, <2>2, <2>3 DEF UploadInvariant, TypeOK
  <2>7. \A t \in Tabs : CardOK(card[t])'
    BY <1>1, <1>3 DEF UploadInvariant, CardOK, Status
  <2>8. \A b \in Archives : RowOK(b)'
    BY <1>1 DEF UploadInvariant, RowOK, Status
  <2>9. OneOpens'
    BY <2>1, <2>4 DEF UploadInvariant, OneOpens, Fresh
  <2>10. ASSUME faults' = 0, NEW b \in Archives PROVE Answered(b)'
    <3>1. Answered(b)
      BY <1>1, <2>10 DEF UploadInvariant
    <3>2. (Opens(b) => Opens(b)') /\ (Closes(b) => Closes(b)')
      BY <1>1, <2>1 DEF Opens, Closes, Fresh
    <3> QED
      BY <1>1, <3>1, <3>2 DEF Answered, Status
  <2> QED
    BY <2>1, <2>4, <2>5, <2>6, <2>7, <2>8, <2>9, <2>10 DEF UploadInvariant
<1> QED
  BY <1>2, <1>3 DEF PutPart

\* A handler that takes the multipart upload of its row off the store, if there is one.
LEMMA TakesOff ==
    ASSUME UploadInvariant, NEW c \in calls, NEW a \in Archives, a = c.archive,
           c.kind \in {"complete", "delete"}, ~Begins(c), Begun(c, a, Status(a)),
           UNCHANGED <<row, card, acts, faults>>,
           open' = open \ {a}, parts' \in [Archives -> SUBSET Parts],
           \A b \in Archives \ {a} : parts'[b] = parts[b],
           object \subseteq object', object' \subseteq Archives,
           c.kind = "complete" => a \in object'
    PROVE  UploadInvariant'
<1>1. Status(a) # "none" /\ a # None /\ row[a] \in Row
  BY CallFacts, NoneAssumption DEF CallOK, Fresh, UploadInvariant, TypeOK
<1>2. PICK d : d = [c EXCEPT !.stage = "begun", !.archive = a, !.seen = Status(a)]
               /\ calls' = (calls \ {c}) \cup {d}
  BY DEF Begun
<1>3. /\ d \in Call /\ d.archive = a /\ Begins(d) /\ d.kind = c.kind /\ d.seen = Status(a)
      /\ d.have = c.have
  <2>1. c \in Call /\ Status(a) \in {"none", "uploading", "uploaded", "scanned", "cancelled"}
    BY <1>1, CallFacts DEF Row, Status
  <2>2. d \in Call
    BY <1>2, <2>1, ZenonT(40) DEF Call
  <2>3. /\ d.archive = a /\ d.stage = "begun" /\ d.kind = c.kind /\ d.seen = Status(a)
        /\ d.have = c.have
    BY <1>2, <2>1 DEF Call
  <2> QED
    BY <2>2, <2>3 DEF Begins
<1>4. CallOK(d)' /\ ~Fresh(d)
  <2>1. c.kind = "complete" => c.have = Parts
    BY CallFacts DEF CallOK
  <2> QED
    BY <1>1, <1>3, <2>1 DEF CallOK, Fresh, Begins, Status, Over
<1>5. ASSUME NEW e \in calls PROVE CallOK(e)'
  <2>1. CallOK(e)
    BY CallFacts
  <2>2. Fresh(e) => e.archive # a
    BY <1>1, <2>1 DEF CallOK
  <2> QED
    BY <2>1, <2>2 DEF CallOK, Status
<1>6. TypeOK'
  BY <1>2, <1>3 DEF UploadInvariant, TypeOK
<1>7. \A t \in Tabs : CardOK(card[t])'
  BY DEF UploadInvariant, CardOK, Status
<1>8. \A b \in Archives : RowOK(b)'
  BY DEF UploadInvariant, RowOK, Status
<1>9. OneOpens'
  BY <1>2, <1>4 DEF UploadInvariant, OneOpens
<1>10. ASSUME faults' = 0, NEW b \in Archives PROVE Answered(b)'
  <2>1. CASE b = a
    <3>1. Status(a) = "uploading" => Closes(a)'
      BY <1>2, <1>3 DEF Closes
    <3> QED
      BY <1>1, <2>1, <3>1 DEF Answered, Status
  <2>2. CASE b # a
    <3>1. Answered(b)
      BY <1>10 DEF UploadInvariant
    <3>2. (Opens(b) => Opens(b)') /\ (Closes(b) => Closes(b)')
      BY <1>2 DEF Opens, Closes, Fresh
    <3> QED
      BY <2>2, <3>1, <3>2 DEF Answered, Status
  <2> QED
    BY <2>1, <2>2
<1>11. \A e \in calls' : CallOK(e)'
  BY <1>2, <1>4, <1>5
<1> QED
  BY <1>6, <1>7, <1>8, <1>9, <1>10, <1>11 DEF UploadInvariant

\* The store puts the parts together.
LEMMA BeginCompleteKeeps ==
    ASSUME UploadInvariant, NEW c \in calls, BeginComplete(c)
    PROVE  UploadInvariant'
<1> DEFINE a == c.archive
<1>1. /\ c.kind = "complete" /\ ~Begins(c) /\ ~Answers(c) /\ a \in Archives
      /\ UNCHANGED <<row, acts, faults>>
  BY CallFacts DEF BeginComplete, IsCall, Begins, Answers, CallOK
<1>2. CASE EndsRun(c, "failed") /\ UNCHANGED store
  BY <1>1, <1>2, EndsRunKeeps
<1>3. CASE /\ open' = open \ {a} /\ object' = object \cup {a}
           /\ parts' = [parts EXCEPT ![a] = {}]
           /\ Begun(c, a, Status(a)) /\ UNCHANGED card
  <2>1. /\ parts' \in [Archives -> SUBSET Parts]
        /\ \A b \in Archives \ {a} : parts'[b] = parts[b]
        /\ object' \subseteq Archives
    BY <1>1, <1>3 DEF UploadInvariant, TypeOK
  <2> QED
    BY <1>1, <1>3, <2>1, TakesOff
<1> QED
  BY <1>2, <1>3 DEF BeginComplete

\* The store drops the multipart upload.
LEMMA BeginDeleteKeeps ==
    ASSUME UploadInvariant, NEW c \in calls, BeginDelete(c)
    PROVE  UploadInvariant'
<1> DEFINE a == c.archive
<1>1. /\ c.kind = "delete" /\ ~Begins(c) /\ ~Answers(c) /\ a \in Archives
      /\ Status(a) # "none" /\ row[a] \in Row /\ RowOK(a)
      /\ UNCHANGED <<row, acts, faults>>
  BY CallFacts, NoneAssumption
  DEF BeginDelete, IsCall, Begins, Answers, CallOK, Fresh, UploadInvariant, TypeOK
<1>2. CASE EndsRun(c, "failed") /\ UNCHANGED store
  BY <1>1, <1>2, EndsRunKeeps
<1>3. CASE /\ Begun(c, a, Status(a)) /\ UNCHANGED <<object, card>>
           /\ IF row[a].mp
              THEN open' = open \ {a} /\ parts' = [parts EXCEPT ![a] = {}]
              ELSE UNCHANGED <<open, parts>>
  <2>1. open' = open \ {a}
    <3>1. ~row[a].mp => a \notin open
      BY <1>1 DEF RowOK, Row, Status, Over
    <3> QED
      BY <1>3, <3>1
  <2>2. /\ parts' \in [Archives -> SUBSET Parts]
        /\ \A b \in Archives \ {a} : parts'[b] = parts[b]
        /\ object' \subseteq Archives
    BY <1>1, <1>3 DEF UploadInvariant, TypeOK
  <2> QED
    BY <1>1, <1>3, <2>1, <2>2, TakesOff
<1> QED
  BY <1>2, <1>3 DEF BeginDelete

-----------------------------------------------------------------------------
(* Handlers that commit *)

\* A handler commits: call c ends in a step that makes r of the row of a, leaves
\* calls `next` on their way, and shows a on cards if anything new.
Commits(c, a, r, next) ==
    /\ c.archive = a /\ (Fresh(c) \/ Status(a) # "none")
    /\ row' = [row EXCEPT ![a] = r]
    /\ r \in Row /\ r.status # "none" /\ (Status(a) \in Over => r.status \in Over)
    /\ r.status = "uploading" => a \in open
    /\ r.mp <=> r.status = "uploading"
    /\ r.status \in Over => a \notin open
    /\ r.status \in {"uploaded", "scanned"} \/ r.job = "active" => a \in object
    /\ UNCHANGED <<store, acts, faults>>
    /\ calls' = (calls \ {c}) \cup next
    /\ \A d \in next : d \in Call /\ ~Begins(d) /\ CallOK(d)'
    /\ card' \in [Tabs -> Card]
    /\ \A t \in Tabs : {card'[t].archive, card'[t].pending, card'[t].picker}
                        \subseteq {None, a, card[t].archive, card[t].pending, card[t].picker}

\* What the others rely on stays, since the row is there afterwards and is over
\* if it was.
LEMMA CommitKeeps ==
    ASSUME UploadInvariant, NEW c \in calls, NEW a \in Archives, NEW r, NEW next,
           Commits(c, a, r, next)
    PROVE  UploadInvariant'
<1>0. /\ c.archive = a /\ (Fresh(c) \/ Status(a) # "none")
      /\ row' = [row EXCEPT ![a] = r]
      /\ r \in Row /\ r.status # "none" /\ (Status(a) \in Over => r.status \in Over)
      /\ r.status = "uploading" => a \in open
      /\ r.mp <=> r.status = "uploading"
      /\ r.status \in Over => a \notin open
      /\ r.status \in {"uploaded", "scanned"} \/ r.job = "active" => a \in object
      /\ UNCHANGED <<store, acts, faults>>
      /\ calls' = (calls \ {c}) \cup next
      /\ \A d \in next : d \in Call /\ ~Begins(d) /\ CallOK(d)'
      /\ card' \in [Tabs -> Card]
      /\ \A t \in Tabs : {card'[t].archive, card'[t].pending, card'[t].picker}
                          \subseteq {None, a, card[t].archive, card[t].pending, card[t].picker}
  BY DEF Commits
<1> USE <1>0
<1>1. /\ row \in [Archives -> Row] /\ row' \in [Archives -> Row]
      /\ row'[a] = r /\ \A b \in Archives \ {a} : row'[b] = row[b]
  BY DEF UploadInvariant, TypeOK
<1>2. ASSUME NEW e \in calls \ {c} PROVE CallOK(e)'
  <2>1. CallOK(e) /\ e.archive \in Archives \cup {None}
    BY CallFacts
  <2>2. ~ (Fresh(e) /\ e.archive = a)
    BY <2>1 DEF UploadInvariant, OneOpens, CallOK
  <2>3. CASE e.archive = a
    BY <1>1, <2>1, <2>2, <2>3 DEF CallOK, Status, store
  <2>4. CASE e.archive # a
    BY <1>1, <2>1, <2>4, NoneAssumption DEF CallOK, Status, store, Fresh
  <2> QED
    BY <2>3, <2>4
<1>3. \A d \in calls' : d \in Call /\ CallOK(d)'
  BY <1>2, CallFacts
<1>4. TypeOK'
  BY <1>1, <1>3 DEF UploadInvariant, TypeOK, store
<1>5. \A t \in Tabs : CardOK(card[t])'
  <2> SUFFICES ASSUME NEW t \in Tabs,
                      NEW b \in {card'[t].archive, card'[t].pending, card'[t].picker}, b # None
               PROVE  row'[b].status # "none"
    BY DEF CardOK, Status
  <2>1. b \in {a, card[t].archive, card[t].pending, card[t].picker}
    OBVIOUS
  <2>2. CASE b = a
    BY <1>1, <2>2
  <2>3. CASE b # a
    <3>1. b \in Archives /\ Status(b) # "none"
      BY <2>1, <2>3 DEF UploadInvariant, TypeOK, Card, CardOK
    <3> QED
      BY <1>1, <2>3, <3>1 DEF Status
  <2> QED
    BY <2>2, <2>3
<1>6. \A b \in Archives : RowOK(b)'
  BY <1>1 DEF UploadInvariant, RowOK, Status, store
<1>7. OneOpens'
  BY DEF UploadInvariant, OneOpens, Fresh
<1>8. ASSUME faults' = 0, NEW b \in Archives PROVE Answered(b)'
  <2>1. CASE b = a
    BY <1>1, <2>1 DEF Answered, Status, store
  <2>2. CASE b # a
    <3>1. Answered(b)
      BY <1>8 DEF UploadInvariant
    <3>2. (Opens(b) => Opens(b)') /\ (Closes(b) => Closes(b)')
      BY <2>2 DEF Opens, Closes
    <3> QED
      BY <1>1, <2>2, <3>1, <3>2 DEF Answered, Status, store
  <2> QED
    BY <2>1, <2>2
<1> QED
  BY <1>3, <1>4, <1>5, <1>6, <1>7, <1>8 DEF UploadInvariant

\* The completed archive's row is written.
LEMMA CommitCompleteKeeps ==
    ASSUME UploadInvariant, NEW c \in calls, CommitComplete(c)
    PROVE  UploadInvariant'
<1> DEFINE a == c.archive
           d == NewCall("scan", c.by, None, a, {})
<1>1. /\ c.kind = "complete" /\ Begins(c) /\ ~Fresh(c)
      /\ UNCHANGED <<store, card, acts, faults>> /\ Continues(c, d)
      /\ row' = [row EXCEPT ![a].mp = FALSE, ![a].status = "uploaded"]
  BY DEF CommitComplete, IsCall, Begins, Fresh
<1>2. a \in Archives /\ a # None /\ Status(a) # "none" /\ a \in object /\ a \notin open
  BY <1>1, CallFacts, NoneAssumption DEF CallOK
<1>3. PICK r : /\ r = [row[a] EXCEPT !.mp = FALSE, !.status = "uploaded"]
               /\ row' = [row EXCEPT ![a] = r]
  BY <1>1
<1>4. row \in [Archives -> Row] /\ row[a] \in Row
  BY <1>2 DEF UploadInvariant, TypeOK
<1>5. r \in Row /\ r.status = "uploaded" /\ ~r.mp
  BY <1>3, <1>4 DEF Row
<1>6. Status(a)' = "uploaded"
  BY <1>2, <1>3, <1>4, <1>5 DEF Status
<1>7. d \in Call /\ ~Begins(d) /\ CallOK(d)'
  BY <1>2, <1>6, CallFacts DEF NewCall, Call, CallOK, Fresh, Begins, Over
<1>8. PICK next \in SUBSET {d} : calls' = (calls \ {c}) \cup next
  BY <1>1, ContinuesWith
<1>9. card' \in [Tabs -> Card]
  BY <1>1, CallFacts
<1>10. \A e \in next : e \in Call /\ ~Begins(e) /\ CallOK(e)'
  BY <1>7, <1>8
<1>11. UNCHANGED <<store, acts, faults>> /\ card' = card
  BY <1>1
<1> HIDE DEF d
<1>12. Commits(c, a, r, next)
  BY <1>2, <1>3, <1>5, <1>8, <1>9, <1>10, <1>11 DEF Over, Commits
<1> QED
  BY <1>2, <1>12, CommitKeeps

\* The cancelled archive's row is written.
LEMMA CommitDeleteKeeps ==
    ASSUME UploadInvariant, NEW c \in calls, CommitDelete(c)
    PROVE  UploadInvariant'
<1> DEFINE a == c.archive
           next == {}
<1>1. /\ c.kind = "delete" /\ Begins(c) /\ ~Fresh(c)
      /\ UNCHANGED <<store, acts, faults>> /\ EndsRun(c, "failed")
  BY DEF CommitDelete, IsCall, Begins, Fresh
<1>2. /\ a \in Archives /\ a # None /\ Status(a) # "none" /\ a \notin open
      /\ c.seen \in Over => Status(a) \in Over
  BY <1>1, CallFacts, NoneAssumption DEF CallOK
<1>3. row \in [Archives -> Row] /\ row[a] \in Row /\ RowOK(a)
  BY <1>2 DEF UploadInvariant, TypeOK
<1>4. PICK r : /\ row' = [row EXCEPT ![a] = r]
               /\ \/ r = row[a] /\ c.seen = "cancelled"
                  \/ r = [row[a] EXCEPT !.mp = FALSE, !.status = "cancelled"]
  <2>1. row = [row EXCEPT ![a] = row[a]]
    BY <1>3
  <2> QED
    BY <2>1 DEF CommitDelete
<1>5. /\ r \in Row /\ r.status \in Over /\ ~r.mp
      /\ r.status \in {"uploaded", "scanned"} \/ r.job = "active" => a \in object
  <2>1. CASE r = row[a] /\ c.seen = "cancelled"
    BY <1>2, <1>3, <2>1 DEF RowOK, Status, Over, Row
  <2>2. CASE r = [row[a] EXCEPT !.mp = FALSE, !.status = "cancelled"]
    BY <1>3, <2>2 DEF RowOK, Status, Over, Row
  <2> QED
    BY <1>4, <2>1, <2>2
<1>6. /\ calls' = (calls \ {c}) \cup next /\ card' \in [Tabs -> Card]
      /\ \A t \in Tabs : /\ card'[t].archive = card[t].archive
                         /\ card'[t].pending = card[t].pending
                         /\ card'[t].picker = card[t].picker
  BY <1>1, EndsRunCard, EndsRunFields
<1>7. \A d \in next : d \in Call /\ ~Begins(d) /\ CallOK(d)'
  OBVIOUS
<1>8. \A t \in Tabs : {card'[t].archive, card'[t].pending, card'[t].picker}
                          \subseteq {None, a, card[t].archive, card[t].pending, card[t].picker}
  BY <1>6
<1> HIDE DEF next
<1>9. Commits(c, a, r, next)
  BY <1>1, <1>2, <1>4, <1>5, <1>6, <1>7, <1>8 DEF Over, Commits
<1> QED
  BY <1>2, <1>9, CommitKeeps

\* The scanned archive's row is written, and it goes to the picker.
LEMMA CommitScanKeeps ==
    ASSUME UploadInvariant, NEW c \in calls, CommitScan(c)
    PROVE  UploadInvariant'
<1> DEFINE a == c.archive
           next == {}
<1>1. /\ c.kind = "scan" /\ Begins(c) /\ ~Fresh(c)
      /\ UNCHANGED <<store, acts, faults>> /\ calls' = (calls \ {c}) \cup next
  BY DEF CommitScan, IsCall, Begins, Fresh
<1>2. a \in Archives /\ a # None /\ Status(a) \in Over /\ a \in object
  BY <1>1, CallFacts, NoneAssumption DEF CallOK
<1>3. row \in [Archives -> Row] /\ row[a] \in Row /\ RowOK(a)
  BY <1>2 DEF UploadInvariant, TypeOK
<1>4. PICK r : /\ row' = [row EXCEPT ![a] = r]
               /\ r = [row[a] EXCEPT !.spaces = TRUE,
                                     !.status = IF c.seen = "scanned" THEN @ ELSE "scanned"]
  BY DEF CommitScan
<1>5. r \in Row /\ r.status \in Over /\ ~r.mp /\ a \notin open
  BY <1>2, <1>3, <1>4 DEF RowOK, Status, Over, Row
<1>6. /\ card' \in [Tabs -> Card]
      /\ \A t \in Tabs : {card'[t].archive, card'[t].pending, card'[t].picker}
                          \subseteq {None, a, card[t].archive, card[t].pending, card[t].picker}
  <2>1. CASE c.by = Nobody
    BY <2>1, CallFacts DEF CommitScan
  <2>2. CASE c.by # Nobody
    <3> DEFINE d == [card[c.by] EXCEPT !.archive = None, !.picker = a, !.outcome = "ready"]
    <3>1. c.by \in Tabs /\ card \in [Tabs -> Card] /\ card[c.by] \in Card
      BY <2>2, CallFacts
    <3>2. /\ d \in Card /\ d.archive = None /\ d.picker = a
          /\ d.pending = card[c.by].pending
      BY <1>2, <3>1 DEF Card
    <3>3. card' = [card EXCEPT ![c.by] = d]
      BY <2>2 DEF CommitScan
    <3> HIDE DEF d
    <3> QED
      BY <3>1, <3>2, <3>3
  <2> QED
    BY <2>1, <2>2
<1>7. \A d \in next : d \in Call /\ ~Begins(d) /\ CallOK(d)'
  OBVIOUS
<1> HIDE DEF next
<1>8. Commits(c, a, r, next)
  BY <1>1, <1>2, <1>4, <1>5, <1>6, <1>7 DEF Over, Commits
<1> QED
  BY <1>2, <1>8, CommitKeeps

\* The row of a started, resumed or reused archive is written, and its run goes on.
LEMMA CommitStartKeeps ==
    ASSUME UploadInvariant, NEW c \in calls, CommitStart(c)
    PROVE  UploadInvariant'
<1> DEFINE a == c.archive
           reused == c.seen \notin {"none", "uploading"}
<1>1. /\ c.kind = "start" /\ Begins(c) /\ (Fresh(c) <=> c.seen = "none")
      /\ UNCHANGED <<store, acts, faults>>
  BY DEF CommitStart, IsCall, Begins, Fresh
<1>2. /\ a \in Archives /\ a # None
      /\ reused => c.seen \in Over /\ Status(a) \in Over /\ a \in object
      /\ Fresh(c) => Status(a) = "none" /\ a \in open
      /\ ~Fresh(c) => Status(a) # "none"
  BY <1>1, CallFacts, NoneAssumption DEF CallOK, Over
<1>3. /\ row \in [Archives -> Row] /\ row[a] \in Row /\ RowOK(a)
      /\ parts[a] \subseteq Parts
  BY <1>2 DEF UploadInvariant, TypeOK
<1>4. CASE EndsRun(c, "failed") /\ UNCHANGED row /\ ~ (reused \/ a \in open)
  <2>1. ~Answers(c)
    BY <1>1, <1>2, <1>4 DEF Answers
  <2> QED
    BY <1>1, <1>4, <2>1, EndsRunKeeps
<1>5. CASE /\ reused \/ a \in open
           /\ row' = [row EXCEPT ![a] = StartedRow(c)]
           /\ Continues(c, IF reused THEN NewCall("scan", c.by, None, a, {})
                                     ELSE NextCall(c.by, a, parts[a]))
           /\ card' = IF c.by = Nobody THEN card ELSE [card EXCEPT ![c.by].archive = a]
  <2>1. PICK r : r = StartedRow(c) /\ row' = [row EXCEPT ![a] = r]
    BY <1>5
  <2>2. /\ r \in Row /\ r.status # "none"
        /\ Status(a) \in Over => r.status \in Over
        /\ r.status = "uploading" => a \in open
        /\ r.mp <=> r.status = "uploading"
        /\ r.status \in Over => a \notin open
        /\ r.status \in {"uploaded", "scanned"} \/ r.job = "active" => a \in object
        /\ reused => r.status \in Over
    <3>1. CASE c.seen = "none"
      <4>1. r = NewRow(c.file) /\ Fresh(c) /\ Status(a) = "none" /\ a \in open
        BY <1>1, <1>2, <2>1, <3>1 DEF StartedRow
      <4> QED
        BY <3>1, <4>1, CallFacts DEF NewRow, Row, Over
    <3>2. CASE c.seen = "cancelled"
      <4>1. r = Revived(row[a]) /\ Status(a) \in Over /\ a \in object
        BY <1>2, <2>1, <3>2 DEF StartedRow
      <4>2. ~row[a].mp /\ a \notin open
        BY <1>3, <4>1 DEF RowOK, Over
      <4> QED
        BY <1>3, <4>1, <4>2 DEF Revived, Row, Over
    <3>3. CASE c.seen = "uploading"
      <4>1. r = row[a] /\ Status(a) # "none" /\ a \in open
        BY <1>1, <1>2, <1>5, <2>1, <3>3 DEF StartedRow
      <4> QED
        BY <1>3, <3>3, <4>1 DEF RowOK, Status, Over, Row
    <3>4. CASE c.seen \notin {"none", "uploading", "cancelled"}
      <4>1. r = row[a] /\ Status(a) \in Over
        BY <1>2, <2>1, <3>4 DEF StartedRow
      <4> QED
        BY <1>3, <4>1 DEF RowOK, Status, Over, Row
    <3> QED
      BY <3>1, <3>2, <3>3, <3>4
  <2>3. Status(a)' = r.status
    BY <1>2, <1>3, <2>1 DEF Status
  <2>4. PICK d : /\ d = IF reused THEN NewCall("scan", c.by, None, a, {})
                                  ELSE NextCall(c.by, a, parts[a])
                 /\ Continues(c, d)
    BY <1>5
  <2>5. d \in Call /\ ~Begins(d) /\ CallOK(d)'
    <3>1. CASE reused
      <4>1. d = NewCall("scan", c.by, None, a, {})
        BY <2>4, <3>1
      <4> QED
        BY <1>2, <2>2, <2>3, <3>1, <4>1, CallFacts DEF NewCall, Call, CallOK, Fresh, Begins, Over
    <3>2. CASE ~reused
      <4>1. d = NextCall(c.by, a, parts[a])
        BY <2>4, <3>2
      <4>2. c.by \in Tabs \cup {Nobody} /\ parts[a] \in SUBSET Parts
        BY <1>3, CallFacts
      <4>3. /\ d \in Call /\ d.archive = a /\ d.have = parts[a] /\ d.stage = "sent"
            /\ \/ d.kind = "put" /\ d.part \in Parts
               \/ d.kind = "complete" /\ parts[a] = Parts
        BY <1>2, <4>1, <4>2, NextCallSound
      <4>4. parts' = parts
        BY <1>1 DEF store
      <4> QED
        BY <1>2, <2>2, <2>3, <4>3, <4>4 DEF CallOK, Fresh, Begins
    <3> QED
      BY <3>1, <3>2
  <2>6. PICK next \in SUBSET {d} : calls' = (calls \ {c}) \cup next
    BY <2>4, ContinuesWith
  <2>7. \A e \in next : e \in Call /\ ~Begins(e) /\ CallOK(e)'
    BY <2>5, <2>6
  <2>8. /\ card' \in [Tabs -> Card]
        /\ \A t \in Tabs : {card'[t].archive, card'[t].pending, card'[t].picker}
                          \subseteq {None, a, card[t].archive, card[t].pending, card[t].picker}
    <3>1. CASE c.by = Nobody
      BY <1>5, <3>1, CallFacts
    <3>2. CASE c.by # Nobody
      <4> DEFINE k == [card[c.by] EXCEPT !.archive = a]
      <4>1. c.by \in Tabs /\ card \in [Tabs -> Card] /\ card[c.by] \in Card
        BY <3>2, CallFacts
      <4>2. /\ k \in Card /\ k.archive = a /\ k.picker = card[c.by].picker
            /\ k.pending = card[c.by].pending
        BY <1>2, <4>1 DEF Card
      <4>3. card' = [card EXCEPT ![c.by] = k]
        BY <1>5, <3>2
      <4> HIDE DEF k
      <4> QED
        BY <4>1, <4>2, <4>3
    <3> QED
      BY <3>1, <3>2
  <2>9. Fresh(c) \/ Status(a) # "none"
    BY <1>2
  <2>10. a \in Archives /\ c.archive = a /\ UNCHANGED <<store, acts, faults>>
    BY <1>1, <1>2
  <2>11. row' = [row EXCEPT ![a] = r]
    BY <2>1
  <2> HIDE DEF a, reused
  <2>12. Commits(c, a, r, next)
    BY <2>2, <2>6, <2>7, <2>8, <2>9, <2>10, <2>11 DEF Commits
  <2> QED
    BY <2>10, <2>12, CommitKeeps
<1> QED
  BY <1>4, <1>5 DEF CommitStart

-----------------------------------------------------------------------------
(* The specification *)

\* Every step keeps the invariant.
LEMMA StepKeeps == UploadInvariant /\ [Next]_vars => UploadInvariant'
<1> SUFFICES ASSUME UploadInvariant, [Next]_vars PROVE UploadInvariant'
  OBVIOUS
<1>1. ASSUME NEW c \in calls, Serve(c) PROVE UploadInvariant'
  BY <1>1, HashedKeeps, BeginStartKeeps, CommitStartKeeps, PutPartKeeps, BeginCompleteKeeps,
     CommitCompleteKeeps, BeginDeleteKeeps, CommitDeleteKeeps, BeginScanKeeps, CommitScanKeeps
  DEF Serve
<1>2. ASSUME NEW c \in calls, CallFails(c) PROVE UploadInvariant'
  BY <1>2, CallFailsKeeps
<1>3. ASSUME NEW t \in Tabs, User(t) PROVE UploadInvariant'
  BY <1>3, UserKeeps
<1>4. ASSUME NEW a \in Archives, JobEnds(a) PROVE UploadInvariant'
  <2>1. acts \in 0 .. MaxActs
    BY DEF UploadInvariant, TypeOK
  <2>2. /\ row' = [row EXCEPT ![a].job = "ended"] /\ acts' = acts
        /\ UNCHANGED <<open, parts, object, calls, card, faults>>
    BY <1>4 DEF JobEnds, store
  <2> QED
    BY <2>1, <2>2, JobKeeps
<1>5. ASSUME UNCHANGED vars PROVE UploadInvariant'
  BY <1>5 DEF vars, store, UploadInvariant, TypeOK, CallOK, Fresh, CardOK, RowOK, Status,
     OneOpens, Answered, Opens, Closes
<1> QED
  BY <1>1, <1>2, <1>3, <1>4, <1>5 DEF Next

\* The invariant holds in every reachable state.
LEMMA Invariance == Spec => []UploadInvariant
<1>1. Init => UploadInvariant
  BY InitOK
<1>2. UploadInvariant /\ [Next]_vars => UploadInvariant'
  BY StepKeeps
<1> QED
  BY <1>1, <1>2, PTL DEF Spec

\* The rows, the store, the calls under way and the cards stay in their types.
THEOREM TypeCorrect == Spec => []TypeOK
<1>1. UploadInvariant => TypeOK
  BY DEF UploadInvariant
<1> QED
  BY <1>1, Invariance, PTL

\* As long as no call has failed, the rows tell which multipart uploads are open
\* in the store, but for an archive whose handler has yet to commit: whatever the
\* tabs stop, take over or cancel, nothing is left open that no row knows of.
THEOREM RowsTellTheStore == Spec => []RowsAgreeWithStore
<1>1. UploadInvariant => RowsAgreeWithStore
  <2> SUFFICES ASSUME UploadInvariant, faults = 0, NEW a \in Archives,
                      ~ \E c \in calls : c.archive = a /\ c.stage = "begun"
               PROVE  a \in open <=> Status(a) = "uploading"
    BY DEF RowsAgreeWithStore
  <2>1. ~Opens(a) /\ ~Closes(a)
    BY DEF Opens, Closes, Fresh, Begins
  <2>2. Answered(a) /\ RowOK(a) /\ row[a] \in Row
    BY DEF UploadInvariant, TypeOK
  <2> QED
    BY <2>1, <2>2 DEF Answered, RowOK, Over, Status, Row
<1> QED
  BY <1>1, Invariance, PTL

\* An archive that is offered for restore, or that a restore reads, is whole in
\* the store, whatever calls are lost and whatever the tabs do meanwhile.
THEOREM BytesAreThere == Spec => []BytesBehindRows
<1>1. UploadInvariant => BytesBehindRows
  BY DEF UploadInvariant, RowOK, BytesBehindRows
<1> QED
  BY <1>1, Invariance, PTL

\* A run asks to complete an upload only when all parts of the file are in the
\* store, also where it resumes what other runs have begun.
THEOREM UploadsAreWhole == Spec => []CompletesWholeUploads
<1>1. UploadInvariant => CompletesWholeUploads
  <2> SUFFICES ASSUME UploadInvariant, NEW c \in calls, IsCall(c, "complete", "sent"),
                      c.archive \in open
               PROVE  parts[c.archive] = Parts
    BY DEF CompletesWholeUploads
  <2>1. CallOK(c) /\ c.archive \in Archives
    BY DEF UploadInvariant, TypeOK, IsCall, CallOK
  <2>2. parts[c.archive] \subseteq Parts
    BY <2>1 DEF UploadInvariant, TypeOK
  <2> QED
    BY <2>1, <2>2 DEF CallOK, IsCall
<1> QED
  BY <1>1, Invariance, PTL

-----------------------------------------------------------------------------
(* The picker *)

\* What a tab offers to restore from is whole in the store, its upload is over
\* and its spaces have been read, though another tab may have cancelled it.
PickedAreWhole ==
    \A t \in Tabs :
        LET a == card[t].picker IN
        a # None => a \in object \ open /\ row[a].spaces /\ ~row[a].mp

ReadOver(a) == Status(a) \in Over /\ row[a].spaces
StaysRead(a) == row'[a].status \in Over /\ row'[a].spaces
PicksOK ==
    /\ \A a \in Archives : Status(a) = "scanned" => row[a].spaces
    /\ \A t \in Tabs : card[t].picker # None =>
            ReadOver(card[t].picker) /\ card[t].picker \in object

\* A row changes for a restore, or in one of the four handlers that commit.
LEMMA RowWriters ==
    ASSUME UploadInvariant, [Next]_vars
    PROVE  \/ row' = row
           \/ \E a \in Archives, j \in {"active", "ended"} : row' = [row EXCEPT ![a].job = j]
           \/ \E c \in calls : \/ CommitStart(c) \/ CommitComplete(c)
                               \/ CommitDelete(c) \/ CommitScan(c)
<1>1. ASSUME NEW c \in calls, Serve(c) \/ CallFails(c)
      PROVE  row' = row \/ CommitStart(c) \/ CommitComplete(c) \/ CommitDelete(c) \/ CommitScan(c)
  BY <1>1 DEF Serve, Hashed, BeginStart, PutPart, BeginComplete, BeginDelete, BeginScan, CallFails
<1>2. ASSUME NEW t \in Tabs, Restore(t)
      PROVE  \E a \in Archives : row' = [row EXCEPT ![a].job = "active"]
  BY <1>2 DEF Restore, UploadInvariant, TypeOK, Card
<1>3. ASSUME NEW t \in Tabs, User(t), ~Restore(t) PROVE row' = row
  BY <1>3 DEF User, SelectFile, PressUpload, Pause, CancelUpload, DiscardPending, UploadAnother,
     DiscardPicked, Leave, Look, Acts
<1>4. ASSUME NEW a \in Archives, JobEnds(a) PROVE row' = [row EXCEPT ![a].job = "ended"]
  BY <1>4 DEF JobEnds
<1>5. CASE UNCHANGED vars
  BY <1>5 DEF vars
<1> QED
  BY <1>1, <1>2, <1>3, <1>4, <1>5 DEF Next

\* The store keeps a whole object.
LEMMA ObjectsStay == ASSUME [Next]_vars PROVE object \subseteq object'
<1>1. ASSUME NEW c \in calls, Serve(c) \/ CallFails(c) PROVE object \subseteq object'
  BY <1>1 DEF Serve, Hashed, BeginStart, PutPart, BeginComplete, BeginDelete, BeginScan, CallFails,
     CommitStart, CommitComplete, CommitDelete, CommitScan, store
<1>2. ASSUME NEW t \in Tabs, User(t) PROVE object' = object
  BY <1>2 DEF User, SelectFile, PressUpload, Pause, CancelUpload, DiscardPending, UploadAnother,
     DiscardPicked, Leave, Look, Restore, Acts, store
<1>3. ASSUME NEW a \in Archives, JobEnds(a) PROVE object' = object
  BY <1>3 DEF JobEnds, store
<1>4. CASE UNCHANGED vars
  BY <1>4 DEF vars, store
<1> QED
  BY <1>1, <1>2, <1>3, <1>4 DEF Next

\* Spaces that were read stay recorded, and only a scan says "scanned".
LEMMA ReadingsStay ==
    ASSUME UploadInvariant, PicksOK, [Next]_vars, NEW a \in Archives
    PROVE  /\ ReadOver(a) => ReadOver(a)'
           /\ Status(a)' = "scanned" => row'[a].spaces
<1>1. row \in [Archives -> Row] /\ (Status(a) = "scanned" => row[a].spaces)
  BY DEF UploadInvariant, TypeOK, PicksOK
<1>2. CASE row' = row
  BY <1>1, <1>2 DEF ReadOver, Status
<1>3. ASSUME NEW b \in Archives, NEW j \in {"active", "ended"}, row' = [row EXCEPT ![b].job = j]
      PROVE  row'[a].status = row[a].status /\ row'[a].spaces = row[a].spaces
  BY <1>1, <1>3 DEF Row
<1>4. ASSUME NEW c \in calls, CommitComplete(c) \/ CommitDelete(c) \/ CommitScan(c)
      PROVE  /\ ReadOver(a) => ReadOver(a)'
             /\ Status(a)' = "scanned" => row'[a].spaces
  <2>1. row[a] \in Row
    BY <1>1
  <2>2. CASE c.archive # a
    BY <1>1, <1>4, <2>2 DEF CommitComplete, CommitDelete, CommitScan, ReadOver, Status
  <2>3. CASE c.archive = a
    BY <1>1, <1>4, <2>1, <2>3 DEF CommitComplete, CommitDelete, CommitScan, ReadOver, Status, Over, Row
  <2> QED
    BY <2>2, <2>3
<1>5. ASSUME NEW c \in calls, CommitStart(c)
      PROVE  /\ ReadOver(a) => ReadOver(a)'
             /\ Status(a)' = "scanned" => row'[a].spaces
  <2>1. row' = row \/ row' = [row EXCEPT ![c.archive] = StartedRow(c)]
    BY <1>5 DEF CommitStart
  <2>2. c.seen = "none" => Status(c.archive) = "none"
    BY <1>5, CallFacts DEF CommitStart, IsCall, CallOK, Fresh, Begins
  <2>3. CASE row' = [row EXCEPT ![c.archive] = StartedRow(c)] /\ c.archive = a
    <3>1. row'[a] = StartedRow(c)
      BY <1>1, <2>3
    <3>2. c.seen = "none" => StartedRow(c) = NewRow(c.file)
      BY DEF StartedRow
    <3>3. c.seen = "cancelled" => StartedRow(c) = Revived(row[a])
      BY <2>3 DEF StartedRow
    <3>4. c.seen \notin {"none", "cancelled"} => StartedRow(c) = row[a]
      BY <2>3 DEF StartedRow
    <3>5. CASE c.seen = "none"
      BY <2>2, <2>3, <3>1, <3>2, <3>5 DEF NewRow, ReadOver, Status, Over
    <3>6. CASE c.seen = "cancelled"
      <4>1. row[a] \in Row
        BY <1>1
      <4>2. /\ row'[a].spaces = row[a].spaces
            /\ row'[a].status = IF row[a].spaces THEN "scanned" ELSE "uploaded"
        BY <3>1, <3>3, <3>6, <4>1 DEF Revived, Row
      <4> QED
        BY <4>2 DEF ReadOver, Status, Over
    <3>7. CASE c.seen \notin {"none", "cancelled"}
      BY <1>1, <3>1, <3>4, <3>7 DEF ReadOver, Status
    <3> QED
      BY <3>5, <3>6, <3>7
  <2>4. CASE row' = [row EXCEPT ![c.archive] = StartedRow(c)] /\ c.archive # a
    BY <1>1, <2>4 DEF ReadOver, Status
  <2> QED
    BY <1>2, <2>1, <2>3, <2>4
<1> QED
  BY <1>1, <1>2, <1>3, <1>4, <1>5, RowWriters DEF ReadOver, Status

\* A card comes to offer what a scan has just read, or a row that says so.
LEMMA PickedNext ==
    ASSUME UploadInvariant, PicksOK, [Next]_vars, NEW t \in Tabs,
           card'[t].picker \notin {None, card[t].picker}
    PROVE  StaysRead(card'[t].picker) /\ card'[t].picker \in object'
<1> DEFINE a == card'[t].picker
<1>1. card \in [Tabs -> Card] /\ row \in [Archives -> Row]
  BY DEF UploadInvariant, TypeOK
<1>2. ASSUME NEW c \in calls, CommitScan(c)
      PROVE  StaysRead(a) /\ a \in object'
  <2>1. a = c.archive /\ a \in Archives
    <3>1. c.by = t /\ a = c.archive
      BY <1>1, <1>2 DEF CommitScan, Card
    <3> QED
      BY <1>2, <3>1, CallFacts DEF CommitScan, IsCall, CallOK, Begins
  <2>2. Status(a) \in Over /\ a \in object
    BY <1>2, <2>1, CallFacts DEF CommitScan, IsCall, CallOK, Begins
  <2>3. row[a] \in Row
    BY <1>1, <2>1
  <2> HIDE DEF a
  <2>4. row'[a].spaces /\ row'[a].status \in Over
    BY <1>1, <1>2, <2>1, <2>2, <2>3 DEF CommitScan, Status, Over, Row
  <2> QED
    BY <2>2, <2>4, ObjectsStay DEF StaysRead
<1>3. ASSUME NEW u \in Tabs, Look(u)
      PROVE  StaysRead(a) /\ a \in object'
  <2>1. row' = row /\ a \in Archives /\ Status(a) = "scanned"
    BY <1>1, <1>3 DEF Look, Card
  <2>2. a \in object /\ row[a].spaces
    BY <2>1 DEF UploadInvariant, RowOK, PicksOK
  <2> HIDE DEF a
  <2> QED
    BY <2>1, <2>2, ObjectsStay DEF StaysRead, Status, Over
<1>4. ASSUME NEW c \in calls, Serve(c) \/ CallFails(c), ~CommitScan(c) PROVE FALSE
  <2>1. CASE card' = card
    BY <2>1
  <2>2. ASSUME NEW outcome, EndsRun(c, outcome) PROVE FALSE
    BY <2>2, EndsRunFields
  <2>3. CASE CommitStart(c)
    BY <1>1, <2>2, <2>3 DEF CommitStart, Card
  <2> QED
    BY <1>4, <2>1, <2>2, <2>3 DEF Serve, Hashed, BeginStart, PutPart, BeginComplete, BeginDelete,
       BeginScan, CallFails, CommitComplete, CommitDelete
<1>5. ASSUME NEW u \in Tabs, User(u), ~Look(u) PROVE FALSE
  <2>1. card[u] \in Card /\ EmptyCard.picker = None
    BY <1>1 DEF EmptyCard
  <2>2. CASE card' = card
    BY <2>2
  <2>3. ASSUME NEW d, card' = [card EXCEPT ![u] = d], d.picker \in {None, card[u].picker} PROVE FALSE
    BY <1>1, <2>3
  <2>4. ASSUME NEW f \in Files, SelectFile(u, f) PROVE FALSE
    <3> DEFINE c == [card[u] EXCEPT !.file = f, !.archive = None, !.outcome = "none"]
               d == [c EXCEPT !.pending = None, !.picker = None, !.outcome = "none"]
    <3>1. c.picker = card[u].picker /\ d.picker = None
      BY <2>1 DEF Card
    <3>2. card' = [card EXCEPT ![u] = c] \/ card' = [card EXCEPT ![u] = d]
      BY <2>4 DEF SelectFile, StartsRun
    <3> HIDE DEF c, d
    <3> QED
      BY <2>3, <3>1, <3>2
  <2>5. CASE PressUpload(u)
    BY <1>1, <2>1, <2>5 DEF PressUpload, StartsRun, Card
  <2>6. CASE CancelUpload(u) \/ DiscardPicked(u) \/ Leave(u)
    <3>1. \/ card' = [card EXCEPT ![u] = [EmptyCard EXCEPT !.picker = card[u].picker]]
          \/ card' = [card EXCEPT ![u] = [EmptyCard EXCEPT !.archive = card[u].archive]]
          \/ card' = [card EXCEPT ![u] = EmptyCard]
      BY <2>6 DEF CancelUpload, DiscardPicked, Leave
    <3>2. /\ [EmptyCard EXCEPT !.picker = card[u].picker].picker = card[u].picker
          /\ [EmptyCard EXCEPT !.archive = card[u].archive].picker = None
      BY DEF EmptyCard
    <3> QED
      BY <2>1, <2>3, <3>1, <3>2
  <2>7. CASE DiscardPending(u) \/ UploadAnother(u)
    BY <1>1, <2>1, <2>7 DEF DiscardPending, UploadAnother, Card
  <2> QED
    BY <1>5, <2>2, <2>4, <2>5, <2>6, <2>7 DEF User, Pause, Restore
<1>6. ASSUME NEW b \in Archives, JobEnds(b) PROVE FALSE
  BY <1>6 DEF JobEnds
<1>7. ~UNCHANGED vars
  BY DEF vars
<1> QED
  BY <1>2, <1>3, <1>4, <1>5, <1>6, <1>7 DEF Next

\* Every step keeps it.
LEMMA PicksStep == UploadInvariant /\ PicksOK /\ [Next]_vars => PicksOK'
<1> SUFFICES ASSUME UploadInvariant, PicksOK, [Next]_vars PROVE PicksOK'
  OBVIOUS
<1>1. \A a \in Archives : Status(a)' = "scanned" => row'[a].spaces
  BY ReadingsStay
<1>2. ASSUME NEW t \in Tabs, card'[t].picker # None
      PROVE  StaysRead(card'[t].picker) /\ card'[t].picker \in object'
  <2>1. ASSUME NEW b, b = card[t].picker, card'[t].picker = b PROVE StaysRead(b) /\ b \in object'
    <3>1. b \in Archives
      BY <1>2, <2>1 DEF UploadInvariant, TypeOK, Card
    <3>2. ReadOver(b) /\ b \in object
      BY <1>2, <2>1 DEF PicksOK
    <3>3. StaysRead(b)
      BY <3>1, <3>2, ReadingsStay DEF ReadOver, StaysRead, Status
    <3> QED
      BY <3>2, <3>3, ObjectsStay
  <2>2. CASE card'[t].picker # card[t].picker
    BY <1>2, <2>2, PickedNext
  <2> QED
    BY <2>1, <2>2
<1>3. \A t \in Tabs : card'[t].picker # None =>
        row'[card'[t].picker].status \in Over /\ row'[card'[t].picker].spaces
          /\ card'[t].picker \in object'
  BY <1>2 DEF StaysRead
<1> QED
  BY <1>1, <1>3 DEF PicksOK, ReadOver, Status

\* Whatever else is uploaded, cancelled, reused or late, what a tab's picker
\* offers can be restored from: its bytes are there and its spaces were read.
THEOREM PickersAreTrue == Spec => []PickedAreWhole
<1>1. Init => PicksOK
  BY DEF Init, PicksOK, Status, NoRow, EmptyCard
<1>2. UploadInvariant /\ PicksOK => PickedAreWhole
  BY DEF UploadInvariant, TypeOK, Card, RowOK, PicksOK, ReadOver, PickedAreWhole, Over
<1> QED
  BY <1>1, <1>2, PicksStep, Invariance, PTL DEF Spec
=============================================================================
