--------------------------- MODULE PageTree_proofs ---------------------------
(***************************************************************************)
(* Theorems about PageTree, for any pages, spaces, slugs, overlapping      *)
(* requests and any bound on them.                                         *)
(***************************************************************************)
EXTENDS PageTree, TLAPS

-----------------------------------------------------------------------------
(* Queries. *)

LEMMA NoRowTyped == NoRow \in Row /\ [p \in Pages |-> NoRow] \in Table
  BY DEF NoRow, Row, Table

\* A branch holds its root, the children of its members, and the parents of all
\* but the root.
LEMMA SubtreeFacts ==
    ASSUME NEW t, NEW p \in Pages
    PROVE  /\ p \in Subtree(t, p)
           /\ Subtree(t, p) \subseteq Pages
           /\ \A c \in List(t, t[p].space) :
                t[c].parent \in Subtree(t, p) => c \in Subtree(t, p)
           /\ \A x \in Subtree(t, p) : x # p =>
                x \in List(t, t[p].space) /\ t[x].parent \in Subtree(t, p)
<1> DEFINE S == Subtree(t, p)
           L == List(t, t[p].space)
<1>1. p \in S /\ S \subseteq Pages
  BY DEF Subtree
<1>2. ASSUME NEW c \in L, t[c].parent \in S PROVE c \in S
  <2>1. c \in Pages
    BY DEF List, Live
  <2>2. ASSUME NEW C \in SUBSET Pages, p \in C, \A d \in L : t[d].parent \in C => d \in C
        PROVE  c \in C
    <3>1. t[c].parent \in C
      BY <1>2, <2>2 DEF Subtree
    <3> QED BY <3>1, <2>2
  <2> QED BY <2>1, <2>2 DEF Subtree
<1>3. ASSUME NEW x \in S, x # p PROVE x \in L /\ t[x].parent \in S
  <2> SUFFICES ASSUME ~(x \in L /\ t[x].parent \in S) PROVE FALSE
    OBVIOUS
  <2> DEFINE C == S \ {x}
  <2>1. C \in SUBSET Pages /\ p \in C
    BY <1>1, <1>3
  <2>2. \A d \in L : t[d].parent \in C => d \in C
    BY <1>2
  <2>3. x \in C
    BY <2>1, <2>2, <1>3 DEF Subtree
  <2> QED BY <2>3
<1> QED BY <1>1, <1>2, <1>3

\* A set that holds every page that hangs from it holds the pages with a way up.
Closed(t, W) == \A y \in Live(t) : HangsFrom(t, y, W) => y \in W

LEMMA RootedInClosed ==
    ASSUME NEW t, NEW W \in SUBSET Live(t), Closed(t, W)
    PROVE  Rooted(t) \subseteq W
  BY DEF Rooted, Closed

\* What hangs from pages with a way up has one.
LEMMA RootedClosed ==
    ASSUME NEW t, NEW x \in Live(t), HangsFrom(t, x, Rooted(t))
    PROVE  x \in Rooted(t)
<1> SUFFICES ASSUME NEW W \in SUBSET Live(t), Closed(t, W) PROVE x \in W
  BY DEF Rooted, Closed
<1>1. HangsFrom(t, x, W)
  BY RootedInClosed DEF HangsFrom
<1> QED BY <1>1 DEF Closed

-----------------------------------------------------------------------------
(* The inductive invariant: what a request has read and decided keeps its   *)
(* shape until it writes, and slugs are apart in the table.                 *)

Writers == {"create", "move", "trash", "restore"}

TrashHolds(j) ==
    /\ j.kind = "move"
    /\ \E x \in j.touched : \E y \in Trashed(j.base, j.new[x].space) :
          j.base[y].slug = j.new[x].slug

\* What any request that writes has decided on.
Decided(j) ==
    /\ \A x \in Pages \ j.touched : j.new[x] = j.base[x]
    /\ \A x \in j.touched : /\ (j.base[x] = NoRow) <=> (j.kind = "create")
                            /\ j.new[x].at # "absent"
    /\ \A x \in j.touched, q \in Pages : j.new[x].parent = q => j.base[q] # NoRow
    /\ SlugsApart(j.new) \/ TrashHolds(j)
    /\ j.page \in j.touched

\* What each kind of request does to the pages it names.
Shaped(j) ==
    LET p == j.page IN
    /\ j.kind = "create" => /\ j.touched = {p}
                            /\ j.new[p].at = "live"
    /\ j.kind = "move" =>
          \A x \in j.touched :
              /\ j.base[x].at = "live" /\ j.new[x].at = "live"
              /\ j.base[x].space = j.base[p].space
              /\ j.new[x].space = j.new[p].space
              /\ x # p => j.new[x].parent = j.base[x].parent
    /\ j.kind = "trash" => /\ j.base[p].at = "live"
                           /\ j.touched = {p} \cup Children(j.base, p)
                           /\ j.new = Binned(j.base, p)
    /\ j.kind = "restore" => /\ j.touched = {p}
                             /\ j.base[p].at = "trash" /\ j.new[p].at = "live"
                             /\ j.new[p].space = j.base[p].space
                             /\ j.new[p].parent \in {j.base[p].parent, None}

JobOK(j) == j.kind \in Writers => Decided(j) /\ Shaped(j)

TreeInvariant ==
    /\ TypeOK
    /\ SlugsApart(row)
    /\ \A h \in Requests : JobOK(job[h])

LEMMA InitInvariant == Init => TreeInvariant
<1> SUFFICES ASSUME Init PROVE TreeInvariant
  OBVIOUS
<1>1. TypeOK
  <2>1. row \in Table /\ NoJob \in Job
    BY NoRowTyped DEF Init, NoJob, Job
  <2>2. \A p \in Pages : row[p] = NoRow /\ NoRow.parent = None
    BY DEF Init, NoRow
  <2>3. \A p, q \in Pages : row[p].parent # q
    BY <2>2, NoneAssumption
  <2>4. job \in [Requests -> Job]
    BY <2>1 DEF Init
  <2>5. acts \in 0..MaxActs
    BY BoundAssumption DEF Init
  <2> QED BY <2>1, <2>2, <2>3, <2>4, <2>5 DEF TypeOK
<1>2. SlugsApart(row) /\ \A h \in Requests : JobOK(job[h])
  BY DEF Init, SlugsApart, NoRow, JobOK, NoJob, Writers
<1> QED BY <1>1, <1>2 DEF TreeInvariant

-----------------------------------------------------------------------------
(* Reading. *)

\* A request that is well decided may begin.
LEMMA BeginKeeps ==
    ASSUME TreeInvariant, NEW h \in Requests, NEW k \in {"create", "move", "trash", "restore", "purge"},
           NEW p \in Pages \cup {None}, NEW touched \in SUBSET Pages, NEW new \in Table,
           Begin(h, k, p, touched, new),
           JobOK([kind |-> k, page |-> p, touched |-> touched, base |-> row, new |-> new])
    PROVE  TreeInvariant'
<1> DEFINE j == [kind |-> k, page |-> p, touched |-> touched, base |-> row, new |-> new]
<1>1. row' = row /\ acts' = acts + 1 /\ acts < MaxActs
      /\ job' = [job EXCEPT ![h] = j]
  BY DEF Begin
<1>2. TypeOK'
  <2>1. j \in Job
    BY DEF Job, TreeInvariant, TypeOK
  <2> QED BY <1>1, <2>1, BoundAssumption DEF TreeInvariant, TypeOK
<1>3. SlugsApart(row)'
  BY <1>1 DEF TreeInvariant, SlugsApart
<1>4. \A i \in Requests : JobOK(job[i])'
  <2> SUFFICES ASSUME NEW i \in Requests PROVE JobOK(job'[i])
    BY DEF JobOK
  <2>1. job'[i] = IF i = h THEN j ELSE job[i]
    BY <1>1 DEF TreeInvariant, TypeOK
  <2> QED BY <2>1 DEF TreeInvariant
<1> QED BY <1>2, <1>3, <1>4 DEF TreeInvariant

LEMMA CreateKeeps ==
    ASSUME TreeInvariant, NEW h \in Requests, Create(h)
    PROVE  TreeInvariant'
<1>1. PICK s \in Spaces, p \in Pages : \E q \in List(row, s) \cup {None}, g \in Slugs \ Taken(row, s) :
        /\ IsNew(p)
        /\ Begin(h, "create", p, {p},
             [row EXCEPT ![p] = [at |-> "live", space |-> s, parent |-> q, slug |-> g]])
  BY DEF Create
<1>2. PICK q \in List(row, s) \cup {None}, g \in Slugs \ Taken(row, s) :
        /\ IsNew(p)
        /\ Begin(h, "create", p, {p},
             [row EXCEPT ![p] = [at |-> "live", space |-> s, parent |-> q, slug |-> g]])
  BY <1>1
<1> DEFINE new == [row EXCEPT ![p] = [at |-> "live", space |-> s, parent |-> q, slug |-> g]]
           j == [kind |-> "create", page |-> p, touched |-> {p}, base |-> row, new |-> new]
<1>3. row \in Table /\ row[p] = NoRow
  BY <1>2 DEF TreeInvariant, TypeOK, IsNew
<1>4. new[p] = [at |-> "live", space |-> s, parent |-> q, slug |-> g]
      /\ \A x \in Pages \ {p} : new[x] = row[x]
  BY <1>3 DEF Table
<1>5. new \in Table
  BY <1>3 DEF Table, Row, List, Live
<1>6. SlugsApart(new)
  <2> SUFFICES ASSUME NEW x \in Pages, NEW y \in Pages, x # y,
                      new[x].at # "absent", new[y].at # "absent",
                      new[x].space = new[y].space, new[x].slug = new[y].slug
               PROVE  FALSE
    BY DEF SlugsApart
  <2>1. ASSUME NEW z \in Pages \ {p}, row[z].at # "absent", row[z].space = s, row[z].slug = g
        PROVE  FALSE
    <3>1. row[z].at \in {"live", "trash"}
      BY <1>3, <2>1 DEF Table, Row
    <3> QED BY <3>1, <2>1 DEF Taken, List, Live, Trashed
  <2> QED BY <1>4, <2>1 DEF SlugsApart, TreeInvariant
<1>7. \A r \in Pages : q = r => row[r] # NoRow
  BY NoneAssumption DEF List, Live, NoRow
<1>8. JobOK(j)
  BY <1>3, <1>4, <1>6, <1>7 DEF JobOK, Decided, Shaped, NoRow
<1> QED BY <1>2, <1>5, <1>8, BeginKeeps

LEMMA MoveKeeps ==
    ASSUME TreeInvariant, NEW h \in Requests, Move(h)
    PROVE  TreeInvariant'
<1>1. PICK p \in Live(row), s \in Spaces :
        \E q \in (List(row, s) \ Subtree(row, p)) \cup {None} :
          \E g \in Renamed(row, Subtree(row, p), s) :
            Begin(h, "move", p, Subtree(row, p), Moved(row, p, s, q, g))
  BY DEF Move
<1> DEFINE S == Subtree(row, p)
<1>2. PICK q \in (List(row, s) \ S) \cup {None} :
          \E g \in Renamed(row, S, s) : Begin(h, "move", p, S, Moved(row, p, s, q, g))
  BY <1>1
<1>3. PICK g \in Renamed(row, S, s) : Begin(h, "move", p, S, Moved(row, p, s, q, g))
  BY <1>2
<1> DEFINE new == Moved(row, p, s, q, g)
           j == [kind |-> "move", page |-> p, touched |-> S, base |-> row, new |-> new]
<1>4. row \in Table /\ p \in Pages
  BY DEF TreeInvariant, TypeOK, Live
<1>5. p \in S /\ S \subseteq Pages /\ \A x \in S \ {p} : x \in List(row, row[p].space)
  BY <1>4, SubtreeFacts
<1>6. g \in [S -> Slugs]
      /\ (\A x, y \in S : g[x] = g[y] => x = y)
      /\ \A x \in S, y \in List(row, s) \ S : g[x] # row[y].slug
  BY DEF Renamed
<1>7. \A x \in Pages : new[x] = IF x \in S
          THEN [row[x] EXCEPT !.space = s, !.slug = g[x], !.parent = IF x = p THEN q ELSE row[x].parent]
          ELSE row[x]
  BY <1>6 DEF Moved
<1>8. \A x \in S :
        /\ new[x].at = row[x].at /\ new[x].space = s /\ new[x].slug = g[x]
        /\ new[x].parent = IF x = p THEN q ELSE row[x].parent
  BY <1>4, <1>5, <1>7 DEF Table, Row
<1>9. new \in Table
  <2>1. ASSUME NEW x \in S PROVE new[x] \in Row
    <3>1. row[x] \in Row /\ g[x] \in Slugs /\ q \in Pages \cup {None}
      BY <1>4, <1>5, <1>6, <2>1 DEF Table, List, Live
    <3> QED BY <1>5, <1>7, <2>1, <3>1, ZenonT(40) DEF Row
  <2>2. \A x \in Pages : new[x] \in Row
    BY <1>4, <1>7, <2>1 DEF Table
  <2> QED BY <2>2 DEF Table, Moved
<1> HIDE DEF new
<1>10. SlugsApart(new) \/ TrashHolds(j)
  <2> SUFFICES ASSUME NEW x \in Pages, NEW y \in Pages, x # y,
                      new[x].at # "absent", new[y].at # "absent",
                      new[x].space = new[y].space, new[x].slug = new[y].slug
               PROVE  TrashHolds(j)
    BY DEF SlugsApart
  <2>1. ASSUME NEW u \in S, NEW v \in Pages \ S, row[v].at # "absent",
               row[v].space = s, row[v].slug = g[u]
        PROVE  TrashHolds(j)
    <3>1. row[v].at \in {"live", "trash"}
      BY <1>4, <2>1 DEF Table, Row
    <3>2. CASE row[v].at = "live"
      BY <1>6, <2>1, <3>2 DEF List, Live
    <3>3. CASE row[v].at = "trash"
      BY <1>8, <2>1, <3>3 DEF TrashHolds, Trashed
    <3> QED BY <3>1, <3>2, <3>3
  <2>2. CASE x \in S /\ y \in S
    BY <1>6, <1>8, <2>2
  <2>3. CASE x \in S /\ y \notin S
    <3>1. new[y] = row[y] /\ new[x].space = s /\ new[x].slug = g[x]
      BY <1>7, <1>8, <2>3
    <3> QED BY <2>1, <2>3, <3>1
  <2>4. CASE x \notin S /\ y \in S
    <3>1. new[x] = row[x] /\ new[y].space = s /\ new[y].slug = g[y]
      BY <1>7, <1>8, <2>4
    <3> QED BY <2>1, <2>4, <3>1
  <2>5. CASE x \notin S /\ y \notin S
    BY <1>7, <2>5 DEF TreeInvariant, SlugsApart
  <2> QED BY <2>2, <2>3, <2>4, <2>5
<1>11. \A x \in S : row[x].at = "live" /\ row[x].space = row[p].space
  BY <1>5 DEF List, Live
<1>12. \A x \in S, r \in Pages : new[x].parent = r => row[r] # NoRow
  <2>1. \A r \in Pages : q = r => row[r] # NoRow
    BY NoneAssumption DEF List, Live, NoRow
  <2>2. \A x \in S, r \in Pages : row[x].parent = r => row[r] # NoRow
    BY <1>5 DEF TreeInvariant, TypeOK
  <2> QED BY <1>8, <2>1, <2>2
<1>13. Decided(j)
  <2>1. \A x \in S : row[x] # NoRow /\ new[x].at # "absent"
    BY <1>8, <1>11 DEF NoRow
  <2>2. \A x \in Pages \ S : new[x] = row[x]
    BY <1>7
  <2> QED BY <1>5, <1>10, <1>12, <2>1, <2>2 DEF Decided
<1>14. Shaped(j)
  BY <1>5, <1>8, <1>11 DEF Shaped
<1> QED BY <1>3, <1>4, <1>5, <1>9, <1>13, <1>14, BeginKeeps DEF JobOK, new

LEMMA TrashKeeps ==
    ASSUME TreeInvariant, NEW h \in Requests, Trash(h)
    PROVE  TreeInvariant'
<1>1. PICK p \in Live(row) :
        Begin(h, "trash", p, {p} \cup Children(row, p), Binned(row, p))
  BY DEF Trash
<1> DEFINE S == {p} \cup Children(row, p)
           new == Binned(row, p)
           j == [kind |-> "trash", page |-> p, touched |-> S, base |-> row, new |-> new]
<1>2. row \in Table /\ p \in Pages /\ row[p].at = "live"
  BY DEF TreeInvariant, TypeOK, Live
<1>3. S \in SUBSET Pages /\ \A x \in S : row[x].at = "live"
  BY <1>2 DEF Children, Live
<1>4. \A x \in Pages : new[x] = IF x = p THEN [row[x] EXCEPT !.at = "trash"]
                                ELSE IF x \in Children(row, p)
                                       THEN [row[x] EXCEPT !.parent = row[p].parent]
                                       ELSE row[x]
  BY DEF Binned
<1>5. \A x \in Pages : /\ new[x].space = row[x].space /\ new[x].slug = row[x].slug
                       /\ (new[x].at = "absent") <=> (row[x].at = "absent")
                       /\ new[x].parent \in {row[x].parent, row[p].parent}
                       /\ x \notin S => new[x] = row[x]
  BY <1>2, <1>4, ZenonT(40) DEF Table, Row
<1>6. new \in Table
  <2>1. ASSUME NEW x \in Pages PROVE new[x] \in Row
    <3>1. row[x] \in Row /\ row[p].parent \in Pages \cup {None}
      BY <1>2 DEF Table, Row
    <3> QED BY <1>4, <3>1, ZenonT(40) DEF Row
  <2> QED BY <2>1 DEF Table, Binned
<1> HIDE DEF new
<1>7. SlugsApart(new)
  BY <1>5 DEF SlugsApart, TreeInvariant
<1>8. \A x \in S, r \in Pages : new[x].parent = r => row[r] # NoRow
  BY <1>2, <1>3, <1>5 DEF TreeInvariant, TypeOK
<1>9. Decided(j)
  <2>1. \A x \in S : row[x] # NoRow /\ new[x].at # "absent"
    <3> SUFFICES ASSUME NEW x \in S PROVE row[x].at # "absent" /\ new[x].at # "absent"
      BY DEF NoRow
    <3> QED BY <1>3, <1>5
  <2> QED BY <1>5, <1>7, <1>8, <2>1 DEF Decided
<1>10. Shaped(j)
  BY <1>2 DEF Shaped, new
<1> QED BY <1>1, <1>2, <1>3, <1>6, <1>9, <1>10, BeginKeeps DEF JobOK, new

LEMMA RestoreKeeps ==
    ASSUME TreeInvariant, NEW h \in Requests, Restore(h)
    PROVE  TreeInvariant'
<1>1. PICK s \in Spaces : \E p \in Trashed(row, s) : Begin(h, "restore", p, {p}, Restored(row, p))
  BY DEF Restore
<1>1a. PICK p \in Trashed(row, s) : Begin(h, "restore", p, {p}, Restored(row, p))
  BY <1>1
<1> DEFINE new == Restored(row, p)
           j == [kind |-> "restore", page |-> p, touched |-> {p}, base |-> row, new |-> new]
<1>2. row \in Table /\ p \in Pages /\ row[p].at = "trash"
  BY DEF TreeInvariant, TypeOK, Trashed
<1>3. /\ \A x \in Pages \ {p} : new[x] = row[x]
      /\ new[p].at = "live" /\ new[p].space = row[p].space /\ new[p].slug = row[p].slug
      /\ new[p].parent \in {row[p].parent, None}
  BY <1>2 DEF Restored, Table, Row
<1>4. new \in Table
  <2>1. row[p] \in Row
    BY <1>2 DEF Table
  <2> QED BY <1>2, <2>1 DEF Restored, Table, Row
<1> HIDE DEF new
<1>5. SlugsApart(new)
  BY <1>2, <1>3 DEF SlugsApart, TreeInvariant
<1>6. \A r \in Pages : new[p].parent = r => row[r] # NoRow
  BY <1>2, <1>3, NoneAssumption DEF TreeInvariant, TypeOK
<1>7. Decided(j)
  <2>1. row[p] # NoRow
    BY <1>2 DEF NoRow
  <2> QED BY <1>3, <1>5, <1>6, <2>1 DEF Decided
<1>8. Shaped(j)
  BY <1>2, <1>3 DEF Shaped
<1> QED BY <1>1a, <1>2, <1>4, <1>7, <1>8, BeginKeeps DEF JobOK, new

LEMMA PurgeReadKeeps ==
    ASSUME TreeInvariant, NEW h \in Requests, NEW D \in SUBSET Pages, PurgePages(h, D)
    PROVE  TreeInvariant'
<1> DEFINE new == Without(row, D)
<1>1. new \in Table
  BY NoRowTyped DEF Without, Table, TreeInvariant, TypeOK
<1>2. JobOK([kind |-> "purge", page |-> None, touched |-> D, base |-> row, new |-> new])
  BY DEF JobOK, Writers
<1> QED BY <1>1, <1>2, BeginKeeps DEF PurgePages

-----------------------------------------------------------------------------
(* Writing. *)

\* What a write makes of the rows it names.
LEMMA FlushedRows ==
    ASSUME NEW h \in Requests, TreeInvariant, job[h].kind \in Writers, Fits(job[h])
    PROVE  LET j == job[h]
               t == Flushed(j)
           IN /\ t \in Table
              /\ \A x \in Pages \ j.touched : t[x] = row[x]
              /\ \A x \in j.touched :
                    /\ t[x].at = Field(row[x].at, j.base[x].at, j.new[x].at)
                    /\ t[x].space = Field(row[x].space, j.base[x].space, j.new[x].space)
                    /\ t[x].parent = Field(row[x].parent, j.base[x].parent, j.new[x].parent)
                    /\ t[x].at # "absent"
              /\ \A p \in Pages : t[p].at = "absent" => t[p] = NoRow
              /\ \A p, q \in Pages : t[p].parent = q => t[q] # NoRow
<1> DEFINE j == job[h]
           t == Flushed(j)
<1>1. j \in Job /\ row \in Table /\ Decided(j)
  BY DEF TreeInvariant, TypeOK, JobOK
<1>2. \A x \in Pages \ j.touched : t[x] = row[x]
  BY DEF Flushed
<1>3. ASSUME NEW x \in j.touched
      PROVE  /\ t[x].at = Field(row[x].at, j.base[x].at, j.new[x].at)
             /\ t[x].space = Field(row[x].space, j.base[x].space, j.new[x].space)
             /\ t[x].parent = Field(row[x].parent, j.base[x].parent, j.new[x].parent)
             /\ t[x] \in Row /\ x \in Pages
  <2>1. x \in Pages /\ row[x] \in Row /\ j.base[x] \in Row /\ j.new[x] \in Row
    BY <1>1 DEF Job, Table
  <2>2. t[x] = [at     |-> Field(row[x].at, j.base[x].at, j.new[x].at),
                space  |-> Field(row[x].space, j.base[x].space, j.new[x].space),
                parent |-> Field(row[x].parent, j.base[x].parent, j.new[x].parent),
                slug   |-> Field(row[x].slug, j.base[x].slug, j.new[x].slug)]
    BY <2>1 DEF Flushed
  <2> HIDE DEF t
  <2> QED BY <2>1, <2>2 DEF Row, Field
<1>4. t \in Table
  <2>1. \A x \in Pages : t[x] \in Row
    BY <1>1, <1>2, <1>3 DEF Table
  <2> QED BY <2>1 DEF Table, Flushed
<1> HIDE DEF t
<1>5. ASSUME NEW x \in j.touched PROVE t[x].at # "absent"
  <2>1. j.new[x].at # "absent"
    BY <1>1 DEF Decided
  <2>2. CASE j.new[x].at = j.base[x].at
    <3>1. j.base[x] # NoRow
      BY <2>1, <2>2 DEF NoRow
    <3>2. row[x] # NoRow
      BY <1>1, <3>1 DEF Decided, Fits
    <3>3. row[x].at # "absent"
      BY <1>3, <3>2 DEF TreeInvariant, TypeOK
    <3> QED BY <1>3, <2>1, <2>2, <3>3 DEF Field
  <2> QED BY <1>3, <2>1, <2>2 DEF Field
<1>6. \A p \in Pages : t[p].at = "absent" => t[p] = NoRow
  BY <1>2, <1>5 DEF TreeInvariant, TypeOK
<1>7. ASSUME NEW p \in Pages, NEW q \in Pages, t[p].parent = q PROVE t[q] # NoRow
  <2>1. q \in j.touched \/ row[q] # NoRow
    <3>1. CASE p \notin j.touched
      BY <1>2, <1>7, <3>1 DEF TreeInvariant, TypeOK
    <3>2. CASE p \in j.touched /\ j.new[p].parent = j.base[p].parent
      BY <1>3, <1>7, <3>2 DEF Field, TreeInvariant, TypeOK
    <3>3. CASE p \in j.touched /\ j.new[p].parent # j.base[p].parent
      BY <1>3, <1>7, <3>3 DEF Field, Fits
    <3> QED BY <3>1, <3>2, <3>3
  <2> QED BY <1>2, <1>5, <2>1 DEF NoRow
<1> QED BY <1>2, <1>3, <1>4, <1>5, <1>6, <1>7 DEF t

LEMMA WriteKeeps ==
    ASSUME TreeInvariant, NEW h \in Requests, Write(h)
    PROVE  TreeInvariant'
<1> DEFINE j == job[h]
           p == j.page
           t == Flushed(j)
<1>1. /\ j.kind \in Writers /\ Fits(j) /\ row' = t /\ acts' = acts
      /\ job' = [job EXCEPT ![h] = NoJob]
  BY DEF Write, Writers
<1>2. /\ row \in Table /\ j \in Job /\ Decided(j) /\ Shaped(j) /\ p \in Pages
      /\ j.touched \subseteq Pages
  BY <1>1 DEF TreeInvariant, TypeOK, JobOK, Job, Decided
<1>3. /\ t \in Table
      /\ \A x \in Pages \ j.touched : t[x] = row[x]
      /\ \A x \in j.touched :
            /\ t[x].at = Field(row[x].at, j.base[x].at, j.new[x].at)
            /\ t[x].space = Field(row[x].space, j.base[x].space, j.new[x].space)
            /\ t[x].parent = Field(row[x].parent, j.base[x].parent, j.new[x].parent)
      /\ \A x \in Pages : t[x].at = "absent" => t[x] = NoRow
      /\ \A x, q \in Pages : t[x].parent = q => t[q] # NoRow
  BY <1>1, FlushedRows
<1> HIDE DEF t
<1>4. NoJob \in Job /\ JobOK(NoJob)
  BY NoRowTyped DEF NoJob, Job, JobOK, Writers
<1>5. TypeOK'
  BY <1>1, <1>3, <1>4 DEF TreeInvariant, TypeOK
<1>6. SlugsApart(row)'
  BY <1>1 DEF Fits, SlugsApart, t
<1>7. \A i \in Requests : JobOK(job[i])'
  <2> SUFFICES ASSUME NEW i \in Requests PROVE JobOK(job'[i])
    BY DEF JobOK
  <2>1. job'[i] = IF i = h THEN NoJob ELSE job[i]
    BY <1>1 DEF TreeInvariant, TypeOK
  <2> QED BY <1>4, <2>1 DEF TreeInvariant
<1> QED BY <1>5, <1>6, <1>7 DEF TreeInvariant

\* A request that fails leaves the table as it is.
LEMMA RefuseKeeps ==
    ASSUME TreeInvariant, NEW h \in Requests, Refuse(h)
    PROVE  TreeInvariant'
<1>1. /\ row' = row /\ acts' = acts
      /\ job' = [job EXCEPT ![h] = NoJob]
  BY DEF Refuse
<1>2. NoJob \in Job /\ JobOK(NoJob)
  BY NoRowTyped DEF NoJob, Job, JobOK, Writers
<1>3. TypeOK' /\ SlugsApart(row)'
  BY <1>1, <1>2 DEF TreeInvariant, TypeOK, SlugsApart
<1>4. ASSUME NEW i \in Requests PROVE JobOK(job'[i])
  <2>1. job'[i] = IF i = h THEN NoJob ELSE job[i]
    BY <1>1 DEF TreeInvariant, TypeOK
  <2> QED BY <1>2, <2>1 DEF TreeInvariant
<1> QED BY <1>3, <1>4 DEF TreeInvariant, JobOK

LEMMA DeleteKeeps ==
    ASSUME TreeInvariant, NEW h \in Requests, Delete(h)
    PROVE  TreeInvariant'
<1> DEFINE D == job[h].touched
           t == Deleted(D)
<1>1. /\ row' = t /\ acts' = acts
      /\ job' = [job EXCEPT ![h] = NoJob]
  BY DEF Delete
<1>2. row \in Table /\ D \in SUBSET Pages /\ None \notin Pages
  BY NoneAssumption DEF TreeInvariant, TypeOK, Job
<1>3. NoJob \in Job /\ JobOK(NoJob)
  BY NoRowTyped DEF NoJob, Job, JobOK, Writers
<1>4. ASSUME NEW x \in Pages
      PROVE  /\ t[x] \in Row
             /\ (x \in D => t[x] = NoRow)
             /\ (x \notin D => t[x].at = row[x].at)
             /\ (x \notin D => t[x].space = row[x].space)
             /\ (x \notin D => t[x].slug = row[x].slug)
             /\ (x \notin D =>
                  t[x].parent = (IF row[x].parent \in D THEN None ELSE row[x].parent))
             /\ (row[x] = NoRow => t[x] = NoRow)
  <2>1. row[x] \in Row /\ NoRow \in Row
    BY <1>2, NoRowTyped DEF Table
  <2>2. t[x] = (IF x \in D THEN NoRow
                ELSE [row[x] EXCEPT !.parent =
                                      (IF row[x].parent \in D THEN None ELSE row[x].parent)])
    BY DEF Deleted, Row
  <2>3. CASE x \in D
    BY <2>1, <2>2, <2>3
  <2>4. CASE x \notin D
    <3> DEFINE q == IF row[x].parent \in D THEN None ELSE row[x].parent
               u == [row[x] EXCEPT !.parent = q]
    <3>1. t[x] = u
      BY <2>2, <2>4
    <3>2. q \in Pages \cup {None}
      BY <2>1 DEF Row
    <3> HIDE DEF q
    <3>3. /\ u \in Row
          /\ u.at = row[x].at /\ u.space = row[x].space /\ u.slug = row[x].slug
          /\ u.parent = q
      BY <2>1, <3>2 DEF Row
    <3>4. ASSUME row[x] = NoRow PROVE u = NoRow
      <4>1. q = None
        BY <1>2, <3>4 DEF q, NoRow
      <4> QED BY <3>4, <4>1 DEF NoRow
    <3> HIDE DEF u, t
    <3> QED BY <2>4, <3>1, <3>3, <3>4 DEF q
  <2> QED BY <2>3, <2>4
<1>5. t \in Table
  BY <1>4 DEF Table, Deleted
<1>6. TypeOK'
  <2>1. \A p \in Pages : t[p].at = "absent" => t[p] = NoRow
    BY <1>4 DEF TreeInvariant, TypeOK
  <2>2. ASSUME NEW p \in Pages, NEW q \in Pages, t[p].parent = q PROVE t[q] # NoRow
    <3>1. p \notin D /\ row[p].parent = q /\ q \notin D
      BY <1>2, <1>4, <2>2 DEF NoRow
    <3>2. row[q] # NoRow
      BY <3>1 DEF TreeInvariant, TypeOK
    <3>3. row[q].at # "absent"
      BY <3>2 DEF TreeInvariant, TypeOK
    <3>4. t[q].at # "absent"
      BY <1>4, <3>1, <3>3
    <3> QED BY <3>4 DEF NoRow
  <2> HIDE DEF t
  <2> QED BY <1>1, <1>3, <1>5, <2>1, <2>2 DEF TreeInvariant, TypeOK
<1>7. SlugsApart(t)
  <2>1. \A x \in Pages : t[x].at # "absent" =>
          /\ row[x].at = t[x].at /\ row[x].space = t[x].space /\ row[x].slug = t[x].slug
    BY <1>4 DEF NoRow
  <2> HIDE DEF t
  <2> QED BY <2>1 DEF TreeInvariant, SlugsApart
<1>8. \A i \in Requests : JobOK(job[i])'
  <2> SUFFICES ASSUME NEW i \in Requests PROVE JobOK(job'[i])
    BY DEF JobOK
  <2>1. job'[i] = IF i = h THEN NoJob ELSE job[i]
    BY <1>1 DEF TreeInvariant, TypeOK
  <2> QED BY <1>3, <2>1 DEF TreeInvariant
<1> QED BY <1>1, <1>6, <1>7, <1>8 DEF TreeInvariant, SlugsApart

LEMMA StepKeeps == TreeInvariant /\ [Next]_vars => TreeInvariant'
<1> SUFFICES ASSUME TreeInvariant, [Next]_vars PROVE TreeInvariant'
  OBVIOUS
<1>1. CASE UNCHANGED vars
  BY <1>1 DEF vars, TreeInvariant, TypeOK, SlugsApart, JobOK
<1>2. ASSUME NEW h \in Requests, Purge(h) \/ EmptyTrash(h) \/ PurgeExpired(h)
      PROVE  TreeInvariant'
  <2>1. PICK D \in SUBSET Pages : PurgePages(h, D)
    BY <1>2 DEF Purge, EmptyTrash, PurgeExpired, Trashed
  <2> QED BY <2>1, PurgeReadKeeps
<1>3. CASE Next
  BY <1>2, <1>3, CreateKeeps, MoveKeeps, TrashKeeps, RestoreKeeps, WriteKeeps, RefuseKeeps,
     DeleteKeeps DEF Next
<1> QED BY <1>1, <1>3

LEMMA InvariantHolds == Spec => []TreeInvariant
  BY InitInvariant, StepKeeps, PTL DEF Spec

-----------------------------------------------------------------------------
(* Theorems. *)

\* Every reachable state is well formed: no row without its columns, and no
\* link to a page that has no row (models/page.py:44).
THEOREM TypeCorrect == Spec => []TypeOK
<1>1. TreeInvariant => TypeOK
  BY DEF TreeInvariant
<1> QED BY <1>1, InvariantHolds, PTL

\* A request whose reading is still true is refused only when it moves a page to
\* a space whose Trash holds the slug (modules/pages/service.py:810).
THEOREM WritesAreAccepted == Spec => []WritesFit
<1>1. TreeInvariant => WritesFit
  <2> SUFFICES ASSUME TreeInvariant, NEW h \in Requests, job[h].kind \in Writers,
                      row = job[h].base, ~TrashHolds(job[h])
               PROVE  Fits(job[h])
    BY DEF WritesFit, Writers, TrashHolds
  <2> DEFINE j == job[h]
  <2>1. Decided(j) /\ j \in Job
    BY DEF TreeInvariant, TypeOK, JobOK
  <2>2. \A x \in Pages : Flushed(j)[x] = j.new[x]
    <3> SUFFICES ASSUME NEW x \in Pages PROVE Flushed(j)[x] = j.new[x]
      OBVIOUS
    <3>1. CASE x \in j.touched
      <4>1. j.new[x] \in Row
        BY <2>1 DEF Job, Table
      <4> QED BY <3>1, <4>1 DEF Flushed, Field, Row
    <3>2. CASE x \notin j.touched
      BY <2>1, <3>2 DEF Flushed, Decided
    <3> QED BY <3>1, <3>2
  <2>3. SlugsApart(Flushed(j))
    BY <2>1, <2>2 DEF SlugsApart, Decided
  <2> QED BY <2>1, <2>3 DEF Fits, Decided
<1> QED BY <1>1, InvariantHolds, PTL

-----------------------------------------------------------------------------
(* Kinds of steps. *)

\* A request that begins is put beside the others, one that ends is forgotten.
Begins(h) ==
    \/ Create(h) \/ Move(h) \/ Trash(h) \/ Restore(h)
    \/ Purge(h) \/ EmptyTrash(h) \/ PurgeExpired(h)
Ends(h) == Write(h) \/ Refuse(h) \/ Delete(h)

LEMMA BeginsAlone ==
    ASSUME TypeOK, NEW h \in Requests, Begins(h)
    PROVE  /\ row' = row /\ job'[h].base = row
           /\ \A g \in Requests \ {h} : job'[g] = job[g]
<1>1. PICK k, p, touched, new : Begin(h, k, p, touched, new)
  BY DEF Begins, Create, Move, Trash, Restore, Purge, EmptyTrash, PurgeExpired, PurgePages
<1> QED BY <1>1 DEF Begin, TypeOK

LEMMA EndsAlone ==
    ASSUME TypeOK, NEW h \in Requests, Ends(h)
    PROVE  job'[h] = NoJob /\ \A g \in Requests \ {h} : job'[g] = job[g]
  BY DEF Ends, Write, Refuse, Delete, TypeOK

LEMMA StepKinds ==
    ASSUME [Next]_vars
    PROVE  UNCHANGED vars \/ \E h \in Requests : Begins(h) \/ Ends(h)
  BY DEF Next, Begins, Ends

-----------------------------------------------------------------------------
(* The ways up.  Each case is stated for a table t and the table u that a   *)
(* write makes of it.                                                      *)

\* What is shown in every set that is closed in u has a way up there.
LEMMA RootedIn ==
    ASSUME NEW u, NEW X \in SUBSET Live(u),
           \A W \in SUBSET Live(u) : Closed(u, W) => X \subseteq W
    PROVE  X \subseteq Rooted(u)
  BY DEF Rooted, Closed

\* One page comes to life, or goes to the top.
LEMMA WaysStayWithPage ==
    ASSUME NEW t, NEW u, NEW p \in Pages,
           \A x \in Pages \ {p} : u[x] = t[x],
           p \in Live(t) => /\ u[p].at = "live" /\ u[p].space = t[p].space
                            /\ u[p].parent \in {t[p].parent, None}
    PROVE  Rooted(t) \cap Live(u) \subseteq Rooted(u)
<1> SUFFICES ASSUME NEW W \in SUBSET Live(u), Closed(u, W)
             PROVE  Rooted(t) \cap Live(u) \subseteq W
  BY RootedIn
<1> DEFINE V == {y \in Live(t) : y \in W}
<1>1. Live(t) \subseteq Live(u) /\ Live(t) \subseteq Pages
  BY DEF Live
<1>2. ASSUME NEW y \in Live(t), HangsFrom(t, y, V) PROVE y \in V
  <2>1. HangsFrom(u, y, W)
    <3>1. CASE u[y].parent = None
      BY <3>1 DEF HangsFrom
    <3>2. CASE u[y].parent # None
      <4>1. u[y].parent = t[y].parent /\ u[y].space = t[y].space
        BY <1>1, <3>2
      <4>2. t[y].parent \in V /\ t[t[y].parent].space = t[y].space
        BY <1>2, <3>2, <4>1 DEF HangsFrom
      <4>3. u[t[y].parent].space = t[t[y].parent].space
        BY <1>1, <4>2
      <4> QED BY <4>1, <4>2, <4>3 DEF HangsFrom
    <3> QED BY <3>1, <3>2
  <2> QED BY <1>1, <2>1 DEF Closed
<1>3. V \in SUBSET Live(t)
  OBVIOUS
<1> HIDE DEF V
<1>4. Rooted(t) \subseteq V
  BY <1>2, <1>3, RootedInClosed DEF Closed
<1> QED BY <1>4 DEF V

\* A page goes to the Trash and its children move up.
LEMMA WaysStayWithoutPage ==
    ASSUME NEW t, NEW u, NEW p \in Pages,
           u[p].at # "live",
           \A x \in Pages \ ({p} \cup Children(t, p)) : u[x] = t[x],
           \A x \in Pages \ {p} : u[x].at = t[x].at /\ u[x].space = t[x].space,
           \A x \in Children(t, p) \ {p} : u[x].parent = t[p].parent
    PROVE  Rooted(t) \cap Live(u) \subseteq Rooted(u)
<1> SUFFICES ASSUME NEW W \in SUBSET Live(u), Closed(u, W)
             PROVE  Rooted(t) \cap Live(u) \subseteq W
  BY RootedIn
<1> DEFINE V == {y \in Live(t) : IF y = p THEN HangsFrom(t, p, W) ELSE y \in W}
<1>1. Live(t) \subseteq Pages /\ Live(u) \subseteq Pages /\ p \notin W
  BY DEF Live
<1>2. ASSUME NEW y \in Live(t), HangsFrom(t, y, V) PROVE y \in V
  <2>1. CASE t[y].parent = None
    <3>1. CASE y = p
      BY <2>1, <3>1 DEF HangsFrom
    <3>2. CASE y # p /\ y \notin Children(t, p)
      <4>1. u[y] = t[y] /\ y \in Live(u)
        BY <1>1, <3>2 DEF Live
      <4> QED BY <2>1, <3>2, <4>1 DEF HangsFrom, Closed
    <3>3. CASE y # p /\ y \in Children(t, p)
      <4>1. p = None
        BY <2>1, <3>3 DEF Children
      <4> QED BY <4>1, NoneAssumption
    <3> QED BY <3>1, <3>2, <3>3
  <2>2. CASE t[y].parent = p /\ t[y].parent # None
    <3>1. p \in V /\ t[p].space = t[y].space /\ HangsFrom(t, p, W)
      BY <1>2, <2>2 DEF HangsFrom
    <3>2. CASE y = p
      BY <3>1, <3>2
    <3>3. CASE y # p
      <4>1. y \in Children(t, p) /\ u[y].parent = t[p].parent /\ y \in Live(u)
            /\ u[y].space = t[y].space
        BY <1>1, <2>2, <3>3 DEF Children, Live
      <4>2. t[p].parent = None \/ (t[p].parent \in W /\ t[t[p].parent].space = t[p].space)
        BY <3>1 DEF HangsFrom
      <4>3. t[p].parent \in W => u[t[p].parent].space = t[t[p].parent].space
        BY <1>1
      <4>4. HangsFrom(u, y, W)
        BY <3>1, <4>1, <4>2, <4>3 DEF HangsFrom
      <4> QED BY <3>3, <4>1, <4>4 DEF Closed
    <3> QED BY <3>2, <3>3
  <2>3. CASE t[y].parent # p /\ t[y].parent # None
    <3>1. t[y].parent \in W /\ t[t[y].parent].space = t[y].space
      BY <1>2, <2>3 DEF HangsFrom
    <3>2. CASE y = p
      BY <3>1, <3>2 DEF HangsFrom
    <3>3. CASE y # p
      <4>1. u[y] = t[y] /\ y \in Live(u)
        BY <1>1, <2>3, <3>3 DEF Live, Children
      <4>2. u[t[y].parent].space = t[t[y].parent].space
        BY <1>1, <3>1
      <4>3. HangsFrom(u, y, W)
        BY <3>1, <4>1, <4>2 DEF HangsFrom
      <4> QED BY <3>3, <4>1, <4>3 DEF Closed
    <3> QED BY <3>2, <3>3
  <2> QED BY <2>1, <2>2, <2>3
<1>3. V \in SUBSET Live(t)
  OBVIOUS
<1> HIDE DEF V
<1>4. Rooted(t) \subseteq V
  BY <1>2, <1>3, RootedInClosed DEF Closed
<1> QED BY <1>1, <1>4 DEF V, Live

\* A branch goes to the top, or under a page that is not in it and has a way up.
LEMMA WaysStayWithBranchMoved ==
    ASSUME NEW t, NEW u, NEW p \in Pages,
           \A x \in Pages \ {p} : u[x].at = t[x].at /\ u[x].parent = t[x].parent,
           \A x \in Pages \ Subtree(t, p) : u[x].space = t[x].space,
           \A x \in Subtree(t, p) : u[x].space = u[p].space,
           u[p].at = t[p].at,
           \/ u[p].parent = None
           \/ u[p].parent \in (Rooted(t) \cap List(t, u[p].space)) \ Subtree(t, p)
    PROVE  Rooted(t) \cap Live(u) \subseteq Rooted(u)
<1> DEFINE S == Subtree(t, p)
           q == u[p].parent
<1> HIDE DEF S
<1>1. /\ p \in S /\ S \subseteq Pages
      /\ \A c \in List(t, t[p].space) : t[c].parent \in S => c \in S
      /\ \A x \in S : x # p => x \in List(t, t[p].space) /\ t[x].parent \in S
  BY SubtreeFacts DEF S
<1>2. /\ \A x \in Pages \ S : u[x].space = t[x].space
      /\ \A x \in S : u[x].space = u[p].space
      /\ q = None \/ q \in (Rooted(t) \cap List(t, u[p].space)) \ S
  BY DEF S
<1>3. Live(u) = Live(t) /\ Live(t) \subseteq Pages
  BY DEF Live
<1>4. \A x \in S : t[x].space = t[p].space
  BY <1>1 DEF List
<1> SUFFICES ASSUME NEW W \in SUBSET Live(u), Closed(u, W)
             PROVE  Rooted(t) \cap Live(u) \subseteq W
  BY RootedIn
<1>5. Rooted(t) \subseteq S \cup W
  <2> DEFINE V == {y \in Live(t) : y \in S \/ y \in W}
  <2>1. ASSUME NEW y \in Live(t), HangsFrom(t, y, V) PROVE y \in V
    <3> SUFFICES ASSUME y \notin S PROVE y \in W
      OBVIOUS
    <3>1. y \in Pages /\ y # p /\ u[y].parent = t[y].parent /\ u[y].space = t[y].space
      BY <1>1, <1>2, <1>3
    <3>2. CASE t[y].parent = None
      BY <1>3, <3>1, <3>2 DEF HangsFrom, Closed
    <3>3. CASE t[y].parent # None
      <4>1. t[y].parent \in V /\ t[t[y].parent].space = t[y].space
        BY <2>1, <3>3 DEF HangsFrom
      <4>2. t[y].parent \notin S
        <5> SUFFICES ASSUME t[y].parent \in S PROVE FALSE
          OBVIOUS
        <5>1. y \in List(t, t[p].space)
          BY <1>4, <4>1 DEF List
        <5> QED BY <1>1, <5>1
      <4>3. t[y].parent \in W /\ u[t[y].parent].space = t[t[y].parent].space
        BY <1>2, <1>3, <4>1, <4>2
      <4> QED BY <1>3, <3>1, <4>1, <4>3 DEF HangsFrom, Closed
    <3> QED BY <3>2, <3>3
  <2>2. V \in SUBSET Live(t)
    OBVIOUS
  <2> HIDE DEF V
  <2>3. Rooted(t) \subseteq V
    BY <2>1, <2>2, RootedInClosed DEF Closed
  <2> QED BY <2>3 DEF V
<1>6. CASE p \notin Live(t)
  \* Nothing of the branch has a way up: it hangs from a page in the Trash.
  <2> DEFINE V == {y \in Live(t) : y \notin S}
  <2>1. ASSUME NEW y \in Live(t), HangsFrom(t, y, V) PROVE y \in V
    <3> SUFFICES ASSUME y \in S PROVE FALSE
      OBVIOUS
    <3>1. y # p /\ t[y].parent \in S
      BY <1>1, <1>6
    <3>2. t[y].parent # None
      BY <1>1, <3>1, NoneAssumption
    <3> QED BY <2>1, <3>1, <3>2 DEF HangsFrom
  <2>2. V \in SUBSET Live(t)
    OBVIOUS
  <2> HIDE DEF V
  <2>3. Rooted(t) \subseteq V
    BY <2>1, <2>2, RootedInClosed DEF Closed
  <2> QED BY <1>5, <2>3 DEF V
<1>7. CASE p \in Live(t)
  <2>1. p \in W
    <3>1. HangsFrom(u, p, W)
      <4>1. CASE q = None
        BY <4>1 DEF HangsFrom
      <4>2. CASE q # None
        <5>1. q \in W /\ q \in Pages /\ q \notin S /\ t[q].space = u[p].space
          BY <1>2, <1>3, <1>5, <4>2 DEF List
        <5> QED BY <1>2, <5>1 DEF HangsFrom
      <4> QED BY <4>1, <4>2
    <3> QED BY <1>3, <1>7, <3>1 DEF Closed
  <2> DEFINE C == {x \in S : x \in W}
  <2>2. C \in SUBSET Pages /\ p \in C
    BY <1>1, <2>1
  <2>3. ASSUME NEW c \in List(t, t[p].space), t[c].parent \in C PROVE c \in C
    <3>1. c \in S /\ c \in Live(t)
      BY <1>1, <2>3 DEF List
    <3>2. CASE c = p
      BY <2>2, <3>2
    <3>3. CASE c # p
      <4>1. u[c].parent = t[c].parent /\ u[c].space = u[t[c].parent].space
        BY <1>2, <1>3, <2>3, <3>1, <3>3
      <4>2. HangsFrom(u, c, W)
        BY <2>3, <4>1 DEF HangsFrom
      <4> QED BY <1>3, <3>1, <4>2 DEF Closed
    <3> QED BY <3>2, <3>3
  <2>4. ASSUME NEW x \in S PROVE x \in C
    <3> HIDE DEF C
    <3> QED BY <2>2, <2>3, <2>4 DEF S, Subtree
  <2> QED BY <1>5, <2>4
<1> QED BY <1>6, <1>7

\* Pages are deleted, and the links to them cleared.
LEMMA WaysStayWithPagesDeleted ==
    ASSUME NEW t, NEW u, NEW D \in SUBSET Pages,
           \A x \in D : u[x].at # "live",
           \A x \in Pages \ D :
              /\ u[x].at = t[x].at /\ u[x].space = t[x].space
              /\ u[x].parent = IF t[x].parent \in D THEN None ELSE t[x].parent
    PROVE  Rooted(t) \cap Live(u) \subseteq Rooted(u)
<1> SUFFICES ASSUME NEW W \in SUBSET Live(u), Closed(u, W)
             PROVE  Rooted(t) \cap Live(u) \subseteq W
  BY RootedIn
<1> DEFINE V == {y \in Live(t) : y \in D \/ y \in W}
<1>1. Live(t) \subseteq Pages /\ Live(u) = Live(t) \ D
  BY DEF Live
<1>2. ASSUME NEW y \in Live(t), HangsFrom(t, y, V) PROVE y \in V
  <2> SUFFICES ASSUME y \notin D PROVE y \in W
    OBVIOUS
  <2>1. y \in Live(u) /\ u[y].space = t[y].space
        /\ u[y].parent = IF t[y].parent \in D THEN None ELSE t[y].parent
    BY <1>1
  <2>2. CASE t[y].parent = None \/ t[y].parent \in D
    BY <2>1, <2>2 DEF HangsFrom, Closed
  <2>3. CASE t[y].parent # None /\ t[y].parent \notin D
    <3>1. t[y].parent \in W /\ t[t[y].parent].space = t[y].space
      BY <1>2, <2>3 DEF HangsFrom
    <3>2. u[t[y].parent].space = t[t[y].parent].space
      BY <1>1, <2>3, <3>1
    <3> QED BY <2>1, <2>3, <3>1, <3>2 DEF HangsFrom, Closed
  <2> QED BY <2>2, <2>3
<1>3. V \in SUBSET Live(t)
  OBVIOUS
<1> HIDE DEF V
<1>4. Rooted(t) \subseteq V
  BY <1>2, <1>3, RootedInClosed DEF Closed
<1> QED BY <1>1, <1>4 DEF V

LEMMA WaysStayWrite ==
    ASSUME TreeInvariant, NEW h \in Requests, Write(h),
           ~Misplaces(job[h]), ~TrashesStale(job[h])
    PROVE  Rooted(row) \cap Live(row') \subseteq Rooted(row')
<1> DEFINE j == job[h]
           p == j.page
           t == Flushed(j)
<1>1. j.kind \in Writers /\ Fits(j) /\ row' = t
  BY DEF Write, Writers
<1>2. /\ row \in Table /\ j \in Job /\ Decided(j) /\ Shaped(j) /\ p \in Pages
      /\ j.touched \subseteq Pages /\ p \in j.touched
  BY <1>1 DEF TreeInvariant, TypeOK, JobOK, Job, Decided
<1>3. /\ \A x \in Pages \ j.touched : t[x] = row[x]
      /\ \A x \in j.touched :
            /\ t[x].at = Field(row[x].at, j.base[x].at, j.new[x].at)
            /\ t[x].space = Field(row[x].space, j.base[x].space, j.new[x].space)
            /\ t[x].parent = Field(row[x].parent, j.base[x].parent, j.new[x].parent)
  BY <1>1, FlushedRows
<1> HIDE DEF t
<1>4. CASE j.kind = "create"
  <2>1. j.touched = {p} /\ row[p] = NoRow
    BY <1>1, <1>2, <1>4 DEF Shaped, Fits
  <2>2. p \notin Live(row)
    BY <2>1 DEF Live, NoRow
  <2> QED BY <1>1, <1>2, <1>3, <2>1, <2>2, WaysStayWithPage
<1>5. CASE j.kind = "restore"
  <2>1. j.touched = {p} /\ j.base[p].at = "trash" /\ j.new[p].at = "live"
        /\ j.new[p].space = j.base[p].space /\ j.new[p].parent \in {j.base[p].parent, None}
    BY <1>2, <1>5 DEF Shaped
  <2>2. t[p].at = "live" /\ t[p].space = row[p].space /\ t[p].parent \in {row[p].parent, None}
    BY <1>2, <1>3, <2>1 DEF Field
  <2> QED BY <1>1, <1>2, <1>3, <2>1, <2>2, WaysStayWithPage
<1>6. CASE j.kind = "trash"
  <2> DEFINE K == Children(row, p)
  <2>1. /\ K = Children(j.base, p) /\ row[p].parent = j.base[p].parent
        /\ j.touched = {p} \cup K /\ j.new = Binned(j.base, p) /\ j.base[p].at = "live"
    BY <1>2, <1>6 DEF TrashesStale, Shaped
  <2>2. j.base \in Table /\ K \subseteq Pages
    BY <1>2 DEF Job, Children, Live
  <2>3. t[p].at # "live"
    <3>1. j.new[p].at = "trash"
      BY <1>2, <2>1, <2>2 DEF Binned, Table, Row
    <3> QED BY <1>2, <1>3, <2>1, <3>1 DEF Field
  <2>4. ASSUME NEW x \in K \ {p}
        PROVE  t[x].at = row[x].at /\ t[x].space = row[x].space /\ t[x].parent = row[p].parent
    <3>1. x \in j.touched /\ x \in Pages /\ j.base[x] \in Row
      BY <2>1, <2>2 DEF Table
    <3>2. j.new[x] = [j.base[x] EXCEPT !.parent = j.base[p].parent]
      BY <2>1, <3>1 DEF Binned
    <3>3. /\ j.new[x].at = j.base[x].at /\ j.new[x].space = j.base[x].space
          /\ j.new[x].parent = row[p].parent
      BY <2>1, <3>1, <3>2 DEF Row
    <3>4. row[x].parent = p /\ j.base[x].parent = p
      BY <2>1 DEF Children
    <3> QED BY <1>3, <3>1, <3>3, <3>4 DEF Field
  <2>5. \A x \in Pages \ {p} : t[x].at = row[x].at /\ t[x].space = row[x].space
    BY <1>3, <2>1, <2>4
  <2>6. /\ \A x \in Pages \ ({p} \cup Children(row, p)) : t[x] = row[x]
        /\ \A x \in Children(row, p) \ {p} : t[x].parent = row[p].parent
    BY <1>3, <2>1, <2>4
  <2> HIDE DEF p, K
  <2>7. Rooted(row) \cap Live(t) \subseteq Rooted(t)
    BY <1>2, <2>3, <2>5, <2>6, WaysStayWithoutPage
  <2> QED BY <1>1, <2>7
<1>7. CASE j.kind = "move"
  <2> DEFINE S == Subtree(row, p)
             q == t[p].parent
  <2>1. /\ j.new[p].space # j.base[p].space => S = j.touched
        /\ q = None \/ q \in (Rooted(row) \cap List(row, t[p].space)) \ S
    BY <1>7 DEF Misplaces, t
  <2>2. \A x \in j.touched :
          /\ j.base[x].at = j.new[x].at
          /\ j.base[x].space = j.base[p].space /\ j.new[x].space = j.new[p].space
          /\ x # p => j.new[x].parent = j.base[x].parent
    BY <1>2, <1>7 DEF Shaped
  <2>3. /\ \A x \in Pages : t[x].at = row[x].at
        /\ \A x \in Pages \ {p} : t[x].parent = row[x].parent
    BY <1>3, <2>2 DEF Field
  <2>4. \A x \in S : x \in Pages /\ row[x].space = row[p].space
    BY <1>2, SubtreeFacts DEF List
  <2>5. /\ \A x \in Pages \ S : t[x].space = row[x].space
        /\ \A x \in S : t[x].space = t[p].space
    <3>1. CASE j.new[p].space = j.base[p].space
      <4>1. ASSUME NEW x \in Pages PROVE t[x].space = row[x].space
        <5>1. CASE x \in j.touched
          <6>1. j.new[x].space = j.base[x].space
            BY <2>2, <3>1, <5>1
          <6> QED BY <1>3, <5>1, <6>1 DEF Field
        <5>2. CASE x \notin j.touched
          BY <1>3, <5>2
        <5> QED BY <5>1, <5>2
      <4> QED BY <1>2, <2>4, <4>1
    <3>2. CASE j.new[p].space # j.base[p].space
      <4>1. S = j.touched /\ \A x \in j.touched : t[x].space = j.new[p].space
        BY <1>3, <2>1, <2>2, <3>2 DEF Field
      <4> QED BY <1>2, <1>3, <4>1
    <3> QED BY <3>1, <3>2
  <2> HIDE DEF S
  <2> QED BY <1>1, <1>2, <2>1, <2>3, <2>5, WaysStayWithBranchMoved DEF S
<1> QED BY <1>1, <1>4, <1>5, <1>6, <1>7 DEF Writers

LEMMA WaysStayDelete ==
    ASSUME TypeOK, NEW h \in Requests, Delete(h)
    PROVE  Rooted(row) \cap Live(row') \subseteq Rooted(row')
<1> DEFINE D == job[h].touched
           t == Deleted(D)
<1>1. row' = t /\ row \in Table /\ D \in SUBSET Pages
  BY DEF Delete, TypeOK, Job
<1>2. ASSUME NEW x \in D PROVE t[x].at # "live"
  <2>1. t[x] = NoRow
    BY <1>1, <1>2 DEF Deleted
  <2> HIDE DEF t
  <2> QED BY <2>1 DEF NoRow
<1>3. ASSUME NEW x \in Pages \ D
      PROVE  /\ t[x].at = row[x].at /\ t[x].space = row[x].space
             /\ t[x].parent = IF row[x].parent \in D THEN None ELSE row[x].parent
  <2> DEFINE q == IF row[x].parent \in D THEN None ELSE row[x].parent
  <2>1. row[x] \in Row /\ t[x] = [row[x] EXCEPT !.parent = q]
    BY <1>1 DEF Table, Deleted, Row
  <2> HIDE DEF t, q
  <2>2. t[x].at = row[x].at /\ t[x].space = row[x].space /\ t[x].parent = q
    BY <2>1 DEF Row
  <2> QED BY <2>2 DEF q
<1> HIDE DEF D, t
<1>4. Rooted(row) \cap Live(t) \subseteq Rooted(t)
  BY <1>1, <1>2, <1>3, WaysStayWithPagesDeleted
<1> QED BY <1>1, <1>4

\* However many requests overlap, and however broken the tree already is, a page
\* loses its way up only to a move or a trash of pages that have changed since
\* they were read, or to a move under a page without one (pages/service.py:777).
THEOREM WaysUpStayUp == Spec => WaysUpStay
<1> DEFINE Stay == \/ Rooted(row) \cap Live(row') \subseteq Rooted(row')
                   \/ \E h \in Requests :
                         Write(h) /\ (Misplaces(job[h]) \/ TrashesStale(job[h]))
<1>1. ASSUME TreeInvariant, [Next]_vars PROVE [Stay]_vars
  <2>1. ASSUME row' = row PROVE Stay
    <3>1. Rooted(row') = Rooted(row)
      BY <2>1
    <3> QED BY <3>1
  <2>2. ASSUME NEW h \in Requests, Write(h) PROVE Stay
    BY <1>1, <2>2, WaysStayWrite
  <2>3. ASSUME NEW h \in Requests, Delete(h) PROVE Stay
    BY <1>1, <2>3, WaysStayDelete DEF TreeInvariant
  <2>4. ASSUME NEW h \in Requests, Begins(h) \/ Refuse(h) PROVE row' = row
    BY <1>1, <2>4, BeginsAlone DEF Refuse, TreeInvariant
  <2>5. UNCHANGED vars \/ \E h \in Requests : Begins(h) \/ Ends(h)
    BY <1>1, StepKinds
  <2> QED BY <2>1, <2>2, <2>3, <2>4, <2>5 DEF Ends, vars
<1> QED BY <1>1, InvariantHolds, PTL DEF Spec, WaysUpStay

-----------------------------------------------------------------------------
(* What the requests check. *)

\* What each kind of request has checked of the rows it read.
Checked(j) ==
    LET p == j.page
        q == j.new[p].parent
        siblings == List(j.base, j.new[p].space)
    IN /\ j.kind = "create" => q \in siblings \cup {None}
       /\ j.kind = "move" => /\ j.touched = Subtree(j.base, p)
                             /\ q \in (siblings \ j.touched) \cup {None}
       /\ j.kind = "restore" => q \in Live(j.base) \cup {None}
       /\ j.kind = "purge" => \A x \in j.touched : j.base[x].at = "trash"

AllChecked == \A h \in Requests : Checked(job[h])

LEMMA NoJobChecked == Checked(NoJob)
  BY DEF Checked, NoJob

LEMMA CreateChecks ==
    ASSUME TypeOK, NEW h \in Requests, Create(h)
    PROVE  Checked(job'[h])
<1>1. PICK s \in Spaces, p \in Pages : \E q \in List(row, s) \cup {None}, g \in Slugs \ Taken(row, s) :
        Begin(h, "create", p, {p},
              [row EXCEPT ![p] = [at |-> "live", space |-> s, parent |-> q, slug |-> g]])
  BY DEF Create
<1>2. PICK q \in List(row, s) \cup {None}, g \in Slugs \ Taken(row, s) :
        Begin(h, "create", p, {p},
              [row EXCEPT ![p] = [at |-> "live", space |-> s, parent |-> q, slug |-> g]])
  BY <1>1
<1> DEFINE new == [row EXCEPT ![p] = [at |-> "live", space |-> s, parent |-> q, slug |-> g]]
<1>3. job'[h] = [kind |-> "create", page |-> p, touched |-> {p}, base |-> row, new |-> new]
  BY <1>2 DEF Begin, TypeOK
<1>4. new[p].space = s /\ new[p].parent = q
  BY DEF TypeOK, Table
<1> HIDE DEF new
<1> QED BY <1>3, <1>4 DEF Checked

LEMMA MoveChecks ==
    ASSUME TypeOK, NEW h \in Requests, Move(h)
    PROVE  Checked(job'[h])
<1>1. PICK p \in Live(row), s \in Spaces :
        \E q \in (List(row, s) \ Subtree(row, p)) \cup {None} :
          \E g \in Renamed(row, Subtree(row, p), s) :
            Begin(h, "move", p, Subtree(row, p), Moved(row, p, s, q, g))
  BY DEF Move
<1> DEFINE S == Subtree(row, p)
<1>2. PICK q \in (List(row, s) \ S) \cup {None} :
          \E g \in Renamed(row, S, s) : Begin(h, "move", p, S, Moved(row, p, s, q, g))
  BY <1>1
<1>3. PICK g \in Renamed(row, S, s) : Begin(h, "move", p, S, Moved(row, p, s, q, g))
  BY <1>2
<1> DEFINE new == Moved(row, p, s, q, g)
<1>4. job'[h] = [kind |-> "move", page |-> p, touched |-> S, base |-> row, new |-> new]
  BY <1>3 DEF Begin, TypeOK
<1>5. p \in Pages /\ p \in S /\ DOMAIN g = S /\ row[p] \in Row
  BY SubtreeFacts DEF Live, Renamed, TypeOK, Table
<1>6. new[p] = [row[p] EXCEPT !.space = s, !.slug = g[p], !.parent = q]
  BY <1>5 DEF Moved, Row
<1>7. new[p].space = s /\ new[p].parent = q
  BY <1>5, <1>6 DEF Row
<1> HIDE DEF new, S
<1>8. Checked([kind |-> "move", page |-> p, touched |-> S, base |-> row, new |-> new])
  BY <1>7 DEF Checked, S
<1> QED BY <1>4, <1>8

LEMMA OthersCheck ==
    ASSUME TypeOK, NEW h \in Requests,
           Trash(h) \/ Restore(h) \/ Purge(h) \/ EmptyTrash(h) \/ PurgeExpired(h)
    PROVE  Checked(job'[h])
<1>1. CASE Trash(h)
  <2>1. PICK p \in Live(row) :
          Begin(h, "trash", p, {p} \cup Children(row, p), Binned(row, p))
    BY <1>1 DEF Trash
  <2>2. job'[h].kind = "trash"
    BY <2>1 DEF Begin, TypeOK
  <2> QED BY <2>2 DEF Checked
<1>2. CASE Restore(h)
  <2>1. PICK s \in Spaces : \E p \in Trashed(row, s) : Begin(h, "restore", p, {p}, Restored(row, p))
    BY <1>2 DEF Restore
  <2>2. PICK p \in Trashed(row, s) : Begin(h, "restore", p, {p}, Restored(row, p))
    BY <2>1
  <2> DEFINE new == Restored(row, p)
  <2>3. job'[h] = [kind |-> "restore", page |-> p, touched |-> {p}, base |-> row, new |-> new]
    BY <2>2 DEF Begin, TypeOK
  <2>4. new[p].parent = IF row[p].parent \in Live(row) THEN row[p].parent ELSE None
    BY <2>2 DEF Restored, Trashed, TypeOK, Table, Row
  <2> HIDE DEF new
  <2> QED BY <2>3, <2>4 DEF Checked
<1>3. CASE Purge(h) \/ EmptyTrash(h) \/ PurgeExpired(h)
  <2>1. PICK D \in SUBSET Pages : PurgePages(h, D) /\ \A x \in D : row[x].at = "trash"
    BY <1>3, ZenonT(40) DEF Purge, EmptyTrash, PurgeExpired, Trashed
  <2>2. job'[h] = [kind |-> "purge", page |-> None, touched |-> D, base |-> row,
                   new |-> Without(row, D)]
    BY <2>1 DEF PurgePages, Begin, TypeOK
  <2> QED BY <2>1, <2>2 DEF Checked
<1> QED BY <1>1, <1>2, <1>3

LEMMA AllCheckedStep == TypeOK /\ AllChecked /\ [Next]_vars => AllChecked'
<1> SUFFICES ASSUME TypeOK, AllChecked, [Next]_vars, NEW g \in Requests
             PROVE  Checked(job'[g])
  BY DEF AllChecked, Checked
<1>1. ASSUME NEW h \in Requests, Begins(h) PROVE Checked(job'[g])
  <2>1. Checked(job'[h])
    BY <1>1, CreateChecks, MoveChecks, OthersCheck DEF Begins
  <2> QED BY <1>1, <2>1, BeginsAlone DEF AllChecked
<1>2. ASSUME NEW h \in Requests, Ends(h) PROVE Checked(job'[g])
  BY <1>2, EndsAlone, NoJobChecked DEF AllChecked
<1> QED BY <1>1, <1>2, StepKinds DEF vars, AllChecked

LEMMA AllCheckedHolds == Spec => []AllChecked
<1>1. Init => AllChecked
  BY NoJobChecked DEF Init, AllChecked
<1>2. TreeInvariant => TypeOK
  BY DEF TreeInvariant
<1> QED BY <1>1, <1>2, AllCheckedStep, InvariantHolds, PTL DEF Spec

\* A page is brought back from the Trash under a parent that has been moved to
\* another space meanwhile: the one thing no request checks.
ParentElsewhere(j) ==
    /\ j.kind = "restore"
    /\ j.new[j.page].parent # None
    /\ j.base[j.new[j.page].parent].space # j.base[j.page].space

\* A move puts its page under one that has no way up itself.
UnderUnrooted(j) ==
    LET q == j.new[j.page].parent
    IN j.kind = "move" /\ q # None /\ q \notin Rooted(row)

\* What a request has checked is so when it writes onto the rows it has read.
LEMMA ChecksHoldOnBase ==
    ASSUME TreeInvariant, AllChecked, NEW h \in Requests, job[h].kind \in Writers,
           row = job[h].base, ~UnderUnrooted(job[h])
    PROVE  ~Misplaces(job[h]) /\ ~TrashesStale(job[h])
<1> DEFINE j == job[h]
           p == j.page
           q == j.new[p].parent
           t == Flushed(j)
<1>1. /\ j \in Job /\ Decided(j) /\ Checked(j)
      /\ p \in Pages /\ p \in j.touched /\ j.touched \subseteq Pages
  BY DEF TreeInvariant, TypeOK, JobOK, AllChecked, Decided, Job
<1>2. t[p].space = j.new[p].space /\ t[p].parent = q
  BY <1>1 DEF Flushed, Field
<1> HIDE DEF t
<1>3. ~Misplaces(j)
  <2> SUFFICES ASSUME j.kind = "move" PROVE ~Misplaces(j)
    BY DEF Misplaces
  <2>1. Subtree(row, p) = j.touched
    BY <1>1 DEF Checked
  <2>2. q = None \/ q \in (Rooted(row) \cap List(row, j.new[p].space)) \ j.touched
    BY <1>1 DEF Checked, UnderUnrooted
  <2> QED BY <1>2, <2>1, <2>2 DEF Misplaces, t
<1> QED BY <1>3 DEF TrashesStale

\* A request that writes onto the rows it has read leaves a page without its way
\* up only by moving it under one that has none.
SoundWhenRead ==
    [][\A h \in Requests :
          Write(h) /\ row = job[h].base /\ ~UnderUnrooted(job[h])
            => Rooted(row) \cap Live(row') \subseteq Rooted(row')]_vars

\* The checks of create, move, trash and restore (pages/service.py) are enough for
\* every page that is in the tree when they run, on the rows they read: what else
\* is not in order there does not matter, unless a page is moved under it.
THEOREM ChecksAreEnough == Spec => SoundWhenRead
<1> DEFINE Sound ==
      \A h \in Requests :
          Write(h) /\ row = job[h].base /\ ~UnderUnrooted(job[h])
            => Rooted(row) \cap Live(row') \subseteq Rooted(row')
<1>1. ASSUME TreeInvariant, AllChecked, [Next]_vars PROVE [Sound]_vars
  <2> SUFFICES ASSUME NEW h \in Requests, Write(h), row = job[h].base, ~UnderUnrooted(job[h])
               PROVE  Rooted(row) \cap Live(row') \subseteq Rooted(row')
    OBVIOUS
  <2>1. job[h].kind \in Writers
    BY DEF Write, Writers
  <2> QED BY <1>1, <2>1, ChecksHoldOnBase, WaysStayWrite
<1> QED BY InvariantHolds, AllCheckedHolds, <1>1, PTL DEF Spec, SoundWhenRead

\* Requests come one at a time.
InTurn == \A g, h \in Requests : job[g] # NoJob /\ job[h] # NoJob => g = h

\* No page is restored under a parent in another space.
ParentsNear == \A h \in Requests : ~ParentElsewhere(job[h])

\* Then nobody changes rows that a request has read and not yet written.
RowsAsRead == \A h \in Requests : job[h].kind # "none" => row = job[h].base

LEMMA RowsAsReadStep ==
    TypeOK /\ RowsAsRead /\ InTurn /\ [Next]_vars => RowsAsRead'
<1> SUFFICES ASSUME TypeOK, RowsAsRead, InTurn, [Next]_vars,
                    NEW g \in Requests, job'[g].kind # "none"
             PROVE  row' = job'[g].base
  BY DEF RowsAsRead
<1>1. ASSUME NEW h \in Requests, Begins(h) PROVE row' = job'[g].base
  BY <1>1, BeginsAlone DEF RowsAsRead
<1>2. ASSUME NEW h \in Requests, Ends(h) PROVE row' = job'[g].base
  <2>1. g # h /\ job'[g] = job[g]
    BY <1>2, EndsAlone DEF NoJob
  <2>2. job[g] # NoJob /\ job[h] # NoJob
    BY <1>2, <2>1 DEF NoJob, Ends, Write, Refuse, Delete
  <2> QED BY <2>1, <2>2 DEF InTurn
<1> QED BY <1>1, <1>2, StepKinds DEF vars, RowsAsRead

\* What a request brings into view hangs from what can be seen.
LEMMA NewPagesHang ==
    ASSUME TreeInvariant, AllChecked, NEW h \in Requests, Write(h), row = job[h].base,
           ~ParentElsewhere(job[h]), NEW x \in Live(row'), x \notin Live(row)
    PROVE  \/ row'[x].parent = None
           \/ /\ row'[x].parent \in Live(row) \cap Live(row')
              /\ row'[row'[x].parent].space = row'[x].space
<1> DEFINE j == job[h]
           p == j.page
           q == j.new[p].parent
           t == Flushed(j)
<1>1. /\ j \in Job /\ Decided(j) /\ Shaped(j) /\ Checked(j) /\ j.kind \in Writers
      /\ p \in Pages /\ p \in j.touched /\ j.touched \subseteq Pages /\ Fits(j) /\ row' = t
  BY DEF TreeInvariant, TypeOK, JobOK, AllChecked, Decided, Job, Write, Writers
<1>2. /\ \A y \in Pages \ j.touched : t[y] = row[y]
      /\ \A y \in j.touched :
            /\ t[y].at = j.new[y].at /\ t[y].space = j.new[y].space
            /\ t[y].parent = j.new[y].parent
  <2>1. \A y \in j.touched :
            /\ t[y].at = Field(row[y].at, j.base[y].at, j.new[y].at)
            /\ t[y].space = Field(row[y].space, j.base[y].space, j.new[y].space)
            /\ t[y].parent = Field(row[y].parent, j.base[y].parent, j.new[y].parent)
    BY <1>1, FlushedRows
  <2>2. \A y \in Pages \ j.touched : t[y] = row[y]
    BY DEF Flushed
  <2> HIDE DEF t
  <2> QED BY <2>1, <2>2 DEF Field
<1> HIDE DEF t
<1>3. x \in Pages /\ t[x].at = "live" /\ row[x].at # "live"
  BY <1>1 DEF Live
<1>4. x \in j.touched
  BY <1>2, <1>3
<1>5. j.kind # "move"
  BY <1>1, <1>3, <1>4 DEF Shaped
<1>6. j.kind # "trash"
  <2> SUFFICES ASSUME j.kind = "trash" PROVE FALSE
    OBVIOUS
  <2>1. x = p \/ x \in Children(row, p)
    BY <1>1, <1>4 DEF Shaped
  <2> QED BY <1>1, <1>3, <2>1 DEF Shaped, Children, Live
<1>7. x = p /\ j.touched = {p}
  BY <1>1, <1>4, <1>5, <1>6 DEF Shaped, Writers
<1>8. q = None \/ (q \in Live(row) /\ row[q].space = j.new[p].space)
  <2>1. CASE j.kind = "create"
    BY <1>1, <2>1 DEF Checked, List
  <2>2. CASE j.kind = "restore"
    BY <1>1, <2>2 DEF Checked, ParentElsewhere, Shaped
  <2> QED BY <1>1, <1>5, <1>6, <2>1, <2>2 DEF Writers
<1>9. ASSUME q # None
      PROVE  q \in Live(row) \cap Live(t) /\ t[q].space = t[x].space /\ t[x].parent = q
  <2>1. q \in Live(row) /\ row[q].space = j.new[p].space /\ q # p
    BY <1>3, <1>7, <1>8, <1>9 DEF Live
  <2>2. q \in Pages /\ t[q] = row[q]
    BY <1>2, <1>7, <2>1 DEF Live
  <2> QED BY <1>2, <1>7, <2>1, <2>2 DEF Live
<1>10. t[x].parent = q
  BY <1>2, <1>7
<1> QED BY <1>1, <1>9, <1>10

\* As long as requests come one at a time and none restores a page under a parent
\* in another space, every page that can be seen has its way up, without
\* exception: the overlap and that restore are all there is that breaks a tree.
THEOREM WholeInTurn ==
    Spec /\ []InTurn /\ []ParentsNear => [](Live(row) = Rooted(row))
<1> DEFINE Whole == Live(row) \subseteq Rooted(row)
           Kept == RowsAsRead /\ Whole
<1>1. Init => Kept
  BY DEF Init, RowsAsRead, NoJob, Live, NoRow
<1>2. TreeInvariant /\ AllChecked /\ Kept /\ InTurn /\ ParentsNear /\ [Next]_vars => Kept'
  <2> SUFFICES ASSUME TreeInvariant, AllChecked, Kept, InTurn, ParentsNear, [Next]_vars
               PROVE  Kept'
    OBVIOUS
  <2>1. TypeOK
    BY DEF TreeInvariant
  <2>2. RowsAsRead'
    BY <2>1, RowsAsReadStep
  <2>3. ASSUME NEW h \in Requests, Write(h) PROVE Live(row') \subseteq Rooted(row')
    <3>1. job[h].kind \in Writers /\ job[h].kind # "none"
      BY <2>3 DEF Write, Writers
    <3>2. row = job[h].base /\ ~ParentElsewhere(job[h])
      BY <3>1 DEF RowsAsRead, ParentsNear
    <3>3. ~UnderUnrooted(job[h])
      <4> SUFFICES ASSUME job[h].kind = "move", job[h].new[job[h].page].parent # None
                   PROVE  job[h].new[job[h].page].parent \in Live(row)
        BY DEF UnderUnrooted
      <4>1. Checked(job[h])
        BY DEF AllChecked
      <4> QED BY <3>2, <4>1 DEF Checked, List
    <3>4. Rooted(row) \cap Live(row') \subseteq Rooted(row')
      BY <2>3, <3>1, <3>2, <3>3, ChecksHoldOnBase, WaysStayWrite
    <3>5. ASSUME NEW x \in Live(row') PROVE x \in Rooted(row')
      <4>1. CASE x \in Live(row)
        BY <3>4, <3>5, <4>1
      <4>2. CASE x \notin Live(row)
        <5>1. HangsFrom(row', x, Rooted(row'))
          BY <2>3, <3>2, <3>4, <3>5, <4>2, NewPagesHang DEF HangsFrom
        <5> QED BY <3>5, <5>1, RootedClosed
      <4> QED BY <4>1, <4>2
    <3> QED BY <3>5
  <2>4. ASSUME NEW h \in Requests, Delete(h) PROVE Live(row') \subseteq Rooted(row')
    <3>1. Live(row') \subseteq Live(row)
      <4> SUFFICES ASSUME NEW x \in Live(row') PROVE row[x].at = "live"
        BY DEF Live
      <4>1. row' = Deleted(job[h].touched) /\ row[x] \in Row /\ x \in Pages
        BY <2>1, <2>4 DEF Delete, TypeOK, Table, Live
      <4>2. x \notin job[h].touched
        BY <4>1 DEF Deleted, Live, NoRow
      <4> QED BY <4>1, <4>2 DEF Deleted, Live, Row
    <3> QED BY <2>1, <2>4, <3>1, WaysStayDelete
  <2>5. ASSUME row' = row PROVE Live(row') \subseteq Rooted(row')
    <3>1. Live(row') = Live(row) /\ Rooted(row') = Rooted(row)
      BY <2>5
    <3> QED BY <3>1
  <2>6. ASSUME NEW h \in Requests, Begins(h) \/ Refuse(h) PROVE row' = row
    BY <2>1, <2>6, BeginsAlone DEF Refuse
  <2>7. Live(row') \subseteq Rooted(row')
    BY <2>3, <2>4, <2>5, <2>6, StepKinds DEF vars, Ends
  <2>8. Whole'
    BY <2>7 DEF Live, Rooted, HangsFrom
  <2> QED BY <2>2, <2>8
<1>3. Kept => Live(row) = Rooted(row)
  BY DEF Rooted
<1> HIDE DEF Kept
<1>4. Spec /\ []InTurn /\ []ParentsNear => []Kept
  BY <1>1, <1>2, InvariantHolds, AllCheckedHolds, PTL DEF Spec
<1> QED BY <1>3, <1>4, PTL

\* Who loses a page for good: a page that can be seen goes only to a purge that
\* found it in the Trash and did not look again (_purge_pages, :976).
GoesFromTrash ==
    [][\A p \in Pages : row[p].at = "live" /\ row'[p].at = "absent" =>
          \E h \in Requests :
             /\ Delete(h) /\ p \in job[h].touched
             /\ job[h].base[p].at = "trash" /\ row # job[h].base]_vars

\* A purge deletes no page that was not in the Trash when it read it; one that is
\* seen has been restored since, and goes all the same.
THEOREM PurgedFromTrash == Spec => GoesFromTrash
<1> DEFINE FromTrash ==
      \A p \in Pages : row[p].at = "live" /\ row'[p].at = "absent" =>
          \E h \in Requests :
             /\ Delete(h) /\ p \in job[h].touched
             /\ job[h].base[p].at = "trash" /\ row # job[h].base
<1>1. ASSUME TreeInvariant, AllChecked, [Next]_vars PROVE [FromTrash]_vars
  <2> SUFFICES ASSUME NEW p \in Pages, row[p].at = "live", row'[p].at = "absent"
               PROVE  \E h \in Requests :
                         /\ Delete(h) /\ p \in job[h].touched
                         /\ job[h].base[p].at = "trash" /\ row # job[h].base
    OBVIOUS
  <2>1. TypeOK
    BY <1>1 DEF TreeInvariant
  <2>2. PICK h \in Requests : Begins(h) \/ Ends(h)
    BY <1>1, StepKinds DEF vars
  <2>3. ~Begins(h) /\ ~Refuse(h)
    BY <2>1, BeginsAlone DEF Refuse
  <2>4. ~Write(h)
    <3> SUFFICES ASSUME Write(h) PROVE FALSE
      OBVIOUS
    <3>1. job[h].kind \in Writers /\ Fits(job[h]) /\ row' = Flushed(job[h])
      BY DEF Write, Writers
    <3>2. row'[p].at # "absent"
      BY <1>1, <3>1, FlushedRows
    <3> QED BY <3>2
  <2>5. Delete(h)
    BY <2>2, <2>3, <2>4 DEF Ends
  <2>6. p \in job[h].touched
    <3> SUFFICES ASSUME p \notin job[h].touched PROVE FALSE
      OBVIOUS
    <3>1. row' = Deleted(job[h].touched) /\ row[p] \in Row
      BY <2>1, <2>5 DEF Delete, TypeOK, Table
    <3>2. row'[p].at = row[p].at
      BY <3>1 DEF Deleted, Row
    <3> QED BY <3>2
  <2>7. job[h].base[p].at = "trash"
    BY <1>1, <2>5, <2>6 DEF AllChecked, Checked, Delete
  <2> QED BY <2>5, <2>6, <2>7
<1> QED BY InvariantHolds, AllCheckedHolds, <1>1, PTL DEF Spec, GoesFromTrash
=============================================================================
