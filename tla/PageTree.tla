------------------------------ MODULE PageTree ------------------------------
(***************************************************************************)
(* The pages of the spaces as a tree: the rows of the table pages, and the *)
(* requests of modules/pages/service.py that create, move, trash, restore  *)
(* and purge them.                                                         *)
(*                                                                         *)
(* A request reads the rows, decides, and writes in one transaction.       *)
(* Nothing locks what was read, so a request is two steps: the first keeps *)
(* the rows as read (base) and as it left them (new), the second writes    *)
(* what differs between the two, as a session does, and the database       *)
(* refuses the transaction if a constraint of the table does not hold.     *)
(***************************************************************************)
EXTENDS Naturals

CONSTANTS Pages, Spaces, Slugs,
          Requests,     \* how many requests may overlap
          None,
          MaxActs       \* bound: requests made

ASSUME NoneAssumption == None \notin Pages \cup Spaces \cup Slugs
ASSUME BoundAssumption == MaxActs \in Nat

VARIABLES row,          \* the table: one row for each page that has one
          job,          \* what each request has read and is about to write
          acts          \* requests made

vars == <<row, job, acts>>

Row == [at     : {"absent", "live", "trash"},
        space  : Spaces \cup {None},
        parent : Pages \cup {None},
        slug   : Slugs \cup {None}]

NoRow == [at |-> "absent", space |-> None, parent |-> None, slug |-> None]

Table == [Pages -> Row]

Job == [kind    : {"none", "create", "move", "trash", "restore", "purge"},
        page    : Pages \cup {None},
        touched : SUBSET Pages,
        base    : Table,
        new     : Table]

NoJob == [kind |-> "none", page |-> None, touched |-> {},
          base |-> [p \in Pages |-> NoRow], new |-> [p \in Pages |-> NoRow]]

(***************************************************************************)
(* Queries.  Pages in the Trash are left out of all but Taken and Trashed. *)
(***************************************************************************)
Live(t) == {p \in Pages : t[p].at = "live"}

List(t, s) == {p \in Live(t) : t[p].space = s}

Children(t, p) == {c \in Live(t) : t[c].parent = p}

Trashed(t, s) == {p \in Pages : t[p].at = "trash" /\ t[p].space = s}

TakenByLive(t, s) == {t[p].slug : p \in List(t, s)}

Taken(t, s) == {t[p].slug : p \in List(t, s) \cup Trashed(t, s)}

SubtreeOneLevel(t, p) == {p} \cup {c \in List(t, t[p].space) : t[c].parent = p}

\* The page and what lies below it in its space: the least set that holds the
\* page and the children of its members.
Subtree(t, p) ==
    {x \in Pages : \A C \in SUBSET Pages :
        (/\ p \in C
         /\ \A c \in List(t, t[p].space) : t[c].parent \in C => c \in C)
        => x \in C}

\* The slugs a moved branch takes, one page after another: its own, or one with
\* a suffix that makes it new, where a page of the destination or one of the
\* branch renamed before it has that.
Renamed(t, S, s) ==
    LET occupied == {t[x].slug : x \in List(t, s) \ S}
    IN {g \in [S -> Slugs \ occupied] :
          /\ \A x, y \in S : g[x] = g[y] => x = y
          /\ \A T \in SUBSET S \ {{}} : \E x \in T :
                g[x] # t[x].slug => t[x].slug \in occupied \cup {g[y] : y \in S \ T}}

(***************************************************************************)
(* Reading and deciding.                                                   *)
(***************************************************************************)
Begin(h, k, p, touched, new) ==
    /\ job[h] = NoJob
    /\ acts < MaxActs
    /\ acts' = acts + 1
    /\ job' = [job EXCEPT ![h] = [kind |-> k, page |-> p, touched |-> touched,
                                  base |-> row, new |-> new]]
    /\ UNCHANGED row

\* An identifier that no row and no request has.
IsNew(p) == /\ row[p] = NoRow
            /\ \A k \in Requests : job[k].base[p] = NoRow /\ job[k].new[p] = NoRow

Create(h) ==
    \E s \in Spaces, p \in Pages :
      \E q \in List(row, s) \cup {None}, g \in Slugs \ Taken(row, s) :
        /\ IsNew(p)
        /\ Begin(h, "create", p, {p},
             [row EXCEPT ![p] = [at |-> "live", space |-> s, parent |-> q, slug |-> g]])

Moved(t, p, s, q, g) ==
    [x \in Pages |->
        IF x \in DOMAIN g
          THEN [t[x] EXCEPT !.space = s, !.slug = g[x],
                            !.parent = IF x = p THEN q ELSE @]
          ELSE t[x]]

Move(h) ==
    \E p \in Live(row), s \in Spaces :
      \E q \in (List(row, s) \ Subtree(row, p)) \cup {None} :
        \E g \in Renamed(row, Subtree(row, p), s) :
          Begin(h, "move", p, Subtree(row, p), Moved(row, p, s, q, g))

\* Its direct children move up to its own parent.
Binned(t, p) ==
    [x \in Pages |->
        IF x = p THEN [t[x] EXCEPT !.at = "trash"]
        ELSE IF x \in Children(t, p) THEN [t[x] EXCEPT !.parent = t[p].parent]
        ELSE t[x]]

Trash(h) ==
    \E p \in Live(row) :
        Begin(h, "trash", p, {p} \cup Children(row, p), Binned(row, p))

Restored(t, p) ==
    [t EXCEPT ![p].at = "live",
              ![p].parent = IF @ \in Live(t) THEN @ ELSE None]

Restore(h) ==
    \E s \in Spaces : \E p \in Trashed(row, s) :
        Begin(h, "restore", p, {p}, Restored(row, p))

Without(t, D) == [x \in Pages |-> IF x \in D THEN NoRow ELSE t[x]]

PurgePages(h, D) == Begin(h, "purge", None, D, Without(row, D))

Purge(h) == \E s \in Spaces : \E p \in Trashed(row, s) : PurgePages(h, {p})

EmptyTrash(h) ==
    \E s \in Spaces : Trashed(row, s) # {} /\ PurgePages(h, Trashed(row, s))

\* How long a page has been in the Trash is left open.
PurgeExpired(h) ==
    \E D \in SUBSET UNION {Trashed(row, s) : s \in Spaces} :
        D # {} /\ PurgePages(h, D)

(***************************************************************************)
(* Writing.                                                                *)
(***************************************************************************)
\* An UPDATE names the columns the session has changed, an INSERT all.
Field(now, old, wanted) == IF wanted = old THEN now ELSE wanted

Flushed(j) ==
    [x \in Pages |->
        IF x \in j.touched
          THEN [at     |-> Field(row[x].at, j.base[x].at, j.new[x].at),
                space  |-> Field(row[x].space, j.base[x].space, j.new[x].space),
                parent |-> Field(row[x].parent, j.base[x].parent, j.new[x].parent),
                slug   |-> Field(row[x].slug, j.base[x].slug, j.new[x].slug)]
          ELSE row[x]]

\* uq_pages_space_slug: rows in the Trash count.
SlugsApart(t) ==
    \A x, y \in Pages :
        (/\ t[x].at # "absent" /\ t[y].at # "absent"
         /\ t[x].space = t[y].space /\ t[x].slug = t[y].slug) => x = y

\* The rows an UPDATE names are there, a new one is not, parents that are
\* written have rows, and slugs stay apart.
Fits(j) ==
    /\ \A x \in j.touched : (row[x] = NoRow) <=> (j.kind = "create")
    /\ \A x \in j.touched, q \in Pages :
          q = j.new[x].parent /\ q # j.base[x].parent => row[q] # NoRow
    /\ SlugsApart(Flushed(j))

Write(h) ==
    /\ job[h].kind \in {"create", "move", "trash", "restore"}
    /\ Fits(job[h])
    /\ row' = Flushed(job[h])
    /\ job' = [job EXCEPT ![h] = NoJob]
    /\ UNCHANGED acts

\* The transaction is rolled back and the request fails.
Refuse(h) ==
    /\ job[h].kind \in {"create", "move", "trash", "restore"}
    /\ ~Fits(job[h])
    /\ job' = [job EXCEPT ![h] = NoJob]
    /\ UNCHANGED <<row, acts>>

DeletedRows(D) == [x \in Pages |-> IF x \in D THEN NoRow ELSE row[x]]

\* The foreign key clears the links to the rows that go.  Whether they are
\* still in the Trash is not asked.
Deleted(D) ==
    [x \in Pages |->
        IF x \in D THEN NoRow
        ELSE [row[x] EXCEPT !.parent = IF @ \in D THEN None ELSE @]]

Delete(h) ==
    /\ job[h].kind = "purge"
    /\ row' = Deleted(job[h].touched)
    /\ job' = [job EXCEPT ![h] = NoJob]
    /\ UNCHANGED acts

Init ==
    /\ row = [p \in Pages |-> NoRow]
    /\ job = [h \in Requests |-> NoJob]
    /\ acts = 0

Next ==
    \E h \in Requests :
        \/ Create(h) \/ Move(h) \/ Trash(h) \/ Restore(h)
        \/ Purge(h) \/ EmptyTrash(h) \/ PurgeExpired(h)
        \/ Write(h) \/ Refuse(h) \/ Delete(h)

Spec == Init /\ [][Next]_vars

(***************************************************************************)
(* Properties.                                                             *)
(***************************************************************************)
HangsFrom(t, x, W) ==
    \/ t[x].parent = None
    \/ t[x].parent \in W /\ t[t[x].parent].space = t[x].space

\* The pages with a way up: following parents from them ends at the top of their
\* space, and meets only pages of it that are not in the Trash.
Rooted(t) ==
    {x \in Live(t) : \A W \in SUBSET Live(t) :
        (\A y \in Live(t) : HangsFrom(t, y, W) => y \in W) => x \in W}

\* Rows and requests are well formed, a row has all its columns or none, and a
\* link leads to a row, whoever deletes it meanwhile (models/page.py:44).
TypeOK ==
    /\ row \in Table
    /\ \A p \in Pages : row[p].at = "absent" => row[p] = NoRow
    /\ \A p, q \in Pages : row[p].parent = q => row[q] # NoRow
    /\ job \in [Requests -> Job]
    /\ acts \in 0..MaxActs

\* A move has carried its branch to another space and the branch has changed
\* since, or has put its page under one that is now in the branch, in another
\* space, in the Trash, or that has no way up itself.
Misplaces(j) ==
    LET p == j.page
        t == Flushed(j)
        q == t[p].parent
    IN /\ j.kind = "move"
       /\ \/ /\ j.new[p].space # j.base[p].space
             /\ Subtree(row, p) # j.touched
          \/ q # None /\ q \notin (Rooted(row) \cap List(row, t[p].space)) \ Subtree(row, p)

\* A page trashed has had a child come or go, or has moved, since it was read.
TrashesStale(j) ==
    LET p == j.page
    IN /\ j.kind = "trash"
       /\ \/ Children(row, p) # Children(j.base, p)
          \/ row[p].parent # j.base[p].parent

\* Whatever requests overlap, and whatever state they have left the tree in, no
\* step takes its way up from a page that can still be seen, but a move or a
\* trash of a page whose surroundings have changed since it read them, and a
\* move under a page that has none.  (The access rules follow parents up without
\* counting, permissions/service.py:1303, and do not come back where there is
\* no way up but a circle.)
WaysUpStay ==
    [][\/ Rooted(row) \cap Live(row') \subseteq Rooted(row')
       \/ \E h \in Requests :
             Write(h) /\ (Misplaces(job[h]) \/ TrashesStale(job[h]))]_vars

\* What a request is about to write is refused by the database only if the
\* rows have changed since it read them, or if a page is moved into a space
\* whose Trash holds its slug (pages/service.py:810 asks for the slugs of pages
\* that are not in the Trash).
WritesFit ==
    \A h \in Requests : LET j == job[h] IN
        j.kind \in {"create", "move", "trash", "restore"} =>
            \/ Fits(j)
            \/ row # j.base
            \/ /\ j.kind = "move"
               /\ \E x \in j.touched : \E y \in Trashed(row, j.new[x].space) :
                     row[y].slug = j.new[x].slug
=============================================================================
