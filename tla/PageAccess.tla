----------------------------- MODULE PageAccess -----------------------------
(***************************************************************************)
(* Who may see and edit a page of one space: permissions/service.py.       *)
(*                                                                         *)
(* A space hands out permissions to users and groups, and when it is open  *)
(* most of them to everybody.  A page narrows that with rows of its own: a *)
(* row that names a user or a group for View or Edit is a grant (the       *)
(* page's allow-list) or, with `denied`, a block.  A page is Restricted    *)
(* when its flag says so, whatever rows it has.  Restrictions reach the    *)
(* pages below, up to the first page that has stopped inheriting.          *)
(*                                                                         *)
(* Every handler is one transaction and one action.  What two of them do   *)
(* to each other's checks when they overlap is not modelled here.          *)
(***************************************************************************)
EXTENDS Naturals, FiniteSets

CONSTANTS
    Pages,        \* the pages of the space
    Above,        \* [Pages -> SUBSET Pages]: the ancestors of each page
    SystemAdmins, \* system administrators, and
    Owners,       \* users with a space_owners row: they hold every permission
                  \* whatever other rows name them
    Users,        \* the other active users
    Groups,       \* active groups
    MaxChanges    \* bounds the number of settings changed

Who == Users \cup Groups
Actors == Users \cup Owners \cup SystemAdmins

\* The pages form a forest: what is above a page is a path, which ends in its
\* parent.
ASSUME TreeAssumption ==
    /\ Above \in [Pages -> SUBSET Pages]
    /\ \A p \in Pages : p \notin Above[p]
    /\ \A p \in Pages : \A a \in Above[p] : Above[a] \subseteq Above[p]
    /\ \A p \in Pages : \A a, b \in Above[p] : a = b \/ a \in Above[b] \/ b \in Above[a]
    /\ \A p \in Pages : Above[p] # {} => \E a \in Above[p] : Above[p] = Above[a] \cup {a}

ASSUME PrincipalsAssumption ==
    /\ Users \cap Groups = {}
    /\ Users \cap (Owners \cup SystemAdmins) = {}
    /\ MaxChanges \in Nat

\* Of the permissions of a space, those the page rules read; the others
\* (delete, move, ...) are granted and lost like "add".
Permissions == {"view", "add", "restrictions", "admin"}
OpenSpacePermissions == {"view", "add"}
PagePermissions == {"view", "edit"}

Rows == Pages \X Who \X PagePermissions

VARIABLES
    open,         \* spaces.visibility is open
    given,        \* space_user_permissions and space_group_permissions
    member,       \* group_members: the members of each group
    allow,        \* page restriction rows that grant
    blocked,      \* page restriction rows with `denied`
    restricted,   \* pages.view_restricted
    inherits,     \* pages.inherit_restrictions
    changes       \* settings changed so far

spaceVars == <<open, given, member>>
pageVars == <<allow, blocked, restricted, inherits>>
vars == <<open, given, member, allow, blocked, restricted, inherits, changes>>

\* (page, principal, permission) is the primary key: a row is a grant or a block.
TypeOK ==
    /\ open \in BOOLEAN
    /\ given \in [Who -> SUBSET Permissions]
    /\ member \in [Groups -> SUBSET Users]
    /\ allow \subseteq Rows
    /\ blocked \subseteq Rows
    /\ allow \cap blocked = {}
    /\ restricted \in [Pages -> BOOLEAN]
    /\ inherits \in [Pages -> BOOLEAN]
    /\ changes \in 0..MaxChanges

\* SpaceService.create: its creator is an owner, nobody else has a row. An
\* imported space may have no owner at all.
Init ==
    /\ open \in BOOLEAN
    /\ given = [w \in Who |-> {}]
    /\ member = [g \in Groups |-> {}]
    /\ allow = {}
    /\ blocked = {}
    /\ restricted = [p \in Pages |-> FALSE]
    /\ inherits = [p \in Pages |-> TRUE]
    /\ changes = 0

-----------------------------------------------------------------------------
(* What the space gives. *)

GroupsOf(u) == {g \in Groups : u \in member[g]}

FromGroups(u) == UNION {given[g] : g \in GroupsOf(u)}

\* A user's own rows replace what the groups give, except for admin.
Effective(u) ==
    IF u \in Owners \cup SystemAdmins THEN Permissions
    ELSE (IF open THEN OpenSpacePermissions ELSE {}) \cup
         (IF given[u] = {} THEN FromGroups(u)
          ELSE given[u] \cup (FromGroups(u) \cap {"admin"}))

\* An open space lets everybody in; otherwise the principal's own rows count.
HasSpaceAccess(w) == open \/ given[w] # {}

-----------------------------------------------------------------------------
(* What the pages narrow. *)

\* _page_chain: the page and what is above it, up to the first page that
\* does not inherit.
Chain(p) ==
    {a \in Above[p] \cup {p} :
        \A b \in Above[p] \cup {p} : a \in Above[b] => inherits[b]}

\* The Restricted page of the chain that is closest to p, if there is one.
Nearest(p) ==
    {a \in Chain(p) : restricted[a] /\ \A b \in Chain(p) : a \in Above[b] => ~restricted[b]}

\* The parent, if there is one.
ParentOf(p) == {a \in Above[p] : \A b \in Above[p] : a \notin Above[b]}

SpaceHasRestrictions ==
    (\E p \in Pages : restricted[p]) \/ allow # {} \/ blocked # {}

\* The user's own row decides; among groups one block is enough.
Denied(p, u, perm) ==
    IF <<p, u, perm>> \in allow \cup blocked
    THEN <<p, u, perm>> \in blocked
    ELSE \E g \in GroupsOf(u) : <<p, g, perm>> \in blocked

\* On the page's allow-list; a grant of Edit lets view as well.
Listed(p, u, perm) ==
    \E w \in {u} \cup GroupsOf(u) :
        <<p, w, "edit">> \in allow \/ (perm = "view" /\ <<p, w, "view">> \in allow)

HasEditList(p) == \E w \in Who : <<p, w, "edit">> \in allow

PagesLetView(p, u) ==
    /\ \A a \in Chain(p) : ~Denied(a, u, "view")
    /\ \A a \in Nearest(p) : Listed(a, u, "view")

CanView(p, u) ==
    /\ "view" \in Effective(u)
    /\ "admin" \in Effective(u) \/ ~SpaceHasRestrictions \/ PagesLetView(p, u)

\* Wrong: only the page's own list is asked, so that a page without one
\* below a Restricted page is open to every editor who may see it.
AskedForEditOfItself(p) == {p}

\* The pages whose lists are asked for Edit: from the nearest Restricted
\* page down, or all of the chain.
AskedForEdit(p) == {a \in Chain(p) : \A r \in Nearest(p) : a = r \/ r \in Above[a]}

PagesLetEdit(p, u) ==
    /\ \A a \in Chain(p) : ~Denied(a, u, "edit")
    /\ \A a \in AskedForEdit(p) : restricted[a] \/ HasEditList(a) => Listed(a, u, "edit")

CanEdit(p, u) ==
    /\ CanView(p, u)
    /\ "add" \in Effective(u)
    /\ "admin" \in Effective(u) \/ ~SpaceHasRestrictions \/ PagesLetEdit(p, u)

-----------------------------------------------------------------------------
(* What the dialog shows. *)

\* nearest_restricting_ancestor finds one.
FollowsRestrictions(p) ==
    \E a \in Chain(p) \ {p} :
        \/ restricted[a]
        \/ \E w \in Who, perm \in PagePermissions : <<a, w, perm>> \in blocked
        \/ HasEditList(a)

\* list_users_with_space_access.
InRoster(u) == open \/ given[u] # {}

\* Wrong: a block of a group counts although the user has a row of their own.
RosterDeniedByAny(p, u, perm) ==
    \E w \in {u} \cup GroupsOf(u) : <<p, w, perm>> \in blocked

\* denied_for: the page's own rows only.
RosterDenied(p, u, perm) ==
    IF <<p, u, perm>> \in allow \cup blocked
    THEN <<p, u, perm>> \in blocked
    ELSE \E g \in GroupsOf(u) : <<p, g, perm>> \in blocked

\* The View box of list_page_access_roster_users.
RosterView(p, u) ==
    \/ "admin" \in Effective(u)
    \/ /\ "view" \in Effective(u)
       /\ FollowsRestrictions(p) => \A a \in ParentOf(p) : CanView(a, u)
       /\ ~RosterDenied(p, u, "view")

-----------------------------------------------------------------------------
(* Settings of the space. *)

Changed == changes < MaxChanges /\ changes' = changes + 1

MayAdminister(actor) == "admin" \in Effective(actor)

\* Every permission is useless without View: it comes with the others...
GrantSpace(actor, w, perm) ==
    /\ MayAdminister(actor)
    /\ perm \notin given[w]
    /\ Changed
    /\ given' = [given EXCEPT ![w] = @ \cup {perm, "view"}]
    /\ UNCHANGED <<open, member, pageVars>>

\* ... and cannot go before them.
KeepsView(w, perm) == perm = "view" => given[w] = {"view"}

\* _has_space_admin without the row that is about to go.
AnotherAdmin(w) == Owners # {} \/ \E x \in Who \ {w} : "admin" \in given[x]

\* _purge_page_restrictions_for_removed_principal: all their rows, in every
\* page of the space.
Purge(w) ==
    /\ allow' = {r \in allow : r[2] # w}
    /\ blocked' = {r \in blocked : r[2] # w}

RevokeSpace(actor, w, perm) ==
    /\ MayAdminister(actor)
    /\ perm \in given[w]
    /\ perm = "admin" => AnotherAdmin(w)
    /\ KeepsView(w, perm)
    /\ Changed
    /\ given' = [given EXCEPT ![w] = @ \ {perm}]
    /\ IF open \/ given'[w] # {} THEN UNCHANGED <<allow, blocked>> ELSE Purge(w)
    /\ UNCHANGED <<open, member, restricted, inherits>>

\* Only an owner opens or closes the space.
SetVisibility(actor) ==
    /\ actor \in Owners \cup SystemAdmins
    /\ Changed
    /\ open' = ~open
    /\ UNCHANGED <<given, member, pageVars>>

\* By the owner of the group or a system administrator.
SetGroupMember(g, u) ==
    /\ Changed
    /\ \/ u \notin member[g] /\ member' = [member EXCEPT ![g] = @ \cup {u}]
       \/ u \in member[g] /\ member' = [member EXCEPT ![g] = @ \ {u}]
    /\ UNCHANGED <<open, given, pageVars>>

-----------------------------------------------------------------------------
(* Settings of a page. *)

MayRestrict(actor) == {"view", "restrictions"} \subseteq Effective(actor)

RowExists(r) == r \in allow \cup blocked

\* Wrong: no row for somebody who sees the page anyway.
GrantPageIfNeeded(actor, p, w, perm) ==
    /\ MayRestrict(actor)
    /\ HasSpaceAccess(w)
    /\ Changed
    /\ allow' = IF w \in Users /\ CanView(p, w) THEN allow
                ELSE allow \cup {r \in {<<p, w, perm>>, <<p, w, "view">>} : ~RowExists(r)}
    /\ restricted' = [restricted EXCEPT ![p] =
                        @ \/ perm = "view" \/ ~RowExists(<<p, w, "view">>)]
    /\ UNCHANGED <<spaceVars, blocked, inherits>>

\* Naming the first principal makes the page Restricted; a row that exists
\* stays what it is.  Edit brings View along.
GrantPage(actor, p, w, perm) ==
    /\ MayRestrict(actor)
    /\ HasSpaceAccess(w)
    /\ Changed
    /\ allow' = allow \cup {r \in {<<p, w, perm>>, <<p, w, "view">>} : ~RowExists(r)}
    /\ restricted' = [restricted EXCEPT ![p] =
                        @ \/ perm = "view" \/ ~RowExists(<<p, w, "view">>)]
    /\ UNCHANGED <<spaceVars, blocked, inherits>>

\* View cannot go while there is a grant of Edit.  A page whose list has
\* become empty stays Restricted.
RevokePage(actor, p, w, perm) ==
    /\ MayRestrict(actor)
    /\ RowExists(<<p, w, perm>>)
    /\ perm = "view" => <<p, w, "edit">> \notin allow
    /\ Changed
    /\ allow' = allow \ {<<p, w, perm>>}
    /\ blocked' = blocked \ {<<p, w, perm>>}
    /\ UNCHANGED <<spaceVars, restricted, inherits>>

SetMode(actor, p) ==
    /\ MayRestrict(actor)
    /\ Changed
    /\ restricted' = [restricted EXCEPT ![p] = ~@]
    /\ UNCHANGED <<spaceVars, allow, blocked, inherits>>

\* Restricted: the allow-list goes.  Open: the blocks go.
Reset(actor, p) ==
    /\ MayRestrict(actor)
    /\ Changed
    /\ allow' = {r \in allow : r[1] = p => ~restricted[p]}
    /\ blocked' = {r \in blocked : r[1] = p => restricted[p]}
    /\ UNCHANGED <<spaceVars, restricted, inherits>>

\* Wrong: a block is something of an Open page, so the page becomes one.
BlockAndOpen(actor, p, w, perm) ==
    /\ MayRestrict(actor)
    /\ <<p, w, perm>> \notin blocked
    /\ Changed
    /\ blocked' = blocked \cup {<<p, w, perm>>}
    /\ allow' = allow \ {<<p, w, perm>>}
    /\ restricted' = [restricted EXCEPT ![p] = FALSE]
    /\ UNCHANGED <<spaceVars, inherits>>

\* Wrong: the grant stays beside the block.
BlockBesideGrant(actor, p, w, perm) ==
    /\ MayRestrict(actor)
    /\ <<p, w, perm>> \notin blocked
    /\ Changed
    /\ blocked' = blocked \cup {<<p, w, perm>>}
    /\ UNCHANGED <<spaceVars, allow, restricted, inherits>>

\* A grant that exists becomes the block.
Block(actor, p, w, perm) ==
    /\ MayRestrict(actor)
    /\ <<p, w, perm>> \notin blocked
    /\ Changed
    /\ blocked' = blocked \cup {<<p, w, perm>>}
    /\ allow' = allow \ {<<p, w, perm>>}
    /\ UNCHANGED <<spaceVars, restricted, inherits>>

Unblock(actor, p, w, perm) ==
    /\ MayRestrict(actor)
    /\ <<p, w, perm>> \in blocked
    /\ Changed
    /\ blocked' = blocked \ {<<p, w, perm>>}
    /\ UNCHANGED <<spaceVars, allow, restricted, inherits>>

\* set_page_inheritance, off: the page starts from a copy of every block above
\* it and of the list of the nearest Restricted page above it.  Its own rows
\* stay, and blocks come before grants.
StopInheriting(actor, p) ==
    /\ MayRestrict(actor)
    /\ ParentOf(p) # {} /\ inherits[p]
    /\ Changed
    /\ LET above   == Chain(p) \ {p}
           nearest == UNION {Nearest(a) : a \in ParentOf(p)}
           free    == {r \in {p} \X Who \X PagePermissions : ~RowExists(r)}
           blocks  == {r \in free : \E a \in above : <<a, r[2], r[3]>> \in blocked}
           grants  == {r \in free \ blocks : \E a \in nearest : <<a, r[2], r[3]>> \in allow}
       IN /\ blocked' = blocked \cup blocks
          /\ allow' = allow \cup grants
          /\ restricted' = [restricted EXCEPT ![p] = @ \/ nearest # {}]
    /\ inherits' = [inherits EXCEPT ![p] = FALSE]
    /\ UNCHANGED spaceVars

\* set_page_inheritance, on: the page's own settings are cleared.
InheritAgain(actor, p) ==
    /\ MayRestrict(actor)
    /\ ParentOf(p) # {} /\ ~inherits[p]
    /\ Changed
    /\ allow' = {r \in allow : r[1] # p}
    /\ blocked' = {r \in blocked : r[1] # p}
    /\ restricted' = [restricted EXCEPT ![p] = FALSE]
    /\ inherits' = [inherits EXCEPT ![p] = TRUE]
    /\ UNCHANGED spaceVars

SpaceSetting ==
    \/ \E actor \in Actors, w \in Who, perm \in Permissions :
        GrantSpace(actor, w, perm) \/ RevokeSpace(actor, w, perm)
    \/ \E actor \in Actors : SetVisibility(actor)
    \/ \E g \in Groups, u \in Users : SetGroupMember(g, u)

PageSetting ==
    \E actor \in Actors, p \in Pages :
        \/ \E w \in Who, perm \in PagePermissions :
            \/ GrantPage(actor, p, w, perm) \/ RevokePage(actor, p, w, perm)
            \/ Block(actor, p, w, perm) \/ Unblock(actor, p, w, perm)
        \/ SetMode(actor, p) \/ Reset(actor, p)
        \/ StopInheriting(actor, p) \/ InheritAgain(actor, p)

Next == SpaceSetting \/ PageSetting

Spec == Init /\ [][Next]_vars

-----------------------------------------------------------------------------
(* Properties. *)

\* set_space_permission: "Every permission is useless without View" - nobody
\* holds another permission of the space without it.
SpaceRowsHaveView == \A w \in Who : given[w] # {} => "view" \in given[w]

\* can_edit_page: "A child page with no restrictions of its own therefore
\* follows its parent's list", for View and for Edit, whatever is configured
\* above, through any mixture of user and group rows, modes and blocks.
PlainPageFollowsParent ==
    \A p \in Pages, u \in Users :
        (/\ inherits[p] /\ ~restricted[p]
         /\ \A r \in allow \cup blocked : r[1] # p)
        => \A a \in ParentOf(p) :
            /\ CanView(p, u) <=> CanView(a, u)
            /\ CanEdit(p, u) <=> CanEdit(a, u)

\* list_page_access_roster_users computes a user's View on an Open page in
\* its own way, from the page's rows and the access to the parent. It shows
\* what can_view_page answers.
RosterShowsView ==
    \A p \in Pages, u \in Users :
        ~restricted[p] /\ InRoster(u) => (RosterView(p, u) <=> CanView(p, u))

\* set_page_permission_denial: whatever rows and modes there are, a block lets
\* nobody see a page they could not see before. (It can take a grant away,
\* but never the last thing that kept others out of sight.)
BlocksNarrowView ==
    [][(\E actor \in Actors, p \in Pages, w \in Who, perm \in PagePermissions :
            Block(actor, p, w, perm))
       => \A q \in Pages, u \in Users : CanView(q, u)' => CanView(q, u)]_vars

\* set_page_restriction: putting a principal on a list, which may close the
\* page and all that is below it, takes View from nobody it names.
GrantsKeepView ==
    [][\A p \in Pages, w \in Who, perm \in PagePermissions :
        (\E actor \in Actors : GrantPage(actor, p, w, perm))
        => \A q \in Pages, u \in Users :
            (u = w \/ w \in GroupsOf(u)) /\ CanView(q, u) => CanView(q, u)']_vars

\* set_page_inheritance: "On: the page follows its parent again".
InheritingAgainFollowsParent ==
    [][\A p \in Pages :
        (\E actor \in Actors : InheritAgain(actor, p))
        => \A a \in ParentOf(p), u \in Users :
            /\ CanView(p, u)' <=> CanView(a, u)'
            /\ CanEdit(p, u)' <=> CanEdit(a, u)']_vars

\* set_page_inheritance: "Access is therefore unchanged at the moment of the
\* switch", for a page that has a list of its own, where nobody is blocked: no
\* user gains or loses View of the page or of any other.
SwitchKeepsView ==
    [][\A p \in Pages :
        (\E actor \in Actors : StopInheriting(actor, p)) /\ restricted[p] /\ blocked = {}
        => \A q \in Pages, u \in Users : CanView(q, u)' <=> CanView(q, u)]_vars
=============================================================================
