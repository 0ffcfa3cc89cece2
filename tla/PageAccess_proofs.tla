-------------------------- MODULE PageAccess_proofs --------------------------
(***************************************************************************)
(* Theorems about PageAccess, for any forest of pages, any users and       *)
(* groups and any number of changes.                                       *)
(***************************************************************************)
EXTENDS PageAccess, TLAPS

LEMMA RowsAreTriples ==
    ASSUME NEW p \in Pages, NEW w \in Who, NEW perm \in PagePermissions
    PROVE  <<p, w, perm>> \in Rows
  BY DEF Rows

LEMMA ViewIsAPermission ==
    /\ "view" \in PagePermissions
    /\ "edit" \in PagePermissions
    /\ "view" \in Permissions
  BY DEF PagePermissions, Permissions

-----------------------------------------------------------------------------
(* Type correctness. *)

LEMMA TypeInit == Init => TypeOK
  BY PrincipalsAssumption DEF Init, TypeOK, Rows

LEMMA ChangesTyped ==
    ASSUME TypeOK, Changed
    PROVE  changes' \in 0..MaxChanges
  BY PrincipalsAssumption DEF TypeOK, Changed

LEMMA SpaceSettingTyped ==
    ASSUME TypeOK, SpaceSetting
    PROVE  TypeOK'
<1>1. ASSUME NEW actor \in Actors, NEW w \in Who, NEW perm \in Permissions,
             GrantSpace(actor, w, perm)
      PROVE  TypeOK'
  BY <1>1, TypeOK, ChangesTyped, ViewIsAPermission DEF TypeOK, GrantSpace, pageVars
<1>2. ASSUME NEW actor \in Actors, NEW w \in Who, NEW perm \in Permissions,
             RevokeSpace(actor, w, perm)
      PROVE  TypeOK'
  BY <1>2, TypeOK, ChangesTyped DEF TypeOK, RevokeSpace, Purge
<1>3. ASSUME NEW actor \in Actors, SetVisibility(actor)
      PROVE  TypeOK'
  BY <1>3, TypeOK, ChangesTyped DEF TypeOK, SetVisibility, pageVars
<1>4. ASSUME NEW g \in Groups, NEW u \in Users, SetGroupMember(g, u)
      PROVE  TypeOK'
  BY <1>4, TypeOK, ChangesTyped DEF TypeOK, SetGroupMember, pageVars
<1>5. QED
  BY <1>1, <1>2, <1>3, <1>4, SpaceSetting DEF SpaceSetting

LEMMA PageSettingTyped ==
    ASSUME TypeOK, PageSetting
    PROVE  TypeOK'
<1>1. PICK actor \in Actors, p \in Pages :
        \/ \E w \in Who, perm \in PagePermissions :
            \/ GrantPage(actor, p, w, perm) \/ RevokePage(actor, p, w, perm)
            \/ Block(actor, p, w, perm) \/ Unblock(actor, p, w, perm)
        \/ SetMode(actor, p) \/ Reset(actor, p)
        \/ StopInheriting(actor, p) \/ InheritAgain(actor, p)
  BY PageSetting DEF PageSetting
<1>2. ASSUME NEW w \in Who, NEW perm \in PagePermissions, GrantPage(actor, p, w, perm)
      PROVE  TypeOK'
  <2>1. {<<p, w, perm>>, <<p, w, "view">>} \subseteq Rows
    BY RowsAreTriples, ViewIsAPermission
  <2>2. allow' \subseteq Rows /\ allow' \cap blocked = {}
    BY <1>2, <2>1, TypeOK DEF TypeOK, GrantPage, RowExists
  <2>3. restricted' \in [Pages -> BOOLEAN]
    BY <1>2, TypeOK DEF TypeOK, GrantPage
  <2>4. QED
    BY <1>2, <2>2, <2>3, TypeOK, ChangesTyped DEF TypeOK, GrantPage, spaceVars
<1>3. ASSUME NEW w \in Who, NEW perm \in PagePermissions, RevokePage(actor, p, w, perm)
      PROVE  TypeOK'
  BY <1>3, TypeOK, ChangesTyped DEF TypeOK, RevokePage, spaceVars
<1>4. ASSUME NEW w \in Who, NEW perm \in PagePermissions, Block(actor, p, w, perm)
      PROVE  TypeOK'
  BY <1>4, TypeOK, ChangesTyped, RowsAreTriples DEF TypeOK, Block, spaceVars
<1>5. ASSUME NEW w \in Who, NEW perm \in PagePermissions, Unblock(actor, p, w, perm)
      PROVE  TypeOK'
  BY <1>5, TypeOK, ChangesTyped DEF TypeOK, Unblock, spaceVars
<1>6. CASE SetMode(actor, p)
  BY <1>6, TypeOK, ChangesTyped DEF TypeOK, SetMode, spaceVars
<1>7. CASE Reset(actor, p)
  BY <1>7, TypeOK, ChangesTyped DEF TypeOK, Reset, spaceVars
<1>8. CASE StopInheriting(actor, p)
  <2>1. PICK blocks, grants :
          /\ blocks \subseteq Rows /\ grants \subseteq Rows
          /\ blocks \cap grants = {}
          /\ \A r \in blocks \cup grants : ~RowExists(r)
          /\ blocked' = blocked \cup blocks
          /\ allow' = allow \cup grants
    BY <1>8 DEF StopInheriting, Rows
  <2>2. restricted' \in [Pages -> BOOLEAN] /\ inherits' \in [Pages -> BOOLEAN]
    BY <1>8, TypeOK DEF TypeOK, StopInheriting
  <2>3. QED
    BY <1>8, <2>1, <2>2, TypeOK, ChangesTyped
    DEF TypeOK, StopInheriting, RowExists, spaceVars
<1>9. CASE InheritAgain(actor, p)
  BY <1>9, TypeOK, ChangesTyped DEF TypeOK, InheritAgain, spaceVars
<1>10. QED
  BY <1>1, <1>2, <1>3, <1>4, <1>5, <1>6, <1>7, <1>8, <1>9

LEMMA TypeNext == TypeOK /\ [Next]_vars => TypeOK'
<1>1. ASSUME TypeOK, UNCHANGED vars
      PROVE  TypeOK'
  BY <1>1 DEF TypeOK, vars
<1>2. QED
  BY <1>1, SpaceSettingTyped, PageSettingTyped DEF Next

\* Every reachable state is well typed; in particular a restriction row is
\* either a grant or a block.
THEOREM TypeCorrect == Spec => []TypeOK
  BY TypeInit, TypeNext, PTL DEF Spec

-----------------------------------------------------------------------------
(* Nobody holds a permission of the space without View. *)

LEMMA PageSettingKeepsSpace ==
    ASSUME PageSetting
    PROVE  UNCHANGED spaceVars
<1>1. ASSUME NEW actor \in Actors, NEW p \in Pages, NEW w \in Who,
             NEW perm \in PagePermissions,
             \/ GrantPage(actor, p, w, perm) \/ RevokePage(actor, p, w, perm)
             \/ Block(actor, p, w, perm) \/ Unblock(actor, p, w, perm)
      PROVE  UNCHANGED spaceVars
  BY <1>1 DEF GrantPage, RevokePage, Block, Unblock
<1>2. ASSUME NEW actor \in Actors, NEW p \in Pages,
             \/ SetMode(actor, p) \/ Reset(actor, p) \/ InheritAgain(actor, p)
      PROVE  UNCHANGED spaceVars
  BY <1>2 DEF SetMode, Reset, InheritAgain
<1>3. ASSUME NEW actor \in Actors, NEW p \in Pages, StopInheriting(actor, p)
      PROVE  UNCHANGED spaceVars
  BY <1>3 DEF StopInheriting
<1>4. QED
  BY <1>1, <1>2, <1>3 DEF PageSetting

LEMMA SpaceRowsNext ==
    ASSUME TypeOK, SpaceRowsHaveView, [Next]_vars
    PROVE  SpaceRowsHaveView'
<1>1. CASE UNCHANGED given
  BY <1>1, SpaceRowsHaveView DEF SpaceRowsHaveView
<1>2. ASSUME NEW actor \in Actors, NEW w \in Who, NEW perm \in Permissions,
             GrantSpace(actor, w, perm)
      PROVE  SpaceRowsHaveView'
  BY <1>2, TypeOK, SpaceRowsHaveView DEF TypeOK, SpaceRowsHaveView, GrantSpace
<1>3. ASSUME NEW actor \in Actors, NEW w \in Who, NEW perm \in Permissions,
             RevokeSpace(actor, w, perm)
      PROVE  SpaceRowsHaveView'
  <2>1. given' = [given EXCEPT ![w] = @ \ {perm}]
    BY <1>3 DEF RevokeSpace
  <2>2. given'[w] # {} => "view" \in given'[w]
    <3>1. CASE perm = "view"
      BY <1>3, <2>1, <3>1, TypeOK DEF TypeOK, RevokeSpace, KeepsView
    <3>2. CASE perm # "view"
      BY <2>1, <3>2, TypeOK, SpaceRowsHaveView DEF TypeOK, SpaceRowsHaveView
    <3>3. QED
      BY <3>1, <3>2
  <2>3. QED
    BY <2>1, <2>2, TypeOK, SpaceRowsHaveView DEF TypeOK, SpaceRowsHaveView
<1>4. CASE SpaceSetting
  BY <1>1, <1>2, <1>3, <1>4 DEF SpaceSetting, SetVisibility, SetGroupMember
<1>5. CASE PageSetting
  <2>1. UNCHANGED given
    BY <1>5, PageSettingKeepsSpace DEF spaceVars
  <2>2. QED
    BY <1>1, <2>1
<1>6. QED
  BY <1>1, <1>4, <1>5 DEF Next, vars

\* The permission matrix keeps its rule, whoever holds what through whom.
THEOREM SpaceRows == Spec => []SpaceRowsHaveView
<1>1. Init => SpaceRowsHaveView
  BY DEF Init, SpaceRowsHaveView
<1>2. QED
  BY <1>1, TypeCorrect, SpaceRowsNext, PTL DEF Spec

\* So an administrator of the space sees its pages.
LEMMA AdminsView ==
    ASSUME TypeOK, SpaceRowsHaveView, NEW u \in Users, "admin" \in Effective(u)
    PROVE  "view" \in Effective(u)
<1>1. CASE u \in Owners \cup SystemAdmins
  BY <1>1, ViewIsAPermission DEF Effective
<1>2. CASE u \notin Owners \cup SystemAdmins /\ given[u] # {}
  BY <1>2, SpaceRowsHaveView DEF Effective, SpaceRowsHaveView, Who
<1>3. CASE u \notin Owners \cup SystemAdmins /\ given[u] = {}
  <2>1. CASE open
    BY <1>3, <2>1 DEF Effective, OpenSpacePermissions
  <2>2. CASE ~open
    <3>1. PICK g \in GroupsOf(u) : "admin" \in given[g]
      BY <1>3, <2>2 DEF Effective, FromGroups
    <3>2. g \in Who
      BY <3>1 DEF GroupsOf, Who
    <3>3. "view" \in given[g]
      BY <3>1, <3>2, SpaceRowsHaveView DEF SpaceRowsHaveView
    <3>4. QED
      BY <1>3, <3>1, <3>3 DEF Effective, FromGroups
  <2>3. QED
    BY <2>1, <2>2
<1>4. QED
  BY <1>1, <1>2, <1>3

-----------------------------------------------------------------------------
(* The tree. *)

LEMMA ChainBelowParent ==
    ASSUME TypeOK, NEW p \in Pages, NEW a \in ParentOf(p)
    PROVE  /\ a \in Pages /\ p \notin Chain(a)
           /\ Above[p] = Above[a] \cup {a}
           /\ inherits[p] => Chain(p) = Chain(a) \cup {p}
           /\ ~inherits[p] => Chain(p) = {p}
<1>1. a \in Above[p] /\ a \in Pages /\ Above[p] \subseteq Pages
  BY TreeAssumption DEF ParentOf
<1>2. Above[p] = Above[a] \cup {a}
  <2>1. Above[a] \cup {a} \subseteq Above[p]
    BY <1>1, TreeAssumption
  <2>2. ASSUME NEW b \in Above[p]
        PROVE  b \in Above[a] \cup {a}
    BY <1>1, TreeAssumption DEF ParentOf
  <2>3. QED
    BY <2>1, <2>2
<1>3. p \notin Above[p]
  BY TreeAssumption
<1>4. \A b \in Above[p] \cup {p} : p \notin Above[b]
  BY <1>1, <1>3, TreeAssumption
<1>5. p \notin Chain(a)
  BY <1>1, <1>2, <1>3 DEF Chain
<1>6. ASSUME inherits[p]
      PROVE  Chain(p) = Chain(a) \cup {p}
  BY <1>2, <1>4, <1>6 DEF Chain
<1>7. ASSUME ~inherits[p]
      PROVE  Chain(p) = {p}
  BY <1>4, <1>7 DEF Chain
<1>8. QED
  BY <1>1, <1>2, <1>5, <1>6, <1>7

LEMMA RootChain ==
    ASSUME TypeOK, NEW p \in Pages, ParentOf(p) = {}
    PROVE  Chain(p) = {p}
<1>1. Above[p] = {}
  <2>1. SUFFICES ASSUME Above[p] # {}
                 PROVE  FALSE
    OBVIOUS
  <2>2. PICK a \in Above[p] : Above[p] = Above[a] \cup {a}
    BY <2>1, TreeAssumption
  <2>3. a \in Pages /\ Above[p] \subseteq Pages
    BY TreeAssumption
  <2>4. \A b \in Above[p] : a \notin Above[b]
    BY <2>2, <2>3, TreeAssumption
  <2>5. QED
    BY <2>2, <2>4 DEF ParentOf
<1>2. QED
  BY <1>1 DEF Chain

\* A page that is not Restricted itself asks the list its parent asks.
LEMMA NearestOfOpenPage ==
    ASSUME TypeOK, NEW p \in Pages, NEW a \in ParentOf(p), inherits[p], ~restricted[p]
    PROVE  Nearest(p) = Nearest(a)
  BY ChainBelowParent DEF Nearest

LEMMA ViewOfOpenPage ==
    ASSUME TypeOK, NEW p \in Pages, NEW a \in ParentOf(p), inherits[p], ~restricted[p],
           NEW u \in Users
    PROVE  PagesLetView(p, u) <=> PagesLetView(a, u) /\ ~Denied(p, u, "view")
<1>1. Chain(p) = Chain(a) \cup {p}
  BY ChainBelowParent
<1>2. QED
  BY <1>1, NearestOfOpenPage DEF PagesLetView

-----------------------------------------------------------------------------
(* A page with no settings of its own. *)

LEMMA PlainPage ==
    ASSUME TypeOK, NEW p \in Pages, NEW u \in Users, NEW a \in ParentOf(p),
           inherits[p], ~restricted[p], \A r \in allow \cup blocked : r[1] # p
    PROVE  (CanView(p, u) <=> CanView(a, u)) /\ (CanEdit(p, u) <=> CanEdit(a, u))
<1>1. Chain(p) = Chain(a) \cup {p} /\ p \notin Chain(a)
  BY ChainBelowParent
<1>2. \A w, perm : <<p, w, perm>> \notin allow \cup blocked
  OBVIOUS
<1>3. ~Denied(p, u, "view") /\ ~Denied(p, u, "edit") /\ ~HasEditList(p)
  BY <1>2 DEF Denied, HasEditList
<1>4. CanView(p, u) <=> CanView(a, u)
  BY <1>3, ViewOfOpenPage DEF CanView
<1>5. AskedForEdit(p) \ {p} = AskedForEdit(a)
  BY <1>1, NearestOfOpenPage DEF AskedForEdit
<1>6. PagesLetEdit(p, u) <=> PagesLetEdit(a, u)
  BY <1>1, <1>3, <1>5 DEF PagesLetEdit
<1>7. QED
  BY <1>4, <1>6 DEF CanEdit

\* In every reachable state, over every forest of pages, a page with no
\* settings of its own gives everybody the access its parent gives them.
THEOREM PlainPages == Spec => []PlainPageFollowsParent
<1>1. TypeOK => PlainPageFollowsParent
  BY PlainPage DEF PlainPageFollowsParent
<1>2. QED
  BY <1>1, TypeCorrect, PTL

-----------------------------------------------------------------------------
(* The roster. *)

LEMMA RosterAgrees ==
    ASSUME TypeOK, SpaceRowsHaveView, NEW p \in Pages, NEW u \in Users, ~restricted[p]
    PROVE  RosterView(p, u) <=> CanView(p, u)
<1> DEFINE Denial == Denied(p, u, "view")
<1>1. RosterDenied(p, u, "view") <=> Denial
  BY DEF RosterDenied, Denied
<1>2. ~SpaceHasRestrictions => ~Denial
  BY DEF SpaceHasRestrictions, Denied
<1>3. CASE Chain(p) = {p}
  <2>1. ~FollowsRestrictions(p)
    BY <1>3 DEF FollowsRestrictions
  <2>2. PagesLetView(p, u) <=> ~Denial
    BY <1>3 DEF PagesLetView, Nearest
  <2>3. QED
    BY <1>1, <1>2, <2>1, <2>2, AdminsView DEF RosterView, CanView
<1>4. ASSUME NEW a \in ParentOf(p), inherits[p]
      PROVE  RosterView(p, u) <=> CanView(p, u)
  <2>1. Chain(p) \ {p} = Chain(a) /\ a \in Pages
    BY <1>4, ChainBelowParent
  <2>2. PagesLetView(p, u) <=> PagesLetView(a, u) /\ ~Denial
    BY <1>4, ViewOfOpenPage
  <2>3. \A b \in ParentOf(p) : b = a
    BY <1>4, TreeAssumption DEF ParentOf
  <2>4. CASE FollowsRestrictions(p)
    <3>1. SpaceHasRestrictions
      <4>1. PICK b \in Chain(a) : \/ restricted[b]
                                  \/ \E w \in Who, perm \in PagePermissions :
                                        <<b, w, perm>> \in blocked
                                  \/ HasEditList(b)
        BY <2>1, <2>4 DEF FollowsRestrictions
      <4>2. b \in Pages
        BY <2>1, TreeAssumption DEF Chain
      <4>3. QED
        BY <4>1, <4>2 DEF SpaceHasRestrictions, HasEditList
    <3>2. RosterView(p, u) <=> \/ "admin" \in Effective(u)
                               \/ "view" \in Effective(u) /\ CanView(a, u) /\ ~Denial
      BY <1>1, <1>4, <2>3, <2>4 DEF RosterView
    <3>3. QED
      BY <2>2, <3>1, <3>2, AdminsView DEF CanView
  <2>5. CASE ~FollowsRestrictions(p)
    <3>1. \A b \in Chain(a) : ~restricted[b] /\ ~Denied(b, u, "view")
      <4>1. ASSUME NEW b \in Chain(a)
            PROVE  ~Denied(b, u, "view")
        <5>1. \A w \in Who : <<b, w, "view">> \notin blocked
          BY <2>1, <2>5, ViewIsAPermission DEF FollowsRestrictions
        <5>2. u \in Who /\ GroupsOf(u) \subseteq Who
          BY DEF GroupsOf, Who
        <5>3. QED
          BY <5>1, <5>2 DEF Denied
      <4>2. QED
        BY <2>1, <2>5, <4>1 DEF FollowsRestrictions
    <3>2. PagesLetView(a, u)
      BY <3>1 DEF PagesLetView, Nearest
    <3>3. QED
      BY <1>1, <1>2, <2>2, <2>5, <3>2, AdminsView DEF RosterView, CanView
  <2>6. QED
    BY <2>4, <2>5
<1>5. QED
  BY <1>3, <1>4, RootChain, ChainBelowParent

\* What the dialog computes for an Open page in its own way is the access.
THEOREM RosterIsRight == Spec => []RosterShowsView
<1>1. TypeOK /\ SpaceRowsHaveView => RosterShowsView
  BY RosterAgrees DEF RosterShowsView
<1>2. QED
  BY <1>1, TypeCorrect, SpaceRows, PTL

-----------------------------------------------------------------------------
(* What a step may do to access. *)

LEMMA SameChains ==
    ASSUME UNCHANGED inherits, NEW q \in Pages
    PROVE  Chain(q)' = Chain(q)
  BY DEF Chain

LEMMA SameSpaceAccess ==
    ASSUME UNCHANGED spaceVars, NEW u \in Users
    PROVE  Effective(u)' = Effective(u) /\ GroupsOf(u)' = GroupsOf(u)
  BY DEF spaceVars, Effective, FromGroups, GroupsOf

LEMMA BlockNarrows ==
    ASSUME TypeOK, NEW actor \in Actors, NEW p \in Pages, NEW w \in Who,
           NEW perm \in PagePermissions, Block(actor, p, w, perm),
           NEW q \in Pages, NEW u \in Users, CanView(q, u)'
    PROVE  CanView(q, u)
<1>1. Chain(q)' = Chain(q) /\ Effective(u)' = Effective(u) /\ GroupsOf(u)' = GroupsOf(u)
  BY SameChains, SameSpaceAccess DEF Block
<1>2. "view" \in Effective(u)
  BY <1>1 DEF CanView
<1>3. SpaceHasRestrictions'
  BY DEF Block, SpaceHasRestrictions
<1>4. CASE "admin" \in Effective(u)
  BY <1>2, <1>4 DEF CanView
<1>5. CASE PagesLetView(q, u)'
  <2>1. ASSUME NEW a \in Chain(q), Denied(a, u, "view")
        PROVE  FALSE
    <3>1. ~Denied(a, u, "view")'
      BY <1>1, <1>5 DEF PagesLetView
    <3>2. Denied(a, u, "view")'
      BY <1>1, <2>1, TypeOK DEF Denied, Block, TypeOK
    <3>3. QED
      BY <3>1, <3>2
  <2>2. Nearest(q)' = Nearest(q)
    BY <1>1 DEF Nearest, Block
  <2>3. ASSUME NEW a \in Nearest(q)
        PROVE  Listed(a, u, "view")
    <3>1. Listed(a, u, "view")'
      BY <1>5, <2>2 DEF PagesLetView
    <3>2. QED
      BY <1>1, <3>1 DEF Listed, Block
  <2>4. PagesLetView(q, u)
    BY <2>1, <2>3 DEF PagesLetView
  <2>5. QED
    BY <1>2, <2>4 DEF CanView
<1>6. QED
  BY <1>1, <1>3, <1>4, <1>5 DEF CanView

\* Whatever forest, rows and modes there are, a block shows a page to nobody.
THEOREM BlocksNarrow == Spec => BlocksNarrowView
<1>1. TypeOK /\ [Next]_vars
      => [(\E actor \in Actors, p \in Pages, w \in Who, perm \in PagePermissions :
              Block(actor, p, w, perm))
          => \A q \in Pages, u \in Users : CanView(q, u)' => CanView(q, u)]_vars
  BY BlockNarrows
<1>2. QED
  BY <1>1, TypeCorrect, PTL DEF Spec, BlocksNarrowView

LEMMA GrantLetsIn ==
    ASSUME TypeOK, NEW actor \in Actors, NEW p \in Pages, NEW w \in Who,
           NEW perm \in PagePermissions, GrantPage(actor, p, w, perm),
           NEW q \in Pages, NEW u \in Users, u = w \/ w \in GroupsOf(u), CanView(q, u)
    PROVE  CanView(q, u)'
<1>1. Chain(q)' = Chain(q) /\ Effective(u)' = Effective(u) /\ GroupsOf(u)' = GroupsOf(u)
  BY SameChains, SameSpaceAccess DEF GrantPage
<1>2. "view" \in Effective(u)
  BY DEF CanView
<1>3. CASE "admin" \in Effective(u)
  BY <1>1, <1>2, <1>3 DEF CanView
<1>4. CASE ~SpaceHasRestrictions \/ PagesLetView(q, u)
  <2>1. ASSUME NEW a \in Chain(q)
        PROVE  ~Denied(a, u, "view")
    BY <1>4 DEF PagesLetView, SpaceHasRestrictions, Denied
  <2>2. ASSUME NEW a \in Chain(q)
        PROVE  ~Denied(a, u, "view")'
    <3>1. ~Denied(a, u, "view")
      BY <2>1
    <3>2. QED
      BY <1>1, <3>1, TypeOK DEF Denied, GrantPage, TypeOK, RowExists
  <2>3. ASSUME NEW a \in Nearest(q)'
        PROVE  Listed(a, u, "view")'
    <3>1. a \in Chain(q) /\ a \in Pages
      BY <1>1, TreeAssumption DEF Nearest, Chain
    <3>2. CASE a = p
      <4>1. <<p, w, "view">> \in allow' \/ <<p, w, "view">> \in blocked
        BY DEF GrantPage, RowExists
      <4>2. CASE <<p, w, "view">> \in allow'
        BY <1>1, <3>2, <4>2 DEF Listed
      <4>3. CASE <<p, w, "view">> \in blocked
        <5>1. ~Denied(p, u, "view")
          BY <2>1, <3>1, <3>2
        <5>2. <<p, u, "view">> \in allow
          BY <4>3, <5>1 DEF Denied
        <5>3. <<p, u, "view">> \in allow'
          BY <5>2 DEF GrantPage
        <5>4. QED
          BY <1>1, <3>2, <5>3 DEF Listed
      <4>4. QED
        BY <4>1, <4>2, <4>3
    <3>3. CASE a # p
      <4>1. \A b \in Pages : restricted[b] => restricted'[b]
        BY TypeOK DEF TypeOK, GrantPage
      <4>2. Chain(q) \subseteq Pages
        BY TreeAssumption DEF Chain
      <4>3. a \in Nearest(q)
        BY <1>1, <3>1, <3>3, <4>1, <4>2, TypeOK DEF Nearest, GrantPage, TypeOK
      <4>4. Listed(a, u, "view")
        BY <1>4, <3>1, <4>3 DEF PagesLetView, SpaceHasRestrictions, Nearest
      <4>5. QED
        BY <1>1, <4>4 DEF Listed, GrantPage
    <3>4. QED
      BY <3>2, <3>3
  <2>4. PagesLetView(q, u)'
    BY <1>1, <2>2, <2>3 DEF PagesLetView
  <2>5. QED
    BY <1>1, <1>2, <2>4 DEF CanView
<1>5. QED
  BY <1>3, <1>4 DEF CanView

\* Putting a principal on a page's list, which may close the page and all
\* below it to others, hides no page from those it names.
THEOREM GrantsLetIn == Spec => GrantsKeepView
<1>1. TypeOK /\ [Next]_vars
      => [\A p \in Pages, w \in Who, perm \in PagePermissions :
            (\E actor \in Actors : GrantPage(actor, p, w, perm))
            => \A q \in Pages, u \in Users :
                (u = w \/ w \in GroupsOf(u)) /\ CanView(q, u) => CanView(q, u)']_vars
  BY GrantLetsIn
<1>2. QED
  BY <1>1, TypeCorrect, PTL DEF Spec, GrantsKeepView

\* A page made to inherit again ends up with its parent's access: it has
\* become a plain page, and those follow their parents in every state.
THEOREM InheritingFollows == Spec => InheritingAgainFollowsParent
<1>1. TypeOK /\ PlainPageFollowsParent' /\ [Next]_vars
      => [\A p \in Pages :
            (\E actor \in Actors : InheritAgain(actor, p))
            => \A a \in ParentOf(p), u \in Users :
                /\ CanView(p, u)' <=> CanView(a, u)'
                /\ CanEdit(p, u)' <=> CanEdit(a, u)']_vars
  <2>1. SUFFICES ASSUME TypeOK, PlainPageFollowsParent', NEW p \in Pages,
                        NEW actor \in Actors, InheritAgain(actor, p),
                        NEW a \in ParentOf(p), NEW u \in Users
                 PROVE  /\ CanView(p, u)' <=> CanView(a, u)'
                        /\ CanEdit(p, u)' <=> CanEdit(a, u)'
    OBVIOUS
  <2>2. inherits'[p] /\ ~restricted'[p] /\ \A r \in allow' \cup blocked' : r[1] # p
    BY <2>1 DEF InheritAgain, TypeOK
  <2>3. QED
    BY <2>1, <2>2 DEF PlainPageFollowsParent, ParentOf
<1>2. QED
  BY <1>1, TypeCorrect, PlainPages, PTL DEF Spec, InheritingAgainFollowsParent

LEMMA UnblockKeeps ==
    ASSUME TypeOK, NEW actor \in Actors, NEW p \in Pages, NEW w \in Who,
           NEW perm \in PagePermissions, Unblock(actor, p, w, perm),
           NEW q \in Pages, NEW u \in Users
    PROVE  (CanView(q, u) => CanView(q, u)') /\ (CanEdit(q, u) => CanEdit(q, u)')
<1>1. Chain(q)' = Chain(q) /\ Effective(u)' = Effective(u) /\ GroupsOf(u)' = GroupsOf(u)
  BY SameChains, SameSpaceAccess DEF Unblock
<1>2. Nearest(q)' = Nearest(q) /\ AskedForEdit(q)' = AskedForEdit(q)
  BY <1>1 DEF Nearest, AskedForEdit, Unblock
<1>3. ASSUME NEW a, NEW x PROVE ~Denied(a, u, x) => ~Denied(a, u, x)'
  BY <1>1, TypeOK DEF Denied, Unblock, TypeOK
<1>4. ASSUME NEW a, NEW x
      PROVE  (Listed(a, u, x)' <=> Listed(a, u, x)) /\ (HasEditList(a)' <=> HasEditList(a))
  BY <1>1 DEF Listed, HasEditList, Unblock
<1>5. SpaceHasRestrictions' => SpaceHasRestrictions
  BY DEF SpaceHasRestrictions, Unblock
<1>6. PagesLetView(q, u) => PagesLetView(q, u)'
  BY <1>1, <1>2, <1>3, <1>4 DEF PagesLetView
<1>7. PagesLetEdit(q, u) => PagesLetEdit(q, u)'
  <2>1. restricted' = restricted
    BY DEF Unblock
  <2>2. QED
    BY <1>1, <1>2, <1>3, <1>4, <2>1 DEF PagesLetEdit
<1>8. CanView(q, u) => CanView(q, u)'
  BY <1>1, <1>5, <1>6 DEF CanView
<1>9. QED
  BY <1>1, <1>5, <1>7, <1>8 DEF CanEdit

UnblocksKeepAccess ==
    [][(\E actor \in Actors, p \in Pages, w \in Who, perm \in PagePermissions :
            Unblock(actor, p, w, perm))
       => \A q \in Pages, u \in Users :
            /\ CanView(q, u) => CanView(q, u)'
            /\ CanEdit(q, u) => CanEdit(q, u)']_vars

\* Taking a block away takes View or Edit from nobody (set_page_permission_denial),
\* although a row, once gone, no longer keeps a group's block from its user: that
\* row was a block itself.
THEOREM UnblocksKeep == Spec => UnblocksKeepAccess
<1>1. TypeOK /\ [Next]_vars
      => [(\E actor \in Actors, p \in Pages, w \in Who, perm \in PagePermissions :
              Unblock(actor, p, w, perm))
          => \A q \in Pages, u \in Users :
                /\ CanView(q, u) => CanView(q, u)'
                /\ CanEdit(q, u) => CanEdit(q, u)']_vars
  BY UnblockKeeps
<1>2. QED
  BY <1>1, TypeCorrect, PTL DEF Spec, UnblocksKeepAccess

-----------------------------------------------------------------------------
(* Where turning inheritance off keeps everybody's access. *)

Plain(p) == ~restricted[p] /\ \A r \in allow \cup blocked : r[1] # p

\* A Restricted page above p is all that p inherits, and p adds nothing to it.
InheritsFrom(p, n) ==
    /\ n \in Chain(p) \ {p} /\ restricted[n]
    /\ \A a \in Chain(p) \ {n} : Plain(a)

\* The chain of a page that inherits through p, before and after p stops.
Below(p, q) == {a \in Chain(q) : p \in Above[a]}

LEMMA ChainThrough ==
    ASSUME TypeOK, NEW p \in Pages, inherits' = [inherits EXCEPT ![p] = FALSE],
           NEW q \in Pages
    PROVE  /\ p \notin Chain(q) => Chain(q)' = Chain(q)
           /\ p \in Chain(q) => /\ Chain(q) = Chain(p) \cup Below(p, q)
                                /\ Chain(q)' = {p} \cup Below(p, q)
<1> DEFINE A == Above[q] \cup {q}
<1>1. A \subseteq Pages /\ Chain(q) \subseteq A
  BY TreeAssumption DEF Chain
<1>2. \A b \in Pages : inherits'[b] <=> (inherits[b] /\ b # p)
  BY DEF TypeOK
<1>3. ASSUME NEW a \in A
      PROVE  a \in Chain(q)' <=> a \in Chain(q) /\ (p \in A => a \notin Above[p])
  BY <1>1, <1>2 DEF Chain
<1>4. Chain(q)' \subseteq A
  BY DEF Chain
<1>5. ASSUME p \notin Chain(q)
      PROVE  Chain(q)' = Chain(q)
  <2>1. ASSUME p \in A, NEW a \in Chain(q), a \in Above[p]
        PROVE  FALSE
    <3>1. PICK b \in A : p \in Above[b] /\ ~inherits[b]
      BY <1>5, <2>1 DEF Chain
    <3>2. a \in Above[b]
      BY <1>1, <2>1, <3>1, TreeAssumption
    <3>3. QED
      BY <2>1, <3>1, <3>2 DEF Chain
  <2>2. QED
    BY <1>1, <1>3, <1>4, <2>1
<1>6. ASSUME p \in Chain(q)
      PROVE  Chain(q) = Chain(p) \cup Below(p, q) /\ Chain(q)' = {p} \cup Below(p, q)
  <2>1. p \in A /\ Above[p] \subseteq A /\ p \notin Above[p]
    BY <1>1, <1>6, TreeAssumption DEF Chain
  <2>2. ASSUME NEW a \in A
        PROVE  a = p \/ a \in Above[p] \/ p \in Above[a]
    BY <2>1, TreeAssumption
  <2>3. \A b \in A : p \in Above[b] => inherits[b]
    BY <1>6 DEF Chain
  <2>4. ASSUME NEW a \in Chain(q), p \notin Above[a]
        PROVE  a \in Chain(p)
    <3>1. a \in Above[p] \cup {p}
      BY <1>1, <2>2, <2>4
    <3>2. QED
      BY <2>1, <2>4, <3>1 DEF Chain
  <2>5. ASSUME NEW a \in Chain(p)
        PROVE  a \in Chain(q)
    <3>1. a \in Above[p] \cup {p} /\ a \in A
      BY <2>1, <2>5 DEF Chain
    <3>2. ASSUME NEW b \in A, a \in Above[b]
          PROVE  inherits[b]
      <4>1. CASE b \in Above[p] \cup {p}
        BY <2>5, <3>2, <4>1 DEF Chain
      <4>2. CASE b \notin Above[p] \cup {p}
        BY <2>2, <2>3, <4>2
      <4>3. QED
        BY <4>1, <4>2
    <3>3. QED
      BY <3>1, <3>2 DEF Chain
  <2>6. Chain(q) = Chain(p) \cup Below(p, q)
    BY <2>4, <2>5 DEF Below
  <2>7. \A a \in Above[p] : p \notin Above[a]
    BY <1>1, <2>1, TreeAssumption
  <2>8. Chain(q)' = {p} \cup Below(p, q)
    BY <1>1, <1>3, <1>4, <1>6, <2>1, <2>2, <2>7 DEF Below
  <2>9. QED
    BY <2>6, <2>8
<1>7. QED
  BY <1>5, <1>6

\* The page's rows become those of n, and no other page's rows change.
LEMMA SwitchCopies ==
    ASSUME TypeOK, NEW actor \in Actors, NEW p \in Pages, StopInheriting(actor, p),
           NEW n \in Pages, InheritsFrom(p, n)
    PROVE  /\ \A w \in Who, perm \in PagePermissions :
                /\ <<p, w, perm>> \in allow' <=> <<n, w, perm>> \in allow
                /\ <<p, w, perm>> \in blocked' <=> <<n, w, perm>> \in blocked
           /\ \A a \in Pages \ {p} : \A w, perm :
                /\ <<a, w, perm>> \in allow' <=> <<a, w, perm>> \in allow
                /\ <<a, w, perm>> \in blocked' <=> <<a, w, perm>> \in blocked
           /\ restricted' = [restricted EXCEPT ![p] = TRUE]
           /\ inherits' = [inherits EXCEPT ![p] = FALSE]
<1> DEFINE above   == Chain(p) \ {p}
           nearest == UNION {Nearest(a) : a \in ParentOf(p)}
           free    == {r \in {p} \X Who \X PagePermissions : ~RowExists(r)}
           blocks  == {r \in free : \E a \in above : <<a, r[2], r[3]>> \in blocked}
           grants  == {r \in free \ blocks : \E a \in nearest : <<a, r[2], r[3]>> \in allow}
<1>1. /\ blocked' = blocked \cup blocks /\ allow' = allow \cup grants
      /\ restricted' = [restricted EXCEPT ![p] = @ \/ nearest # {}]
      /\ inherits' = [inherits EXCEPT ![p] = FALSE]
      /\ ParentOf(p) # {} /\ inherits[p]
  BY DEF StopInheriting
<1>2. /\ n # p /\ n \in Chain(p) /\ restricted[n] /\ Plain(p) /\ p \in Chain(p)
      /\ \A a \in Chain(p) : a # n => Plain(a)
  BY TreeAssumption DEF InheritsFrom, Chain
<1>3. Nearest(p) = {n}
  <2>1. n \notin Above[n]
    BY TreeAssumption
  <2>2. QED
    BY <1>2, <2>1 DEF Nearest, Plain
<1>4. nearest = {n}
  <2>1. \A a \in ParentOf(p) : Nearest(a) = {n}
    BY <1>1, <1>2, <1>3, NearestOfOpenPage DEF Plain
  <2>2. QED
    BY <1>1, <2>1
<1>5. free = {p} \X Who \X PagePermissions
  BY <1>2 DEF Plain, RowExists
<1>6. ASSUME NEW w \in Who, NEW perm \in PagePermissions
      PROVE  /\ <<p, w, perm>> \in blocks <=> <<n, w, perm>> \in blocked
             /\ <<p, w, perm>> \in grants <=> <<n, w, perm>> \in allow
  <2>1. <<p, w, perm>> \in blocks <=> \E a \in above : <<a, w, perm>> \in blocked
    BY <1>5
  <2>2. (\E a \in above : <<a, w, perm>> \in blocked) <=> <<n, w, perm>> \in blocked
    BY <1>2 DEF Plain
  <2>3. <<p, w, perm>> \in grants <=>
          <<n, w, perm>> \in allow /\ <<p, w, perm>> \notin blocks
    BY <1>4, <1>5
  <2>4. QED
    BY <2>1, <2>2, <2>3 DEF TypeOK
<1>7. \A w, perm : <<p, w, perm>> \notin allow /\ <<p, w, perm>> \notin blocked
  BY <1>2 DEF Plain
<1>8. \A r \in blocks \cup grants : r[1] = p
  OBVIOUS
<1>9. nearest # {}
  BY <1>4
<1> HIDE DEF blocks, grants, free, nearest
<1>10. \A w \in Who, perm \in PagePermissions :
         /\ <<p, w, perm>> \in allow' <=> <<n, w, perm>> \in allow
         /\ <<p, w, perm>> \in blocked' <=> <<n, w, perm>> \in blocked
  BY <1>1, <1>6, <1>7
<1>11. \A a \in Pages \ {p} : \A w, perm :
         /\ <<a, w, perm>> \in allow' <=> <<a, w, perm>> \in allow
         /\ <<a, w, perm>> \in blocked' <=> <<a, w, perm>> \in blocked
  <2>1. \A a \in Pages \ {p} : \A w, perm : <<a, w, perm>> \notin blocks \cup grants
    BY <1>8
  <2>2. QED
    BY <1>1, <2>1
<1>12. restricted' = [restricted EXCEPT ![p] = TRUE]
  BY <1>1, <1>9
<1>13. QED
  BY <1>1, <1>10, <1>11, <1>12

\* So nobody gains or loses a page.
LEMMA SwitchKeeps ==
    ASSUME TypeOK, NEW actor \in Actors, NEW p \in Pages, StopInheriting(actor, p),
           NEW n \in Pages, InheritsFrom(p, n), NEW q \in Pages, NEW u \in Users
    PROVE  (CanView(q, u)' <=> CanView(q, u)) /\ (CanEdit(q, u)' <=> CanEdit(q, u))
<1> DEFINE Q == Below(p, q)
<1>1. Effective(u)' = Effective(u) /\ GroupsOf(u)' = GroupsOf(u) /\ {u} \cup GroupsOf(u) \subseteq Who
  BY SameSpaceAccess DEF StopInheriting, GroupsOf, Who
<1>2. /\ \A w \in Who, perm \in PagePermissions :
            /\ <<p, w, perm>> \in allow' <=> <<n, w, perm>> \in allow
            /\ <<p, w, perm>> \in blocked' <=> <<n, w, perm>> \in blocked
      /\ \A a \in Pages \ {p} : \A w, perm :
            /\ <<a, w, perm>> \in allow' <=> <<a, w, perm>> \in allow
            /\ <<a, w, perm>> \in blocked' <=> <<a, w, perm>> \in blocked
      /\ restricted' = [restricted EXCEPT ![p] = TRUE]
      /\ inherits' = [inherits EXCEPT ![p] = FALSE]
  BY SwitchCopies
<1>3. ASSUME NEW a \in Pages \ {p}, NEW perm \in PagePermissions
      PROVE  /\ Denied(a, u, perm)' <=> Denied(a, u, perm)
             /\ Listed(a, u, perm)' <=> Listed(a, u, perm)
             /\ HasEditList(a)' <=> HasEditList(a)
             /\ restricted'[a] = restricted[a]
  BY <1>1, <1>2 DEF Denied, Listed, HasEditList, TypeOK
<1>4. ASSUME NEW perm \in PagePermissions
      PROVE  /\ Denied(p, u, perm)' <=> Denied(n, u, perm)
             /\ Listed(p, u, perm)' <=> Listed(n, u, perm)
             /\ restricted'[p]
  BY <1>1, <1>2 DEF Denied, Listed, PagePermissions, TypeOK
<1>5. "view" \in PagePermissions /\ "edit" \in PagePermissions
  BY DEF PagePermissions
<1>6. SpaceHasRestrictions /\ SpaceHasRestrictions'
  BY <1>4, <1>5 DEF SpaceHasRestrictions, InheritsFrom
<1>7. Chain(q) \subseteq Pages /\ Chain(p) \subseteq Pages
  BY TreeAssumption DEF Chain
<1>8. CASE p \notin Chain(q)
  <2>1. Chain(q)' = Chain(q)
    BY <1>2, <1>8, ChainThrough
  <2>2. \A a \in Chain(q) : a \in Pages \ {p}
    BY <1>7, <1>8
  <2>3. Nearest(q)' = Nearest(q)
    BY <1>3, <1>5, <2>1, <2>2 DEF Nearest
  <2>4. AskedForEdit(q)' = AskedForEdit(q)
    BY <2>1, <2>3 DEF AskedForEdit
  <2>5. PagesLetView(q, u)' <=> PagesLetView(q, u)
    BY <1>3, <1>5, <2>1, <2>2, <2>3 DEF PagesLetView, Nearest
  <2>6. PagesLetEdit(q, u)' <=> PagesLetEdit(q, u)
    BY <1>3, <1>5, <2>1, <2>2, <2>4 DEF PagesLetEdit, AskedForEdit
  <2>7. QED
    BY <1>1, <2>5, <2>6, <1>6 DEF CanView, CanEdit
<1>9. CASE p \in Chain(q)
  <2>1. Chain(q) = Chain(p) \cup Q /\ Chain(q)' = {p} \cup Q
    BY <1>2, <1>9, ChainThrough
  <2>2. n \in Chain(p) /\ n \in Above[p] /\ restricted[n]
    BY DEF InheritsFrom, Chain
  <2>3. ASSUME NEW a \in Chain(p), a # n
        PROVE  /\ ~restricted[a] /\ ~HasEditList(a)
               /\ \A perm : ~Denied(a, u, perm)
    <3>1. ~restricted[a] /\ \A w, perm : <<a, w, perm>> \notin allow \cup blocked
      BY <2>3 DEF InheritsFrom, Plain
    <3>2. QED
      BY <3>1 DEF HasEditList, Denied
  <2>4. ASSUME NEW a \in Q
        PROVE  /\ a \in Pages \ {p} /\ p \in Above[a] /\ n \in Above[a] /\ a # n
               /\ a \notin Above[p] /\ a \notin Above[n]
    <3>1. a \in Pages /\ p \in Above[a]
      BY <1>7 DEF Below
    <3>2. n \in Above[a] /\ a # p
      BY <2>2, <3>1, TreeAssumption
    <3>3. a \notin Above[p] /\ a # n
      BY <2>2, <3>1, TreeAssumption
    <3>4. a \notin Above[n]
      BY <2>2, <3>3, TreeAssumption
    <3>5. QED
      BY <3>1, <3>2, <3>3, <3>4
  <2>5. \A a \in Chain(p) : a \notin Q
    BY <2>4 DEF Chain
  <2>6. Nearest(q) \subseteq Q \cup {n} /\ Nearest(q)' \subseteq Q \cup {p}
    BY <2>1, <2>3 DEF Nearest
  <2>7. \A a \in Q : a \in Nearest(q)' <=> a \in Nearest(q)
    <3> SUFFICES ASSUME NEW a \in Q
                 PROVE  a \in Nearest(q)' <=> a \in Nearest(q)
      OBVIOUS
    <3>1. a \in Nearest(q)' <=> restricted[a] /\ \A b \in Q : a \in Above[b] => ~restricted[b]
      <4>1. \A b \in Q \cup {a} : restricted'[b] = restricted[b]
        BY <1>3, <1>5, <2>4
      <4>2. QED
        BY <2>1, <2>4, <4>1 DEF Nearest
    <3>2. ASSUME NEW b \in Chain(p)
          PROVE  a \notin Above[b]
      <4>1. b \in Above[p] \cup {p} /\ b \in Pages
        BY <1>7 DEF Chain
      <4>2. QED
        BY <2>4, <4>1, TreeAssumption
    <3>3. a \in Nearest(q) <=> restricted[a] /\ \A b \in Q : a \in Above[b] => ~restricted[b]
      BY <2>1, <3>2 DEF Nearest
    <3>4. QED
      BY <3>1, <3>3
  <2>8. n \in Nearest(q) <=> p \in Nearest(q)'
    <3>1. p \in Nearest(q)' <=> \A b \in Q : ~restricted[b]
      <4>1. \A b \in Q : restricted'[b] = restricted[b]
        BY <1>3, <1>5, <2>4
      <4>2. p \notin Above[p]
        BY TreeAssumption
      <4>3. QED
        BY <1>4, <1>5, <2>1, <2>4, <4>1, <4>2 DEF Nearest
    <3>2. \A b \in Chain(p) : n \in Above[b] => ~restricted[b]
      <4>1. n \notin Above[n]
        BY TreeAssumption
      <4>2. QED
        BY <2>3, <4>1
    <3>3. n \in Nearest(q) <=> \A b \in Q : ~restricted[b]
      BY <2>1, <2>2, <2>4, <3>2 DEF Nearest
    <3>4. QED
      BY <3>1, <3>3
  <2>9. PagesLetView(q, u)' <=> PagesLetView(q, u)
    <3>1. (\A a \in Chain(q)' : ~Denied(a, u, "view")') <=> \A a \in Chain(q) : ~Denied(a, u, "view")
      <4>1. \A a \in Q : Denied(a, u, "view")' <=> Denied(a, u, "view")
        BY <1>3, <1>5, <2>4
      <4>2. Denied(p, u, "view")' <=> Denied(n, u, "view")
        BY <1>4, <1>5
      <4>3. QED
        BY <2>1, <2>2, <2>3, <4>1, <4>2
    <3>2. (\A a \in Nearest(q)' : Listed(a, u, "view")') <=> \A a \in Nearest(q) : Listed(a, u, "view")
      <4>1. \A a \in Q : Listed(a, u, "view")' <=> Listed(a, u, "view")
        BY <1>3, <1>5, <2>4
      <4>2. Listed(p, u, "view")' <=> Listed(n, u, "view")
        BY <1>4, <1>5
      <4>3. QED
        BY <2>6, <2>7, <2>8, <4>1, <4>2
    <3>3. QED
      BY <3>1, <3>2 DEF PagesLetView
  <2>10. PagesLetEdit(q, u)' <=> PagesLetEdit(q, u)
    <3>1. (\A a \in Chain(q)' : ~Denied(a, u, "edit")') <=> \A a \in Chain(q) : ~Denied(a, u, "edit")
      <4>1. \A a \in Q : Denied(a, u, "edit")' <=> Denied(a, u, "edit")
        BY <1>3, <1>5, <2>4
      <4>2. Denied(p, u, "edit")' <=> Denied(n, u, "edit")
        BY <1>4, <1>5
      <4>3. QED
        BY <2>1, <2>2, <2>3, <4>1, <4>2
    <3>2. \A a \in Q : a \in AskedForEdit(q)' <=> a \in AskedForEdit(q)
      BY <2>1, <2>4, <2>6, <2>7, <2>8 DEF AskedForEdit
    <3>3. p \in AskedForEdit(q)' <=> n \in AskedForEdit(q)
      BY <2>1, <2>2, <2>4, <2>6, <2>7, <2>8 DEF AskedForEdit
    <3>4. AskedForEdit(q) \subseteq Chain(p) \cup Q /\ AskedForEdit(q)' \subseteq {p} \cup Q
      BY <2>1 DEF AskedForEdit
    <3>5. ASSUME NEW a \in Q
          PROVE  /\ (restricted'[a] \/ HasEditList(a)') <=> (restricted[a] \/ HasEditList(a))
                 /\ Listed(a, u, "edit")' <=> Listed(a, u, "edit")
      BY <1>3, <1>5, <2>4
    <3>6. restricted'[p] /\ (Listed(p, u, "edit")' <=> Listed(n, u, "edit"))
      BY <1>4, <1>5
    <3>7. (\A a \in AskedForEdit(q)' : restricted'[a] \/ HasEditList(a)' => Listed(a, u, "edit")')
          <=> \A a \in AskedForEdit(q) : restricted[a] \/ HasEditList(a) => Listed(a, u, "edit")
      BY <2>2, <2>3, <3>2, <3>3, <3>4, <3>5, <3>6
    <3>8. QED
      BY <3>1, <3>7 DEF PagesLetEdit
  <2>11. QED
    BY <1>1, <1>6, <2>9, <2>10 DEF CanView, CanEdit
<1>10. QED
  BY <1>8, <1>9

SwitchKeepsAccessOfOne ==
    [][\A p \in Pages :
        /\ \E n \in Pages : InheritsFrom(p, n)
        /\ \E actor \in Actors : StopInheriting(actor, p)
        => \A q \in Pages, u \in Users :
            /\ CanView(q, u)' <=> CanView(q, u)
            /\ CanEdit(q, u)' <=> CanEdit(q, u)]_vars

\* "Access is therefore unchanged at the moment of the switch" (set_page_inheritance)
\* is so, for the page and all below it, where one Restricted page above is all that
\* the page inherits and the page has no settings of its own.
THEOREM SwitchIsACopy == Spec => SwitchKeepsAccessOfOne
<1>1. TypeOK /\ [Next]_vars
      => [\A p \in Pages :
            /\ \E n \in Pages : InheritsFrom(p, n)
            /\ \E actor \in Actors : StopInheriting(actor, p)
            => \A q \in Pages, u \in Users :
                /\ CanView(q, u)' <=> CanView(q, u)
                /\ CanEdit(q, u)' <=> CanEdit(q, u)]_vars
  BY SwitchKeeps
<1>2. QED
  BY <1>1, TypeCorrect, PTL DEF Spec, SwitchKeepsAccessOfOne
=============================================================================
