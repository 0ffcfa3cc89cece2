CONSTANTS
    root = root
    child = child
    Pages = {root, child}
    Above <- Path
    Users = {u1, u2}
    Groups = {g1}
    SystemAdmins = {admin}
    Owners = {}
    MaxChanges = 4
SPECIFICATION Spec
SYMMETRY Names
INVARIANTS
    TypeOK
    PlainPageFollowsParent
    RosterShowsView
PROPERTIES
    BlocksNarrowView
    GrantsKeepView
CHECK_DEADLOCK FALSE
