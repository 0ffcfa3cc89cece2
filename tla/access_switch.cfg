CONSTANTS
    root = root
    child = child
    Pages = {root, child}
    Above <- Path
    Users = {u1, u2}
    Groups = {g1}
    SystemAdmins = {}
    Owners = {owner}
    MaxChanges = 3
SPECIFICATION Spec
PROPERTIES
    SwitchKeepsView
CHECK_DEADLOCK FALSE
