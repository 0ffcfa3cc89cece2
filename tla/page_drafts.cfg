CONSTANTS
    ta = ta
    tb = tb
    oc = oc
    ann = ann
    bob = bob
    Tabs = {ta}
    Others = {}
    Users = {ann}
    UserOf <- OneUser
    Authors = {ann}
    Tol = 0
    Gaps = {1}
    MaxText = 3
    MaxClock = 1
    MaxActs = 1
    MaxReloads = 1
    MaxFaults = 1
SPECIFICATION FairSpec
PROPERTIES
    DraftCatchesUp
    SavesEnd
CHECK_DEADLOCK FALSE
