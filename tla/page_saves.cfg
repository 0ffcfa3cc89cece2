CONSTANTS
    ta = ta
    tb = tb
    oc = oc
    ann = ann
    bob = bob
    Tabs = {ta, tb}
    Others = {oc}
    Users = {ann, bob}
    UserOf <- TwoUsers
    Authors = {ann}
    Tol = 1
    Gaps = {1, 2}
    MaxText = 3
    MaxClock = 3
    MaxActs = 1
    MaxReloads = 0
    MaxFaults = 0
SPECIFICATION Spec
INVARIANTS
    TypeOK
    WhatLooksSavedIsInHistory
PROPERTIES
    EveryTextStaysInHistory
    CopyLostOnlyByOlderRequest
CHECK_DEADLOCK FALSE
SYMMETRY Twins
