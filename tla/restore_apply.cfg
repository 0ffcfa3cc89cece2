CONSTANTS
    a = a
    b = b
    c = c
    Holders = {a, b, c}
    NFiles = 4
    HolderOf <- Owners
    Present = {b}
    Repaired = {a}
    Every = 2
    MaxTries = 3
    MaxJobs = 2
    MaxFaults = 2
    MaxEdits = 1
SPECIFICATION Spec
INVARIANTS
    TypeOK
    HoldersAreWhole
PROPERTIES
    ReplacesAtOnce
    EditsSurvive
CHECK_DEADLOCK FALSE
