CONSTANTS
    a = a
    b = b
    c = c
    Holders = {a, b, c}
    NFiles = 4
    HolderOf <- Owners
    Present = {b}
    Repaired = {a}
    Every = 2
    MaxTries = 1
    MaxJobs = 1
    MaxFaults = 0
    MaxEdits = 0
SPECIFICATION Spec
INVARIANTS
    RestoreIsAllOrNothing
CHECK_DEADLOCK FALSE
