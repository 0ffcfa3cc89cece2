CONSTANTS
    g1 = g1
    g2 = g2
    NItems = 2
    Images = {g1, g2}
    OwnerOf <- Owners
    MaxTries = 2
    MaxCancels = 1
    MaxFaults = 2
SPECIFICATION FairSpec
INVARIANTS
    TypeOK
    ReportIsTrue
    StoreHasWhatIsNeeded
PROPERTIES
    ImportsEnd
CHECK_DEADLOCK FALSE
