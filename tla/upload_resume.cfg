CONSTANTS
    t1 = t1
    t2 = t2
    zip = zip
    a1 = a1
    a2 = a2
    a3 = a3
    Tabs = {t1, t2}
    Files = {zip}
    Archives = {a1, a2, a3}
    NParts = 2
    MaxActs = 3
    MaxFaults = 1
SPECIFICATION FairSpec
INVARIANTS
    TypeOK
    RowsAgreeWithStore
    BytesBehindRows
    CompletesWholeUploads
PROPERTIES
    RunsReachThePicker
CHECK_DEADLOCK FALSE
