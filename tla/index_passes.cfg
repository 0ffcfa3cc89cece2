CONSTANTS
    Pages = {p1, p2}
    Files = {}
    HoldingPage = p1
    PageOf <- HeldByOnePage
    Refused = {p1}
    Models = {m1, m2}
    FirstModel = m1
    Passes = {x1, x2}
    Readers = {}
    Writers = {}
    NoOne = NoOne
    BatchSize = 2
    RefusalsBeforePause = 2
    Bounds <- PassBounds
SPECIFICATION FairSpec
INVARIANTS
    TypeOK
    IndexedIsWhatTheRecordSays
    UnlockedOnlyByLapse
PROPERTIES
    IndexCatchesUp
CHECK_DEADLOCK FALSE
