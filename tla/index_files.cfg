CONSTANTS
    Pages = {p1, p2}
    Files = {f1}
    HoldingPage = p1
    PageOf <- HeldByOnePage
    Refused = {}
    Models = {m1, m2}
    FirstModel = m1
    Passes = {x1}
    Readers = {r1}
    Writers = {w1, w2}
    NoOne = NoOne
    BatchSize = 1
    RefusalsBeforePause = 2
    Bounds <- FileBounds
SPECIFICATION FairSpec
INVARIANTS
    VectorsOfOneModel
    TextIsOfSignature
PROPERTIES
    TextsCatchUp
CHECK_DEADLOCK FALSE
