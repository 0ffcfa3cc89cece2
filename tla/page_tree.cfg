CONSTANTS
    Pages = {p1, p2, p3}
    Spaces = {s1, s2}
    Slugs = {a, b, c}
    Requests = {h1, h2}
    None = None
    MaxActs = 6
SPECIFICATION Spec
SYMMETRY Names
INVARIANTS
    TypeOK
    WritesFit
PROPERTIES
    WaysUpStay
CHECK_DEADLOCK FALSE
