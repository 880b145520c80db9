CONSTANTS
    Posts = {p1}
    DraftBodies = {d1, d2}
    Snapshots = {s1}
    Hashes = {h1}
    Requests = {r1, r2}
    Workers = {w1}
    DeadThreshold = 1
    MaxVersion = 4
    Faults = {}
    NoPost = NoPost
    NoBody = NoBody
    NoHash = NoHash
SPECIFICATION Spec
SYMMETRY Symmetry
CHECK_DEADLOCK FALSE
PROPERTIES OldVisibilityIsPrevious
