CONSTANTS
    Posts = {p1}
    DraftBodies = {d1}
    Snapshots = {s1}
    Hashes = {h1,h2}
    Requests = {r1}
    Workers = {w1}
    DeadThreshold = 1
    MaxVersion = 4
    Faults = {"crash", "ambiguous", "append", "store"}
    NoPost = NoPost
    NoBody = NoBody
    NoHash = NoHash
SPECIFICATION Spec
SYMMETRY Symmetry
CHECK_DEADLOCK FALSE
INVARIANTS ReferencedBodiesLive DoneMeansRemoved
PROPERTIES ImplementsPublishedContent
