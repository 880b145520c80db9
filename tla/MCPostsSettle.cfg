CONSTANTS
    Posts = {p1}
    DraftBodies = {d1, d2}
    Snapshots = {s1}
    Hashes = {h1}
    Requests = {r1}
    Workers = {w1}
    DeadThreshold = 1
    MaxVersion = 3
    Faults = {"ambiguous"}
    NoPost = NoPost
    NoBody = NoBody
    NoHash = NoHash
SPECIFICATION FairSpec
CHECK_DEADLOCK FALSE
PROPERTIES CleanupEnds
