CONSTANTS
    Posts = {p1}
    DraftBodies = {d1}
    Snapshots = {s1}
    Hashes = {h1}
    Requests = {r1}
    Workers = {w1, w2}
    DeadThreshold = 2
    MaxVersion = 2
    Faults = {"ambiguous"}
    NoPost = NoPost
    NoBody = NoBody
    NoHash = NoHash
SPECIFICATION FairSpec
CHECK_DEADLOCK FALSE
INVARIANTS DoneMeansRemoved
PROPERTIES CleanupEnds
