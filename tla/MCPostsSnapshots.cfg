CONSTANTS
    Posts = {p1}
    DraftBodies = {d1, d2}
    Snapshots = {s1, s2}
    Hashes = {h1}
    Requests = {r1}
    Workers = {w1}
    DeadThreshold = 1
    MaxVersion = 5
    Faults = {}
    NoPost = NoPost
    NoBody = NoBody
    NoHash = NoHash
SPECIFICATION Spec
SYMMETRY Symmetry
CHECK_DEADLOCK FALSE
INVARIANTS SnapshotsCollectable
