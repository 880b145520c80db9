CONSTANTS
    Comments = {c1, c2, c3, c4}
    Users = {u1}
    Requests = {r1, r2}
    TwoCommandsAccepted = TRUE
    NoComment = NoComment
SPECIFICATION Spec
SYMMETRY Symmetry
CHECK_DEADLOCK FALSE
INVARIANTS CountersMatchTree DeltasMatchLikes
