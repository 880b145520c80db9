CONSTANTS
    Comments = {c1, c2, c3}
    Users = {}
    Requests = {r1, r2}
    TwoCommandsAccepted = FALSE
    NoComment = NoComment
SPECIFICATION Spec
SYMMETRY Symmetry
CHECK_DEADLOCK FALSE
INVARIANTS NoReplyOutlivesItsParent
