CONSTANTS
    Users = {u1}
    Requests = {r1, r2}
    Workers = {w1, w2}
    BatchSize = 2
    DeadThreshold = 2
    MaxTasks = 3
    Faults = {}
    MaxFaults = 0
    NoUser = NoUser
SPECIFICATION Spec
CHECK_DEADLOCK FALSE
INVARIANT CountsAgree
