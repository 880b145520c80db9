CONSTANTS
    Users = {u1}
    Requests = {r1, r2}
    Workers = {w1, w2}
    BatchSize = 2
    DeadThreshold = 2
    MaxTasks = 2
    Faults = {"crash", "slow", "store"}
    MaxFaults = 3
    NoUser = NoUser
SPECIFICATION FairSpec
CHECK_DEADLOCK FALSE
INVARIANTS EachDeltaOnce
PROPERTIES TasksSettle CacheCatchesUp
