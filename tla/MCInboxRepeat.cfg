CONSTANTS
    Messages = {"like", "like3"}
    Event <- Mixed
    Consumers = {c1}
    Requests = {r1, r2}
    MaxCopies = 1
    Faults = {"crash", "store", "dlq"}
    MaxFaults = 1
    NoMessage = NoMessage
    NoKey = NoKey
SPECIFICATION Spec
CHECK_DEADLOCK FALSE
PROPERTY RepeatedReadsDeductOnce
