CONSTANTS
    Messages = {"like", "malformed"}
    Event <- Likes
    Consumers = {c1}
    Requests = {r1}
    MaxCopies = 2
    Faults = {"crash", "store", "dlq"}
    MaxFaults = 1
    NoMessage = NoMessage
    NoKey = NoKey
    Dispatchers = {d1}
    DispatcherId <- OwnIds
    DeadThreshold = 2
    ProducerFaults = {"broker"}
    NoId = NoId
    NoDispatcher = NoDispatcher
    NoEvent = NoEvent
SPECIFICATION PipelineFairSpec
CHECK_DEADLOCK FALSE
PROPERTIES ImplementsServedEvents CommittedEventsSettle
