CONSTANTS
    Events = {e1, e2}
    Dispatchers = {d1, d2}
    DispatcherId <- OwnIds
    DeadThreshold = 2
    Faults = {"broker"}
    NoId = NoId
    NoDispatcher = NoDispatcher
    NoEvent = NoEvent
SPECIFICATION FairSpec
CHECK_DEADLOCK FALSE
INVARIANTS SomeDispatcherRuns
PROPERTIES EventsSettle
