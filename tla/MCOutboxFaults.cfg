CONSTANTS
    Events = {e1, e2}
    Dispatchers = {d1, d2}
    DispatcherId <- OwnIds
    DeadThreshold = 2
    Faults = {"crash", "store", "broker"}
    NoId = NoId
    NoDispatcher = NoDispatcher
    NoEvent = NoEvent
SPECIFICATION Spec
SYMMETRY Symmetry
CHECK_DEADLOCK FALSE
PROPERTIES ImplementsAtLeastOnce OnlyHolderMarks
