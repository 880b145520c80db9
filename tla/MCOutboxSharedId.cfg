CONSTANTS
    Events = {e1}
    Dispatchers = {d1, d2}
    DispatcherId <- ContentId
    DeadThreshold = 2
    Faults = {"broker"}
    NoId = NoId
    NoDispatcher = NoDispatcher
    NoEvent = NoEvent
SPECIFICATION Spec
SYMMETRY Symmetry
CHECK_DEADLOCK FALSE
PROPERTIES OnlyHolderMarks
