SPECIFICATION Spec
CONSTANTS
    Services = {s1}
    Addresses = {a1}
    Reuse = FALSE
    Outcomes = {"unreadable", "controller refused", "no thread", "link down", "not up", "ok"}
    MaxStructs = 2
    MaxListeners = 2
    MaxNotes = 8
    None = None
INVARIANTS
    NeverForgotten
    OneListener
PROPERTIES
    CancelledFirst
CHECK_DEADLOCK FALSE
