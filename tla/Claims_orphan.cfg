SPECIFICATION Spec
CONSTANTS
    Services = {s1}
    Addresses = {a1}
    Reuse = FALSE
    Outcomes = {"link down", "ok"}
    MaxStructs = 2
    MaxListeners = 3
    MaxNotes = 8
    None = None
INVARIANT NoOrphanListener
CHECK_DEADLOCK FALSE
