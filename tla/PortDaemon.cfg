SPECIFICATION FairSpec
CONSTANTS
    Interfaces = {e1, e2}
    Loopback = lo
    MaxEntries = 2
    Frames = {0, 2, 8}
    CommandTimeout = 5
    EmitTimeout = 30
    SessionTimeout = 1
INVARIANTS
    Accounted
    HeldIsAllocated
    OneThreadPerInterface
    Recoverable
PROPERTIES
    ShutdownCompletes
CHECK_DEADLOCK FALSE
