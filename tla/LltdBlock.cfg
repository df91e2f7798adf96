\* Allocations and sends may fail; three probes can be seen and a response has
\* room for two.
CONSTANTS
    a = a
    b = b
    Stations = {a, b}
    Broadcast = Broadcast
    Paths <- BridgedPaths
    Generations = {0, 1}
    Seqs = {0, 1}
    MaxDescs = 2
    MaxEmitees = 2
    IconSizes = {0, 1}
    Failures = {FALSE, TRUE}

SPECIFICATION Spec

INVARIANT TypeOK
INVARIANT SeenOnce
PROPERTY ExclusiveMapper
PROPERTY ProbesReported
