\* One session against the real 100 ms of the receive timeout, so that the
\* Hello, block and second deadlines interleave as they do in the daemon.
CONSTANTS
    m1 = m1
    Mappers = {m1}
    Generations = {1}
    Xids = {1}
    MaxEntries = 1
    SessionExpiry = 2
    Free = Free
    CommandTimeout = 1
    EmitTimeout = 1
    SessionTimeout = 1
    InactiveTimeout = 1
    CtcModulus = 1
    UnitMs = 100
    MaxR = 3
    UnitsPerSecond = 10
    ToSs = {0}
    PlainOpcodes = {4}
    MaxLag = 1
    NoMapper = NoMapper

SPECIFICATION Spec

INVARIANT EnumerationFollowsTable
INVARIANT DeadlinesArmed
INVARIANT DeadlineFollowsEstimate
PROPERTY HelloOnlyForIncomplete
