\* Fair scheduling and no assumption on frames, but that at most one Hello of
\* another station is counted in a block.
CONSTANTS
    m1 = m1
    Mappers = {m1}
    Generations = {1}
    Xids = {1}
    MaxEntries = 1
    SessionExpiry = 2
    Free = Free
    CommandTimeout = 1
    EmitTimeout = 1
    SessionTimeout = 1
    InactiveTimeout = 1
    CtcModulus = 1
    UnitMs = 100
    MaxR = 1
    UnitsPerSecond = 10
    ToSs = {0}
    PlainOpcodes = {4}
    MaxLag = 1
    NoMapper = NoMapper

SPECIFICATION FairSpec

PROPERTY SilenceEndsMapping
PROPERTY AbandonedSessionsLeave
PROPERTY HelloKeepsComing
