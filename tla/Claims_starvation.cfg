\* Two Hellos of other stations may be counted in a block.
CONSTANTS
    m1 = m1
    Mappers = {m1}
    Generations = {1}
    Xids = {1}
    MaxEntries = 1
    SessionExpiry = 2
    Free = Free
    CommandTimeout = 1
    EmitTimeout = 1
    SessionTimeout = 1
    InactiveTimeout = 1
    CtcModulus = 1
    UnitMs = 100
    MaxR = 2
    UnitsPerSecond = 10
    ToSs = {0}
    PlainOpcodes = {}
    MaxLag = 1
    NoMapper = NoMapper

SPECIFICATION FairSpec

PROPERTY HelloNeverStarves
