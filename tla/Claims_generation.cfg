\* One mapper whose second Discover, of another generation, is a quick one.
CONSTANTS
    m1 = m1
    Mappers = {m1}
    Generations = {1, 2}
    Xids = {1}
    MaxEntries = 2
    SessionExpiry = 2
    Free = Free
    CommandTimeout = 1
    EmitTimeout = 2
    SessionTimeout = 1
    InactiveTimeout = 2
    CtcModulus = 2
    UnitMs = 1000
    MaxR = 1
    UnitsPerSecond = 1
    ToSs = {0, 1}
    PlainOpcodes = {}
    MaxLag = 1
    NoMapper = NoMapper

SPECIFICATION ClaimSpec

PROPERTY HelloGenerationMatches
