\* Two mappers and two generations compete for two slots; the clock counts
\* seconds.  Command times out before Emit and inactivity, and a session,
\* which must be older than its expiry, after them.
CONSTANTS
    m1 = m1
    m2 = m2
    Mappers = {m1, m2}
    Generations = {1, 2}
    Xids = {1}
    MaxEntries = 2
    SessionExpiry = 2
    Free = Free
    CommandTimeout = 1
    EmitTimeout = 2
    SessionTimeout = 1
    InactiveTimeout = 2
    CtcModulus = 2
    UnitMs = 1000
    MaxR = 1
    UnitsPerSecond = 1
    ToSs = {0, 1}
    PlainOpcodes = {2, 4}
    MaxLag = 1
    NoMapper = NoMapper

SPECIFICATION Spec
SYMMETRY MapperSymmetry

INVARIANT TypeOK
INVARIANT Consistent
INVARIANT SessionsOnlyWhileMapping
INVARIANT NeverStranded
INVARIANT ChargesExpire
PROPERTY HelloNamesLiveMapper
PROPERTY ImplementsRegistry
