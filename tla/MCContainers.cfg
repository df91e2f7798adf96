\* Table: four sessions compete for three slots; it fills, frees a slot in the
\* middle and is filled again.  List: two threads look their interfaces up;
\* the node bound leaves one node for an insertion after a lost one.
CONSTANTS
    m1 = m1
    m2 = m2
    Mappers = {m1, m2}
    Generations = {1, 2}
    Xids = {1, 2}
    MaxEntries = 3
    SessionExpiry = 1
    Free = Free
    t1 = t1
    t2 = t2
    n1 = n1
    n2 = n2
    n3 = n3
    Threads = {t1, t2}
    Nodes = {n1, n2, n3}
    Null = Null

SPECIFICATION MCSpec

INVARIANT TypeOK
INVARIANT Consistent
INVARIANT ListTypeOK
INVARIANT FoundIsOwn
PROPERTY ImplementsRegistry
PROPERTY LookupsEnd
