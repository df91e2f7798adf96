----------------------- MODULE SessionTableApiProofs -----------------------
(***************************************************************************)
(* For every number of slots and every set of mappers, generations and     *)
(* sequence numbers: the table stays well formed under any client, and it  *)
(* implements the registry.                                                *)
(***************************************************************************)
EXTENDS SessionTableApi, SessionTableTheorems

\* The operations of the module, each from a well-formed table: the next
\* table is well formed, and its sessions change as the registry allows.
LEMMA AddStep ==
    ASSUME TableInv(table), NEW m \in Mappers, NEW g \in Generations, NEW x \in Xids,
           Add(m, g, x)
    PROVE  /\ TableInv(table')
           /\ CompleteSessionsOf(table') = CompleteSessionsOf(table)
           /\ \/ table' = table
              \/ /\ SessionsOf(table') = SessionsOf(table) \cup {<<m, g>>}
                 /\ \/ <<m, g>> \in SessionsOf(table)
                    \/ Cardinality(SessionsOf(table)) < MaxEntries
    BY AddInv DEF Add

LEMMA MarkCompleteStep ==
    ASSUME TableInv(table), NEW m, NEW g, MarkComplete(m, g)
    PROVE  /\ TableInv(table')
           /\ <<m, g>> \in SessionsOf(table)
           /\ SessionsOf(table') = SessionsOf(table)
           /\ CompleteSessionsOf(table') = CompleteSessionsOf(table) \cup {<<m, g>>}
<1>1. WellCounted(table)
    BY DEF TableInv
<1>2. TableInv(table')
    BY <1>1, CompletedWellCounted, UpdateStatus DEF MarkComplete
<1> QED
    BY <1>1, <1>2, CompletedSessions DEF MarkComplete

\* Remove, Sweep and Clear all drop some slots.
LEMMA DropStep ==
    ASSUME TableInv(table),
           \/ \E m \in Mappers, g \in Generations : Remove(m, g)
           \/ Sweep
           \/ Clear
    PROVE  /\ TableInv(table')
           /\ \E gone \in SUBSET SessionsOf(table) :
                 /\ SessionsOf(table') = SessionsOf(table) \ gone
                 /\ CompleteSessionsOf(table') = CompleteSessionsOf(table) \ gone
<1>1. WellCounted(table)
    BY DEF TableInv
<1>2. ASSUME NEW slots \in SUBSET Live(table), table' = Dropped(table, slots)
      PROVE  /\ TableInv(table')
             /\ \E gone \in SUBSET SessionsOf(table) :
                   /\ SessionsOf(table') = SessionsOf(table) \ gone
                   /\ CompleteSessionsOf(table') = CompleteSessionsOf(table) \ gone
    <2> DEFINE gone == {KeyOf(table, i) : i \in slots}
    <2>1. gone \in SUBSET SessionsOf(table)
        BY DEF SessionsOf
    <2>2. TableInv(table')
        BY <1>1, <1>2, DroppedInv
    <2>3. /\ SessionsOf(table') = SessionsOf(table) \ gone
          /\ CompleteSessionsOf(table') = CompleteSessionsOf(table) \ gone
        BY <1>1, <1>2, DroppedSessions
    <2> QED
        BY <2>1, <2>2, <2>3
<1>3. CASE \E m \in Mappers, g \in Generations : Remove(m, g)
    <2>1. PICK m \in Mappers, g \in Generations : Remove(m, g)
        BY <1>3
    <2> DEFINE slots == IF Matching(table, m, g) = {} THEN {}
                        ELSE {LeastOf(Matching(table, m, g))}
    <2>2. Matching(table, m, g) \subseteq Live(table) /\ Live(table) \subseteq Slots
        BY DEF Matching, Live
    <2>3. slots \in SUBSET Live(table)
        BY <2>2, LeastOfIsMember
    <2>4. table' = Dropped(table, slots)
        BY <2>1 DEF Remove, session_table_remove
    <2> QED
        BY <1>2, <2>3, <2>4
<1>4. CASE Sweep
    <2>1. Expired(table) \in SUBSET Live(table)
        BY DEF Expired
    <2> QED
        BY <1>2, <1>4, <2>1 DEF Sweep, SweepExpired
<1>5. CASE Clear
    <2>1. TableInv(table') /\ Live(table') = {}
        BY <1>5, EmptyTableInv DEF Clear
    <2>2. SessionsOf(table') = {} /\ CompleteSessionsOf(table') = {}
        BY <2>1 DEF SessionsOf, CompleteSessionsOf
    <2>3. SessionsOf(table) \ SessionsOf(table) = {}
          /\ CompleteSessionsOf(table) \ SessionsOf(table) = {}
        BY DEF SessionsOf, CompleteSessionsOf
    <2> QED
        BY <2>1, <2>2, <2>3
<1> QED
    BY <1>3, <1>4, <1>5

LEMMA SecondStep ==
    ASSUME TableInv(table), SecondPasses
    PROVE  /\ TableInv(table')
           /\ SessionsOf(table') = SessionsOf(table)
           /\ CompleteSessionsOf(table') = CompleteSessionsOf(table)
    BY AgedInv, AgedSessions DEF SecondPasses

\* The inductive invariant: the table is a table and its three redundant
\* parts agree.
LEMMA TableStaysWellFormed == Spec => []TableInv(table)
<1>1. Init => TableInv(table)
    BY EmptyTableInv DEF Init
<1>2. TableInv(table) /\ [Next]_table => TableInv(table)'
    <2> SUFFICES ASSUME TableInv(table), [Next]_table
                 PROVE  TableInv(table')
        OBVIOUS
    <2>1. CASE \E m \in Mappers, g \in Generations, x \in Xids : Add(m, g, x)
        BY <2>1, AddStep
    <2>2. CASE \E m \in Mappers, g \in Generations : MarkComplete(m, g)
        BY <2>2, MarkCompleteStep
    <2>3. CASE \/ \E m \in Mappers, g \in Generations : Remove(m, g)
               \/ Sweep
               \/ Clear
        BY <2>3, DropStep
    <2>4. CASE SecondPasses
        BY <2>4, SecondStep
    <2>5. CASE UNCHANGED table
        BY <2>5
    <2> QED
        BY <2>1, <2>2, <2>3, <2>4, <2>5 DEF Next
<1> QED
    BY <1>1, <1>2, PTL DEF Spec

\* The table keeps its shape under any client of session_table_*.
THEOREM TypeCorrect == Spec => []TypeOK
<1>1. TableInv(table) => TypeOK
    BY DEF TableInv, WellCounted, TypeOK
<1> QED
    BY <1>1, TableStaysWellFormed, PTL

\* After every call count is the number of valid slots, all_complete is what
\* a scan would answer, and no session is in two slots.
THEOREM AlwaysConsistent == Spec => []Consistent
<1>1. TableInv(table) => Consistent
    BY DEF TableInv, WellCounted, Consistent, TableConsistent
<1> QED
    BY <1>1, TableStaysWellFormed, PTL

\* The table implements the registry of sessions: its readers' two answers
\* are current after every call, a session once complete stays so until it
\* leaves, and only new sessions are turned away, only when there is no room.
THEOREM TableImplementsRegistry == Spec => ImplementsRegistry
<1>1. Init => Registry!RegistryInit
    <2> SUFFICES ASSUME Init PROVE Registry!RegistryInit
        OBVIOUS
    <2>1. TableInv(table) /\ Live(table) = {}
        BY EmptyTableInv DEF Init
    <2>2. SessionsOf(table) = {} /\ CompleteSessionsOf(table) = {}
        BY <2>1 DEF SessionsOf, CompleteSessionsOf
    <2>3. /\ session_table_is_empty(table) = (SessionsOf(table) = {})
          /\ session_table_all_complete(table) = (CompleteSessionsOf(table) = SessionsOf(table))
        BY <2>1, Answers
    <2> QED
        BY <2>2, <2>3 DEF Registry!RegistryInit
<1>2. TableInv(table) /\ TableInv(table)' /\ [Next]_table
      => [Registry!RegistryNext]_(Registry!registryVars)
    <2> SUFFICES ASSUME TableInv(table), TableInv(table'), [Next]_table
                 PROVE  [Registry!RegistryNext]_(Registry!registryVars)
        OBVIOUS
    <2>1. Registry!Answer
        BY Answers DEF Registry!Answer
    <2>2. UNCHANGED <<SessionsOf(table), CompleteSessionsOf(table)>>
          => UNCHANGED Registry!registryVars
        BY Answers DEF Registry!registryVars
    <2>3. CASE \E m \in Mappers, g \in Generations, x \in Xids : Add(m, g, x)
        <3>1. PICK m \in Mappers, g \in Generations, x \in Xids : Add(m, g, x)
            BY <2>3
        <3>2. CASE table' = table
            BY <2>2, <3>2
        <3>3. CASE table' # table
            <4>1. Registry!Join(<<m, g>>, FALSE)
                BY <2>1, <3>1, <3>3, AddStep DEF Registry!Join, Registry!Cardinality, Cardinality
            <4>2. <<m, g>> \in Keys
                BY DEF Keys
            <4> QED
                BY <4>1, <4>2 DEF Registry!RegistryNext
        <3> QED
            BY <3>2, <3>3
    <2>4. CASE \E m \in Mappers, g \in Generations : MarkComplete(m, g)
        <3>1. PICK m \in Mappers, g \in Generations : MarkComplete(m, g)
            BY <2>4
        <3>2. Registry!Join(<<m, g>>, TRUE)
            BY <2>1, <3>1, MarkCompleteStep DEF Registry!Join
        <3>3. <<m, g>> \in Keys
            BY DEF Keys
        <3> QED
            BY <3>2, <3>3 DEF Registry!RegistryNext
    <2>5. CASE \/ \E m \in Mappers, g \in Generations : Remove(m, g)
               \/ Sweep
               \/ Clear
        <3>1. PICK gone \in SUBSET SessionsOf(table) :
                 /\ SessionsOf(table') = SessionsOf(table) \ gone
                 /\ CompleteSessionsOf(table') = CompleteSessionsOf(table) \ gone
            BY <2>5, DropStep
        <3>2. Registry!Leave(gone)
            BY <2>1, <3>1 DEF Registry!Leave
        <3> QED
            BY <3>2 DEF Registry!RegistryNext
    <2>6. CASE SecondPasses
        BY <2>2, <2>6, SecondStep
    <2>7. CASE UNCHANGED table
        BY <2>2, <2>7
    <2> QED
        BY <2>3, <2>4, <2>5, <2>6, <2>7 DEF Next
<1> QED
    BY <1>1, <1>2, TableStaysWellFormed, PTL DEF Spec, ImplementsRegistry, Registry!RegistrySpec
=============================================================================
