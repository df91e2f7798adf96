------------------------ MODULE SessionTableTheorems ------------------------
(***************************************************************************)
(* Facts about the operations of the session table, for tables of any      *)
(* size: each takes a well-formed table to a well-formed table, and to the *)
(* sessions one expects.                                                   *)
(***************************************************************************)
EXTENDS SessionTable, FiniteSetTheorems, TLAPS

\* Slots is finite, and so is every set of slots; there are MaxEntries.
LEMMA SlotsFinite ==
    /\ IsFiniteSet(Slots) /\ Cardinality(Slots) = MaxEntries
    /\ \A S \in SUBSET Slots : IsFiniteSet(S) /\ Cardinality(S) \in 0..MaxEntries
<1>1. MaxEntries \in Nat \ {0}
    BY SessionTableAssumption
<1>2. IsFiniteSet(Slots) /\ Cardinality(Slots) = MaxEntries
    BY <1>1, FS_Interval DEF Slots
<1>3. ASSUME NEW S \in SUBSET Slots
      PROVE  IsFiniteSet(S) /\ Cardinality(S) \in 0..MaxEntries
    <2>1. IsFiniteSet(S) /\ Cardinality(S) <= MaxEntries
        BY <1>2, FS_Subset
    <2>2. Cardinality(S) \in Nat
        BY <2>1, FS_CardinalityType
    <2> QED
        BY <1>1, <2>1, <2>2
<1> QED
    BY <1>2, <1>3

\* Every nonempty set of slots has a first slot, the one LeastOf picks: among
\* the intervals 1..i that end in the set, one contains no other.
LEMMA LeastOfIsMember ==
    ASSUME NEW S \in SUBSET Slots, S # {}
    PROVE  LeastOf(S) \in S
<1> DEFINE UpTo == {1..i : i \in S}
           Order == StrictSubsetOrdering(Slots)
<1>1. MaxEntries \in Nat /\ S \subseteq 1..MaxEntries
    BY SessionTableAssumption DEF Slots
<1>2. UpTo \subseteq FiniteSubsetsOf(Slots) /\ UpTo # {}
    <2>1. FiniteSubsetsOf(Slots) = SUBSET Slots
        BY SlotsFinite, FS_FiniteSubsetsOfFinite
    <2>2. \A i \in S : 1..i \subseteq Slots
        BY <1>1 DEF Slots
    <2> QED
        BY <2>1, <2>2
<1>3. \E T \in UpTo : \A U \in UpTo : ~ (<<U, T>> \in Order)
    <2> HIDE DEF UpTo, Order
    <2>1. IsWellFoundedOn(Order, FiniteSubsetsOf(Slots))
        BY FS_StrictSubsetOrderingWellFounded DEF Order
    <2> QED
        BY <1>2, <2>1, WFMin
<1>4. PICK i \in S : \A j \in S : ~ (<<1..j, 1..i>> \in Order)
    BY <1>3
<1>5. ASSUME NEW j \in S, j < i
      PROVE  <<1..j, 1..i>> \in Order
    <2>1. 1..j \subseteq Slots /\ 1..i \subseteq Slots
        BY <1>1 DEF Slots
    <2>2. 1..j \subseteq 1..i
        BY <1>1, <1>5
    <2>3. i \in 1..i /\ i \notin 1..j
        BY <1>1, <1>5
    <2>4. <<1..j, 1..i>> \in (SUBSET Slots) \X (SUBSET Slots)
        BY <2>1
    <2> QED
        BY <2>2, <2>3, <2>4 DEF StrictSubsetOrdering
<1>6. \A j \in S : i <= j
    <2> TAKE j \in S
    <2>1. i \in Nat /\ j \in Nat
        BY <1>1
    <2>2. ~ (j < i)
        BY <1>4, <1>5
    <2> QED
        BY <2>1, <2>2
<1> QED
    BY <1>6 DEF LeastOf

-----------------------------------------------------------------------------
\* A table whose slots and count agree; all_complete is recomputed last.
WellCounted(t) == t \in Table /\ CountsLive(t) /\ KeysUnique(t)

TableInv(t) == WellCounted(t) /\ StatusCurrent(t)

LEMMA EmptyTableInv == TableInv(EmptyTable) /\ Live(EmptyTable) = {}
<1>1. EmptyTable \in Table
    BY SessionTableAssumption DEF EmptyTable, Table, Slots
<1>2. Live(EmptyTable) = {}
    BY DEF EmptyTable, Live
<1>3. CountsLive(EmptyTable)
    BY <1>2, FS_EmptySet DEF CountsLive, EmptyTable
<1> QED
    BY <1>1, <1>2, <1>3 DEF TableInv, WellCounted, KeysUnique, StatusCurrent, EmptyTable

\* Recomputing all_complete changes nothing else, and makes it current.
LEMMA UpdateStatus ==
    ASSUME NEW t, WellCounted(t)
    PROVE  LET u == session_table_update_complete_status(t)
           IN  TableInv(u) /\ u.entries = t.entries /\ u.count = t.count /\ Live(u) = Live(t)
<1> DEFINE u == session_table_update_complete_status(t)
<1>1. /\ u \in Table
      /\ u.entries = t.entries /\ u.count = t.count
      /\ u.all_complete = \A i \in Live(t) : t.entries[i].complete
    <2>1. t \in Table
        BY DEF WellCounted
    <2>2. (\A i \in Live(t) : t.entries[i].complete) \in BOOLEAN
        OBVIOUS
    <2> QED
        BY <2>1, <2>2 DEF session_table_update_complete_status, Table
<1>2. Live(u) = Live(t)
    BY <1>1 DEF Live
<1>3. WellCounted(u)
    BY <1>1, <1>2 DEF WellCounted, CountsLive, KeysUnique
<1>4. StatusCurrent(u)
    BY <1>1, <1>2 DEF StatusCurrent
<1> QED
    BY <1>1, <1>2, <1>3, <1>4 DEF TableInv

\* Marking entries complete leaves slots and count in agreement.
LEMMA CompletedWellCounted ==
    ASSUME NEW t, WellCounted(t), NEW m, NEW g
    PROVE  /\ WellCounted(Completed(t, m, g))
           /\ Live(Completed(t, m, g)) = Live(t)
           /\ \A i \in Live(t) : KeyOf(Completed(t, m, g), i) = KeyOf(t, i)
<1> DEFINE u == Completed(t, m, g)
<1>1. t \in Table /\ Matching(t, m, g) \subseteq Live(t) /\ Live(t) \subseteq Slots
    BY DEF WellCounted, Matching, Live
<1>2. \A i \in Live(t) : t.entries[i] \in Entry
    BY <1>1 DEF Live, Table
<1>3. /\ u.count = t.count /\ u.all_complete = t.all_complete
      /\ u.entries = [i \in Slots |->
            IF i \in Matching(t, m, g) THEN [t.entries[i] EXCEPT !.complete = TRUE]
                                      ELSE t.entries[i]]
    BY <1>1 DEF Completed, Table
<1>4. \A i \in Live(t) :
        /\ u.entries[i] \in Entry
        /\ u.entries[i].mapper = t.entries[i].mapper
        /\ u.entries[i].generation = t.entries[i].generation
    BY <1>1, <1>2, <1>3 DEF Entry
<1>5. \A i \in Slots \ Live(t) : u.entries[i] = Free
    BY <1>1, <1>3 DEF Live
<1>6. Live(u) = Live(t)
    BY <1>1, <1>4, <1>5, SessionTableAssumption DEF Live
<1>7. u \in Table
    <2>1. u.entries \in [Slots -> Entry \cup {Free}]
        BY <1>3, <1>4, <1>5
    <2> QED
        BY <1>1, <2>1 DEF Completed, Table
<1>8. CountsLive(u) /\ KeysUnique(u)
    BY <1>3, <1>4, <1>6 DEF WellCounted, CountsLive, KeysUnique
<1> QED
    BY <1>4, <1>6, <1>7, <1>8 DEF WellCounted, KeyOf

\* Dropping live entries keeps the count that of the entries left.
LEMMA DroppedInv ==
    ASSUME NEW t, WellCounted(t), NEW gone \in SUBSET Live(t)
    PROVE  /\ TableInv(Dropped(t, gone))
           /\ Live(Dropped(t, gone)) = Live(t) \ gone
           /\ \A i \in Live(t) \ gone : Dropped(t, gone).entries[i] = t.entries[i]
<1> DEFINE u == [t EXCEPT !.entries = [i \in Slots |-> IF i \in gone THEN Free ELSE t.entries[i]],
                          !.count = IF @ > Cardinality(gone) THEN @ - Cardinality(gone) ELSE 0]
<1>1. t \in Table /\ Live(t) \subseteq Slots /\ t.count = Cardinality(Live(t))
    BY DEF WellCounted, CountsLive, Live
<1>2. /\ u.entries = [i \in Slots |-> IF i \in gone THEN Free ELSE t.entries[i]]
      /\ u.count = IF t.count > Cardinality(gone) THEN t.count - Cardinality(gone) ELSE 0
      /\ u.all_complete = t.all_complete
    BY <1>1 DEF Table
<1>3. Live(u) = Live(t) \ gone
    BY <1>1, <1>2 DEF Live
<1>4. /\ Cardinality(Live(t)) \in 0..MaxEntries
      /\ Cardinality(gone) \in 0..Cardinality(Live(t))
      /\ Cardinality(Live(t) \ gone) = Cardinality(Live(t)) - Cardinality(gone)
    <2>1. IsFiniteSet(Live(t)) /\ Cardinality(Live(t)) \in 0..MaxEntries
        BY <1>1, SlotsFinite
    <2>2. gone \in SUBSET Slots /\ Live(t) \cap gone = gone
        BY <1>1
    <2>3. Cardinality(gone) \in 0..MaxEntries /\ Cardinality(gone) <= Cardinality(Live(t))
        BY <2>1, <2>2, SlotsFinite, FS_Subset
    <2>4. Cardinality(Live(t) \ gone) = Cardinality(Live(t)) - Cardinality(Live(t) \cap gone)
        BY <2>1, FS_Difference
    <2> QED
        BY <2>1, <2>2, <2>3, <2>4, SessionTableAssumption
<1>5. u.count = Cardinality(Live(u)) /\ u.count \in 0..MaxEntries
    <2>1. u.count = IF Cardinality(Live(t)) > Cardinality(gone)
                      THEN Cardinality(Live(t)) - Cardinality(gone) ELSE 0
        BY <1>1, <1>2
    <2>2. u.count = Cardinality(Live(t)) - Cardinality(gone) /\ u.count \in 0..MaxEntries
        <3> HIDE DEF u
        <3> QED
            BY <1>4, <2>1, SessionTableAssumption
    <2> QED
        BY <1>3, <1>4, <2>2
<1>6. u \in Table
    <2>1. u.entries \in [Slots -> Entry \cup {Free}]
        BY <1>1, <1>2 DEF Table
    <2> QED
        BY <1>1, <1>5, <2>1 DEF Table
<1>7. KeysUnique(u)
    BY <1>1, <1>2, <1>3 DEF WellCounted, KeysUnique
<1>8. WellCounted(u)
    BY <1>5, <1>6, <1>7 DEF WellCounted, CountsLive
<1>9. Dropped(t, gone) = session_table_update_complete_status(u)
    BY DEF Dropped
<1> HIDE DEF u
<1>10. TableInv(Dropped(t, gone)) /\ Dropped(t, gone).entries = u.entries
       /\ Live(Dropped(t, gone)) = Live(u)
    BY <1>8, <1>9, UpdateStatus
<1> QED
    BY <1>1, <1>2, <1>3, <1>10

\* Ageing changes no session.
LEMMA AgedInv ==
    ASSUME NEW t, TableInv(t)
    PROVE  /\ TableInv(Aged(t)) /\ Live(Aged(t)) = Live(t)
           /\ \A i \in Live(t) : /\ KeyOf(Aged(t), i) = KeyOf(t, i)
                                  /\ Aged(t).entries[i].complete = t.entries[i].complete
<1> DEFINE u == Aged(t)
<1>1. t \in Table /\ Live(t) \subseteq Slots /\ \A i \in Live(t) : t.entries[i] \in Entry
    BY DEF TableInv, WellCounted, Live, Table
<1>2. /\ u.count = t.count /\ u.all_complete = t.all_complete
      /\ u.entries = [i \in Slots |->
            IF t.entries[i] = Free THEN Free
            ELSE [t.entries[i] EXCEPT !.idle = IF @ <= SessionExpiry THEN @ + 1 ELSE @]]
    BY <1>1 DEF Aged, Table
<1>3. \A i \in Live(t) :
        /\ u.entries[i] \in Entry
        /\ u.entries[i].mapper = t.entries[i].mapper
        /\ u.entries[i].generation = t.entries[i].generation
        /\ u.entries[i].complete = t.entries[i].complete
    BY <1>1, <1>2, SessionTableAssumption DEF Live, Entry
<1>4. \A i \in Slots \ Live(t) : u.entries[i] = Free
    BY <1>2 DEF Live
<1>5. Live(u) = Live(t)
    BY <1>1, <1>3, <1>4, SessionTableAssumption DEF Live
<1>6. u \in Table
    <2>1. u.entries \in [Slots -> Entry \cup {Free}]
        BY <1>2, <1>3, <1>4
    <2> QED
        BY <1>1, <2>1 DEF Aged, Table
<1>7. CountsLive(u) /\ KeysUnique(u) /\ StatusCurrent(u)
    <2> HIDE DEF u
    <2>1. CountsLive(u)
        BY <1>2, <1>5 DEF TableInv, WellCounted, CountsLive
    <2>2. KeysUnique(u)
        BY <1>3, <1>5 DEF TableInv, WellCounted, KeysUnique
    <2>3. StatusCurrent(u)
        BY <1>2, <1>3, <1>5 DEF TableInv, StatusCurrent
    <2> QED
        BY <2>1, <2>2, <2>3
<1> QED
    BY <1>3, <1>5, <1>6, <1>7 DEF TableInv, WellCounted, KeyOf

-----------------------------------------------------------------------------
\* A table and its sessions.

\* Live slots hold entries; the sessions are those of the live slots.
LEMMA LiveEntries ==
    ASSUME NEW t, t \in Table
    PROVE  /\ Live(t) \subseteq Slots
           /\ \A i \in Live(t) : t.entries[i] \in Entry /\ KeyOf(t, i) \in Keys
<1>1. Live(t) \subseteq Slots /\ \A i \in Live(t) : t.entries[i] \in Entry
    BY DEF Live, Table
<1> QED
    BY <1>1 DEF KeyOf, Keys, Entry

\* The two cached answers are about the sessions.
LEMMA Answers ==
    ASSUME NEW t, TableInv(t)
    PROVE  /\ session_table_is_empty(t) = (SessionsOf(t) = {})
           /\ session_table_all_complete(t) = (CompleteSessionsOf(t) = SessionsOf(t))
<1>1. t \in Table /\ Live(t) \subseteq Slots
    BY LiveEntries DEF TableInv, WellCounted
<1>2. t.count = 0 <=> Live(t) = {}
    BY <1>1, SlotsFinite, FS_EmptySet DEF TableInv, WellCounted, CountsLive
<1>3. t.all_complete \in BOOLEAN
    BY <1>1 DEF Table
<1>4. (\A i \in Live(t) : t.entries[i].complete) <=> CompleteSessionsOf(t) = SessionsOf(t)
    <2>1. ASSUME \A i \in Live(t) : t.entries[i].complete
          PROVE  CompleteSessionsOf(t) = SessionsOf(t)
        BY <2>1 DEF CompleteSessionsOf, SessionsOf
    <2>2. ASSUME CompleteSessionsOf(t) = SessionsOf(t), NEW i \in Live(t)
          PROVE  t.entries[i].complete
        <3>1. PICK j \in Live(t) : t.entries[j].complete /\ KeyOf(t, j) = KeyOf(t, i)
            BY <2>2 DEF CompleteSessionsOf, SessionsOf
        <3>2. i = j
            BY <3>1 DEF TableInv, WellCounted, KeysUnique, KeyOf
        <3> QED
            BY <3>1, <3>2
    <2> QED
        BY <2>1, <2>2
<1>5. Live(t) = {} <=> SessionsOf(t) = {}
    BY DEF SessionsOf
<1> QED
    BY <1>2, <1>3, <1>4, <1>5 DEF TableInv, StatusCurrent, session_table_is_empty,
       session_table_all_complete

\* A table with a free slot holds fewer sessions than it has slots.
LEMMA RoomLeft ==
    ASSUME NEW t, TableInv(t), Live(t) # Slots
    PROVE  Cardinality(SessionsOf(t)) < MaxEntries
<1>1. t \in Table /\ Live(t) \subseteq Slots
    BY LiveEntries DEF TableInv, WellCounted
<1>2. IsFiniteSet(Live(t)) /\ Cardinality(Live(t)) \in 0..MaxEntries
    BY <1>1, SlotsFinite
<1>3. Cardinality(Live(t)) < MaxEntries
    BY <1>1, <1>2, SlotsFinite, FS_Subset, SessionTableAssumption
<1>4. [i \in Live(t) |-> KeyOf(t, i)] \in Surjection(Live(t), SessionsOf(t))
    BY DEF Surjection, SessionsOf
<1>5. IsFiniteSet(SessionsOf(t)) /\ Cardinality(SessionsOf(t)) <= Cardinality(Live(t))
    BY <1>2, <1>4, FS_Surjection
<1>6. Cardinality(SessionsOf(t)) \in Nat
    BY <1>5, FS_CardinalityType
<1> QED
    BY <1>2, <1>3, <1>5, <1>6, SessionTableAssumption

\* Dropping slots drops their sessions, and no others.
LEMMA DroppedSessions ==
    ASSUME NEW t, WellCounted(t), NEW gone \in SUBSET Live(t)
    PROVE  LET left == {KeyOf(t, i) : i \in gone}
           IN  /\ SessionsOf(Dropped(t, gone)) = SessionsOf(t) \ left
               /\ CompleteSessionsOf(Dropped(t, gone)) = CompleteSessionsOf(t) \ left
<1> DEFINE u == Dropped(t, gone)
           left == {KeyOf(t, i) : i \in gone}
<1>1. Live(u) = Live(t) \ gone /\ \A i \in Live(u) : u.entries[i] = t.entries[i]
    BY DroppedInv
<1>2. \A i \in Live(t) : KeyOf(t, i) \in left <=> i \in gone
    BY DEF WellCounted, KeysUnique, KeyOf
<1> HIDE DEF u, left
<1>3. \A i \in Live(u) : KeyOf(u, i) = KeyOf(t, i)
    BY <1>1 DEF KeyOf
<1>4. SessionsOf(u) = SessionsOf(t) \ left
    BY <1>1, <1>2, <1>3 DEF SessionsOf
<1>5. CompleteSessionsOf(u) = CompleteSessionsOf(t) \ left
    BY <1>1, <1>2, <1>3 DEF CompleteSessionsOf
<1> QED
    BY <1>4, <1>5 DEF u, left

\* Completing a session completes it alone.
LEMMA CompletedSessions ==
    ASSUME NEW t, WellCounted(t), NEW m, NEW g, Matching(t, m, g) # {}
    PROVE  LET u == session_table_update_complete_status(Completed(t, m, g))
           IN  /\ <<m, g>> \in SessionsOf(t)
               /\ SessionsOf(u) = SessionsOf(t)
               /\ CompleteSessionsOf(u) = CompleteSessionsOf(t) \cup {<<m, g>>}
<1> DEFINE c == Completed(t, m, g)
           u == session_table_update_complete_status(c)
<1>1. WellCounted(c) /\ Live(c) = Live(t) /\ \A i \in Live(t) : KeyOf(c, i) = KeyOf(t, i)
    BY CompletedWellCounted
<1>2. Live(u) = Live(c) /\ u.entries = c.entries
    BY <1>1, UpdateStatus
<1>3. t \in Table /\ Live(t) \subseteq Slots /\ \A i \in Live(t) : t.entries[i] \in Entry
    BY LiveEntries DEF WellCounted
<1>4. \A i \in Live(t) :
        c.entries[i].complete <=> (t.entries[i].complete \/ KeyOf(t, i) = <<m, g>>)
    <2> TAKE i \in Live(t)
    <2>1. c.entries[i] = IF i \in Matching(t, m, g) THEN [t.entries[i] EXCEPT !.complete = TRUE]
                                                   ELSE t.entries[i]
        BY <1>3 DEF Completed, Table
    <2>2. i \in Matching(t, m, g) <=> KeyOf(t, i) = <<m, g>>
        BY DEF Matching, KeyOf
    <2>3. i \in Matching(t, m, g) => c.entries[i].complete
        BY <1>3, <2>1 DEF Entry
    <2>4. i \notin Matching(t, m, g) => c.entries[i] = t.entries[i]
        BY <2>1
    <2> QED
        BY <2>2, <2>3, <2>4
<1>5. <<m, g>> \in SessionsOf(t)
    BY DEF SessionsOf, Matching, KeyOf
<1> HIDE DEF u, c
<1>6. \A i \in Live(u) : KeyOf(u, i) = KeyOf(t, i)
    BY <1>1, <1>2 DEF KeyOf
<1>7. SessionsOf(u) = SessionsOf(t)
    BY <1>1, <1>2, <1>6 DEF SessionsOf
<1>8. CompleteSessionsOf(u) = CompleteSessionsOf(t) \cup {<<m, g>>}
    BY <1>1, <1>2, <1>4, <1>5, <1>6 DEF CompleteSessionsOf, SessionsOf
<1> QED
    BY <1>5, <1>7, <1>8 DEF u, c

\* Ageing keeps the sessions.
LEMMA AgedSessions ==
    ASSUME NEW t, TableInv(t)
    PROVE  /\ SessionsOf(Aged(t)) = SessionsOf(t)
           /\ CompleteSessionsOf(Aged(t)) = CompleteSessionsOf(t)
<1> DEFINE u == Aged(t)
<1>1. Live(u) = Live(t) /\ \A i \in Live(t) : /\ KeyOf(u, i) = KeyOf(t, i)
                                             /\ u.entries[i].complete = t.entries[i].complete
    BY AgedInv
<1> HIDE DEF u
<1>2. SessionsOf(u) = SessionsOf(t)
    BY <1>1 DEF SessionsOf
<1>3. CompleteSessionsOf(u) = CompleteSessionsOf(t)
    BY <1>1 DEF CompleteSessionsOf
<1> QED
    BY <1>2, <1>3 DEF u

-----------------------------------------------------------------------------
\* Adding a session.

\* A session the table holds is refreshed in place.
LEMMA RefreshedInv ==
    ASSUME NEW t, TableInv(t), NEW i \in Live(t), NEW x \in Xids
    PROVE  /\ TableInv(Refreshed(t, i, x)) /\ Live(Refreshed(t, i, x)) = Live(t)
           /\ SessionsOf(Refreshed(t, i, x)) = SessionsOf(t)
           /\ CompleteSessionsOf(Refreshed(t, i, x)) = CompleteSessionsOf(t)
<1> DEFINE u == Refreshed(t, i, x)
<1>1. t \in Table /\ Live(t) \subseteq Slots /\ \A j \in Live(t) : t.entries[j] \in Entry
    BY LiveEntries DEF TableInv, WellCounted
<1>2. /\ u.count = t.count /\ u.all_complete = t.all_complete
      /\ u.entries = [t.entries EXCEPT ![i] = [@ EXCEPT !.seq_number = x, !.idle = 0]]
    BY <1>1 DEF Refreshed, Table
<1>3. \A j \in Live(t) :
        /\ u.entries[j] \in Entry
        /\ u.entries[j].mapper = t.entries[j].mapper
        /\ u.entries[j].generation = t.entries[j].generation
        /\ u.entries[j].complete = t.entries[j].complete
    <2> TAKE j \in Live(t)
    <2>1. CASE j = i
        <3>1. u.entries[i] = [t.entries[i] EXCEPT !.seq_number = x, !.idle = 0]
            BY <1>1, <1>2 DEF Table
        <3>2. 0 \in 0..SessionExpiry + 1
            BY SessionTableAssumption
        <3> HIDE DEF u
        <3> QED
            BY <1>1, <2>1, <3>1, <3>2 DEF Entry
    <2>2. CASE j # i
        BY <1>1, <1>2, <2>2 DEF Table
    <2> QED
        BY <2>1, <2>2
<1>4. \A j \in Slots \ Live(t) : u.entries[j] = Free
    BY <1>1, <1>2 DEF Live, Table
<1>5. Live(u) = Live(t)
    BY <1>1, <1>3, <1>4, SessionTableAssumption DEF Live
<1>6. u \in Table
    <2>1. u.entries \in [Slots -> Entry \cup {Free}]
        BY <1>1, <1>2, <1>3, <1>4 DEF Table
    <2> QED
        BY <1>1, <2>1 DEF Refreshed, Table
<1> HIDE DEF u
<1>7. CountsLive(u)
    BY <1>2, <1>5 DEF TableInv, WellCounted, CountsLive
<1>8. KeysUnique(u)
    BY <1>3, <1>5 DEF TableInv, WellCounted, KeysUnique
<1>9. StatusCurrent(u)
    BY <1>2, <1>3, <1>5 DEF TableInv, StatusCurrent
<1>10. SessionsOf(u) = SessionsOf(t) /\ CompleteSessionsOf(u) = CompleteSessionsOf(t)
    BY <1>3, <1>5 DEF SessionsOf, CompleteSessionsOf, KeyOf
<1> QED
    BY <1>5, <1>6, <1>7, <1>8, <1>9, <1>10 DEF TableInv, WellCounted, u

\* A new session takes a free slot and is incomplete.
LEMMA InsertedInv ==
    ASSUME NEW t, TableInv(t), NEW i \in Slots \ Live(t),
           NEW m \in Mappers, NEW g \in Generations, NEW x \in Xids, Matching(t, m, g) = {}
    PROVE  LET u == Inserted(t, i, m, g, x)
           IN  /\ TableInv(u) /\ Live(u) = Live(t) \cup {i}
               /\ SessionsOf(u) = SessionsOf(t) \cup {<<m, g>>}
               /\ CompleteSessionsOf(u) = CompleteSessionsOf(t)
<1> DEFINE u == Inserted(t, i, m, g, x)
           e == [mapper |-> m, generation |-> g, seq_number |-> x, complete |-> FALSE, idle |-> 0]
<1>1. t \in Table /\ Live(t) \subseteq Slots /\ \A j \in Live(t) : t.entries[j] \in Entry
    BY LiveEntries DEF TableInv, WellCounted
<1>2. /\ u.count = t.count + 1 /\ u.all_complete = FALSE
      /\ u.entries = [t.entries EXCEPT ![i] = e]
    BY DEF Inserted
<1>3. e \in Entry /\ e.complete = FALSE /\ e.mapper = m /\ e.generation = g /\ e # Free
    <2>1. 0 \in 0..SessionExpiry + 1
        BY SessionTableAssumption
    <2>2. e \in Entry
        BY <2>1 DEF Entry
    <2> QED
        BY <2>2, SessionTableAssumption
<1>4. u.entries[i] = e /\ \A j \in Slots \ {i} : u.entries[j] = t.entries[j]
    BY <1>1, <1>2 DEF Table
<1>5. Live(u) = Live(t) \cup {i}
    BY <1>1, <1>3, <1>4 DEF Live
<1>6. Cardinality(Live(u)) = Cardinality(Live(t)) + 1 /\ Cardinality(Live(u)) \in 0..MaxEntries
    <2>1. IsFiniteSet(Live(t)) /\ Live(u) \subseteq Slots
        BY <1>1, <1>5, SlotsFinite
    <2>2. Cardinality(Live(u)) = Cardinality(Live(t)) + 1
        BY <1>5, <2>1, FS_AddElement
    <2> QED
        BY <2>1, <2>2, SlotsFinite
<1>7. u \in Table
    <2>1. u.entries \in [Slots -> Entry \cup {Free}]
        BY <1>1, <1>2, <1>3 DEF Table
    <2>2. u.count \in 0..MaxEntries
        BY <1>2, <1>6 DEF TableInv, WellCounted, CountsLive
    <2> QED
        BY <2>1, <2>2 DEF Inserted, Table
<1> HIDE DEF u, e
<1>8. CountsLive(u)
    BY <1>2, <1>6 DEF TableInv, WellCounted, CountsLive
<1>9. \A j \in Live(t) : j # i /\ ~ (t.entries[j].mapper = m /\ t.entries[j].generation = g)
    BY DEF Matching
<1>10. KeysUnique(u)
    BY <1>1, <1>3, <1>4, <1>5, <1>9 DEF TableInv, WellCounted, KeysUnique
<1>11. StatusCurrent(u)
    BY <1>2, <1>3, <1>4, <1>5 DEF StatusCurrent
<1>12. KeyOf(u, i) = <<m, g>> /\ \A j \in Live(t) : KeyOf(u, j) = KeyOf(t, j)
    BY <1>1, <1>3, <1>4, <1>9 DEF KeyOf
<1>13. SessionsOf(u) = SessionsOf(t) \cup {<<m, g>>}
    BY <1>5, <1>12 DEF SessionsOf
<1>14. CompleteSessionsOf(u) = CompleteSessionsOf(t)
    BY <1>1, <1>3, <1>4, <1>5, <1>9, <1>12 DEF CompleteSessionsOf
<1> QED
    BY <1>5, <1>7, <1>8, <1>10, <1>11, <1>13, <1>14 DEF TableInv, WellCounted, u

\* session_table_add adds its session, unless the table is full without it.
LEMMA AddInv ==
    ASSUME NEW t, TableInv(t), NEW m \in Mappers, NEW g \in Generations, NEW x \in Xids
    PROVE  LET u == session_table_add(t, m, g, x)
           IN  /\ TableInv(u)
               /\ CompleteSessionsOf(u) = CompleteSessionsOf(t)
               /\ \/ u = t /\ Matching(t, m, g) = {}
                  \/ /\ SessionsOf(u) = SessionsOf(t) \cup {<<m, g>>}
                     /\ <<m, g>> \in SessionsOf(t) \/ Cardinality(SessionsOf(t)) < MaxEntries
<1> DEFINE u == session_table_add(t, m, g, x)
<1>1. Live(t) \subseteq Slots
    BY DEF Live
<1>2. CASE Matching(t, m, g) # {}
    <2> DEFINE i == LeastOf(Matching(t, m, g))
    <2>1. i \in Live(t)
        BY <1>1, <1>2, LeastOfIsMember DEF Matching
    <2>2. u = Refreshed(t, i, x)
        BY <1>2 DEF session_table_add
    <2>3. <<m, g>> \in SessionsOf(t)
        BY <1>2 DEF Matching, SessionsOf, KeyOf
    <2> HIDE DEF i
    <2> QED
        BY <2>1, <2>2, <2>3, RefreshedInv
<1>3. CASE Matching(t, m, g) = {} /\ Live(t) # Slots
    <2> DEFINE i == LeastOf(Slots \ Live(t))
    <2>1. i \in Slots \ Live(t)
        BY <1>1, <1>3, LeastOfIsMember
    <2>2. u = Inserted(t, i, m, g, x)
        BY <1>3 DEF session_table_add
    <2> HIDE DEF i
    <2> QED
        BY <1>3, <2>1, <2>2, InsertedInv, RoomLeft
<1>4. CASE Matching(t, m, g) = {} /\ Live(t) = Slots
    BY <1>4 DEF session_table_add
<1> QED
    BY <1>2, <1>3, <1>4
=============================================================================
