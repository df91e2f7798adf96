---------------------------- MODULE SessionTable ----------------------------
(***************************************************************************)
(* The session table of lltdResponder/lltdAutomata.c: a fixed array of     *)
(* slots, each free or holding one mapper session, with two cached         *)
(* summaries, count and all_complete, that the enumeration engine reads    *)
(* instead of the slots.                                                   *)
(*                                                                         *)
(* A table is a record; every operator below is one function of the        *)
(* source, from the table before to the table after.  The ages of the      *)
(* entries are kept instead of last_activity_ts: idle is the whole seconds *)
(* since then, up to SessionExpiry + 1, beyond which all ages expire.      *)
(***************************************************************************)
EXTENDS Integers, FiniteSets

CONSTANTS
    Mappers,         \* mapper MAC addresses
    Generations,     \* generation numbers carried by Discover frames
    Xids,            \* sequence numbers carried by Discover frames
    MaxEntries,      \* SESSION_TABLE_MAX_ENTRIES (16)
    SessionExpiry,   \* seconds without a Discover before an entry is dropped (60)
    Free             \* what an invalid slot holds

Slots == 1..MaxEntries

Entry == [mapper : Mappers, generation : Generations, seq_number : Xids,
          complete : BOOLEAN, idle : 0..SessionExpiry + 1]

ASSUME SessionTableAssumption ==
    /\ MaxEntries \in 1..255      \* count is a uint8_t
    /\ SessionExpiry \in Nat
    /\ Free \notin Entry

Table == [entries : [Slots -> Entry \cup {Free}], count : 0..MaxEntries,
          all_complete : BOOLEAN]

-----------------------------------------------------------------------------
Live(t) == {i \in Slots : t.entries[i] # Free}

LeastOf(S) == CHOOSE i \in S : \A j \in S : i <= j

\* session_table_find compares the mapper and the generation, never the xid.
Matching(t, m, g) ==
    {i \in Live(t) : t.entries[i].mapper = m /\ t.entries[i].generation = g}

EmptyTable == [entries |-> [i \in Slots |-> Free], count |-> 0, all_complete |-> TRUE]

\* Mutant: a session announced again starts over.
Refreshed_StartsOver(t, i, x) ==
    [t EXCEPT !.entries[i] = [@ EXCEPT !.seq_number = x, !.idle = 0, !.complete = FALSE]]

\* session_table_add of a session the table holds.
Refreshed(t, i, x) ==
    [t EXCEPT !.entries[i] = [@ EXCEPT !.seq_number = x, !.idle = 0]]

\* session_table_add of a new session, into slot i.
Inserted(t, i, m, g, x) ==
    [entries      |-> [t.entries EXCEPT ![i] =
                          [mapper |-> m, generation |-> g, seq_number |-> x,
                           complete |-> FALSE, idle |-> 0]],
     count        |-> t.count + 1,
     all_complete |-> FALSE]

\* A full table ignores a new session.
session_table_add(t, m, g, x) ==
    IF Matching(t, m, g) # {} THEN Refreshed(t, LeastOf(Matching(t, m, g)), x)
    ELSE IF Live(t) # Slots THEN Inserted(t, LeastOf(Slots \ Live(t)), m, g, x)
    ELSE t

session_table_update_complete_status(t) ==
    [t EXCEPT !.all_complete = \A i \in Live(t) : t.entries[i].complete]

\* Mutant: count is not taken down.
Dropped_KeepsCount(t, gone) ==
    session_table_update_complete_status(
        [t EXCEPT !.entries = [i \in Slots |-> IF i \in gone THEN Free ELSE t.entries[i]]])

\* Mutant: all_complete is not recomputed.
Dropped_KeepsStatus(t, gone) ==
    [t EXCEPT !.entries = [i \in Slots |-> IF i \in gone THEN Free ELSE t.entries[i]],
              !.count   = IF @ > Cardinality(gone) THEN @ - Cardinality(gone) ELSE 0]

\* Entries leave one by one, each taking one off count while it is positive.
Dropped(t, gone) ==
    session_table_update_complete_status(
        [t EXCEPT !.entries = [i \in Slots |-> IF i \in gone THEN Free ELSE t.entries[i]],
                  !.count   = IF @ > Cardinality(gone) THEN @ - Cardinality(gone) ELSE 0])

\* The first match leaves, if there is one.
session_table_remove(t, m, g) ==
    Dropped(t, IF Matching(t, m, g) = {} THEN {} ELSE {LeastOf(Matching(t, m, g))})

\* The sweep of automata_tick.
Expired(t) == {i \in Live(t) : t.entries[i].idle > SessionExpiry}

SweepExpired(t) == Dropped(t, Expired(t))

\* Mutant: every session of the mapper is completed.
Completed_AnyGeneration(t, m, g) ==
    [t EXCEPT !.entries = [i \in Slots |->
        IF i \in Live(t) /\ t.entries[i].mapper = m
          THEN [t.entries[i] EXCEPT !.complete = TRUE] ELSE t.entries[i]]]

\* What a receive loop does with the entry an acking Discover has just added.
Completed(t, m, g) ==
    [t EXCEPT !.entries = [i \in Slots |->
        IF i \in Matching(t, m, g) THEN [t.entries[i] EXCEPT !.complete = TRUE]
                                   ELSE t.entries[i]]]

\* A second passes for every entry.
Aged(t) ==
    [t EXCEPT !.entries = [i \in Slots |->
        IF t.entries[i] = Free THEN Free
        ELSE [t.entries[i] EXCEPT !.idle = IF @ <= SessionExpiry THEN @ + 1 ELSE @]]]

session_table_is_empty(t) == t.count = 0

session_table_all_complete(t) == t.all_complete

-----------------------------------------------------------------------------
(* What a table must satisfy between two operations.                       *)

\* count is the number of valid slots: session_table_is_empty reads only count.
CountsLive(t) == t.count = Cardinality(Live(t))

\* A mapper and a generation name at most one slot, so that the first match
\* session_table_find returns is the only one.
KeysUnique(t) ==
    \A i, j \in Live(t) :
        /\ t.entries[i].mapper = t.entries[j].mapper
        /\ t.entries[i].generation = t.entries[j].generation
        => i = j

\* all_complete is what a scan of the slots would answer.
StatusCurrent(t) == t.all_complete <=> \A i \in Live(t) : t.entries[i].complete

TableConsistent(t) == CountsLive(t) /\ KeysUnique(t) /\ StatusCurrent(t)

\* The sessions of a table, and those that are complete.
Keys == Mappers \X Generations

KeyOf(t, i) == <<t.entries[i].mapper, t.entries[i].generation>>

SessionsOf(t) == {KeyOf(t, i) : i \in Live(t)}

CompleteSessionsOf(t) == {KeyOf(t, i) : i \in {j \in Live(t) : t.entries[j].complete}}
=============================================================================
