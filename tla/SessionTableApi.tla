--------------------------- MODULE SessionTableApi ---------------------------
(***************************************************************************)
(* The session table under a client that calls its operations one at a     *)
(* time and in any order, with time passing between calls.  The daemons    *)
(* use a subset of these behaviours (module ResponderLoop);                *)
(* session_table_remove is exported but called by none of them.            *)
(***************************************************************************)
EXTENDS SessionTable

VARIABLE table

Init == table = EmptyTable

Add(m, g, x) == table' = session_table_add(table, m, g, x)

\* The client sets complete on an entry and has the summary recomputed.
MarkComplete(m, g) ==
    /\ Matching(table, m, g) # {}
    /\ table' = session_table_update_complete_status(Completed(table, m, g))

Remove(m, g) == table' = session_table_remove(table, m, g)

Sweep == table' = SweepExpired(table)

Clear == table' = EmptyTable

SecondPasses == table' = Aged(table)

Next ==
    \/ \E m \in Mappers, g \in Generations :
          \/ \E x \in Xids : Add(m, g, x)
          \/ MarkComplete(m, g)
          \/ Remove(m, g)
    \/ Sweep
    \/ Clear
    \/ SecondPasses

Spec == Init /\ [][Next]_table

-----------------------------------------------------------------------------
\* The table keeps its shape: every slot free or a session, count in range.
TypeOK == table \in Table

\* Between two calls the cached count and all_complete agree with the slots,
\* and no two slots hold the same session.
Consistent == TableConsistent(table)

\* The table implements the registry: its readers see a bounded set of
\* sessions through two answers that are current after every call, a complete
\* session stays complete, and a full table turns away only new sessions.
Registry == INSTANCE SessionRegistry WITH
                Sessions <- Keys,
                Capacity <- MaxEntries,
                live     <- SessionsOf(table),
                done     <- CompleteSessionsOf(table),
                isEmpty  <- session_table_is_empty(table),
                allDone  <- session_table_all_complete(table)

ImplementsRegistry == Registry!RegistrySpec
=============================================================================
