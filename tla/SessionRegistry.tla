--------------------------- MODULE SessionRegistry ---------------------------
(***************************************************************************)
(* What the session table promises its readers, without slots, ages or     *)
(* counters: a bounded set of sessions, some of them complete, and two     *)
(* answers that are never out of date.  A complete session stays complete  *)
(* until it leaves.                                                        *)
(***************************************************************************)
EXTENDS Integers, FiniteSets

CONSTANTS Sessions, Capacity

VARIABLES
    live,       \* the sessions held
    done,       \* those of them that are complete
    isEmpty,    \* the answer of session_table_is_empty
    allDone     \* the answer of session_table_all_complete

registryVars == <<live, done, isEmpty, allDone>>

RegistryInit == live = {} /\ done = {} /\ isEmpty = TRUE /\ allDone = TRUE

\* The two answers follow every change at once.
Answer == isEmpty' = (live' = {}) /\ allDone' = (done' = live')

\* A session is announced, or announced again; acked says the announcement
\* completes it.  The bound turns new sessions away, never known ones.
Join(s, acked) ==
    /\ s \in live \/ Cardinality(live) < Capacity
    /\ live' = live \cup {s}
    /\ done' = IF acked THEN done \cup {s} ELSE done
    /\ Answer

\* Some sessions end: expired, removed, or all of them by a reset.
Leave(gone) ==
    /\ live' = live \ gone
    /\ done' = done \ gone
    /\ Answer

RegistryNext ==
    \/ \E s \in Sessions, acked \in BOOLEAN : Join(s, acked)
    \/ \E gone \in SUBSET live : Leave(gone)

RegistrySpec == RegistryInit /\ [][RegistryNext]_registryVars
=============================================================================
