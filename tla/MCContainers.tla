----------------------------- MODULE MCContainers -----------------------------
(***************************************************************************)
(* Model for TLC of the two containers of the core library, apart from     *)
(* what uses them: the session table of an interface, which its listener   *)
(* alone calls (SessionTableApi), and the list in which the listeners of   *)
(* all interfaces find the state of theirs (IfaceStates).  The two share   *)
(* nothing, so a behaviour is one of either, while the other stays as it   *)
(* was created.                                                            *)
(***************************************************************************)
EXTENDS SessionTableApi, IfaceStates

VARIABLE subject

MCInit == subject \in {"table", "list"} /\ Init /\ ListInit

MCNext ==
    \/ subject = "table" /\ Next /\ UNCHANGED <<vars, subject>>
    \/ subject = "list" /\ ListNext /\ UNCHANGED <<table, subject>>

MCSpec == MCInit /\ [][MCNext]_<<table, vars, subject>> /\ Fairness
===============================================================================
