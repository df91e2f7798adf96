----------------------------- MODULE MCLltdBlock -----------------------------
(***************************************************************************)
(* Two stations on the wire, and one of them also reaches the interface    *)
(* through the other, a bridge.                                            *)
(***************************************************************************)
EXTENDS LltdBlock

CONSTANTS a, b

DirectPaths == {[eth |-> a, real |-> a], [eth |-> b, real |-> b]}

BridgedPaths == DirectPaths \cup {[eth |-> a, real |-> b]}
=============================================================================
