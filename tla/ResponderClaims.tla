--------------------------- MODULE ResponderClaims ---------------------------
(***************************************************************************)
(* What the repository's documents say of the listener thread and its     *)
(* code does not do, refuted by a run.                                     *)
(***************************************************************************)
EXTENDS ResponderLoop

\* Documentation/automata_runtime.md:177, on Hello timeout: "Call
\* sendHelloMessage() - transmit Hello frame".  The block timeout chooses a
\* new Hello time every 300 ms, and two Hellos heard in a block put it 480 ms
\* ahead: while the block is that busy the Hello timeout never comes.
HelloNeverStarves == []<>(enumeration # "Pausing") \/ []<><<HelloSent>>_vars
=============================================================================
