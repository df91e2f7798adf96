--------------------------- MODULE GenerationClaim ---------------------------
(***************************************************************************)
(* What a test of the repository says of the generations in Hellos and the *)
(* code does not do, refuted by a run.  tests/pcap_regression.py keeps,    *)
(* for each mapper, the generation of the last Discover in a capture, and  *)
(* so does the history variable heard; the listener thread does not read   *)
(* it.                                                                     *)
(***************************************************************************)
EXTENDS ResponderLoop

VARIABLE heard    \* the generation of a mapper's last Discover

Unheard == 0

ClaimInit == Init /\ heard = [m \in Mappers |-> Unheard]

\* heard follows the Discovers a step of the loop receives and no other step.
Hears ==
    \/ \E m \in Mappers, g \in Generations, x \in Xids, acking \in BOOLEAN, tos \in ToSs :
          RxDiscover(m, g, x, acking, tos) /\ heard' = [heard EXCEPT ![m] = g]
    \/ /\ \/ \E broadcast \in BOOLEAN : RxReset(broadcast)
          \/ RxHello
          \/ \E opcode \in PlainOpcodes \cup {opcode_charge} : RxOther(opcode)
          \/ Tick
          \/ UnitPasses
       /\ UNCHANGED heard

ClaimSpec == ClaimInit /\ [][Hears]_<<vars, heard>>

\* tests/pcap_regression.py:85: a Hello carries the generation of the last
\* Discover of the mapper it names; anything else is a "Hello generation
\* mismatch".  A quick Discover replaces the mapper and leaves the generation
\* periodic Hellos carry.
HelloGenerationMatches ==
    [][HelloSent /\ heard[hello.mapper] # Unheard
          => hello.topology = heard[hello.mapper]]_<<vars, heard>>
=============================================================================
