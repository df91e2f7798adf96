---------------------------- MODULE MappingEngine ----------------------------
(***************************************************************************)
(* The mapping engine of one interface: the mapping automaton with its     *)
(* extra state mapping_state (lltdResponder/lltdAutomata.c).  Time is in   *)
(* whole seconds, the resolution of every timestamp it keeps.              *)
(***************************************************************************)
EXTENDS Automata, Timers

CONSTANTS
    InactiveTimeout,   \* seconds without any frame that end a mapping (30)
    CtcModulus         \* the width of ctc (256: a uint8_t)

ASSUME MappingAssumption ==
    /\ InactiveTimeout \in Nat \ {0}
    /\ CtcModulus \in Nat \ {0}

ChargeTimeout == 1

MaxIdle == 1 + IF CommandTimeout > EmitTimeout THEN CommandTimeout ELSE EmitTimeout

VARIABLES
    mapping,    \* the mapping automaton
    inactive,   \* seconds left to inactive_timeout_ts
    ctc,        \* charge counter
    charge      \* seconds left to charge_timeout_ts

mappingVars == <<mapping, inactive, ctc, charge>>

MappingInit ==
    /\ mapping = [state |-> "Quiescent", idle |-> 0]
    /\ inactive = Off
    /\ ctc = 0
    /\ charge = Off

switch_state_mapping(input) ==
    mapping' = SwitchState(MappingTransitions, MappingTimeouts, mapping, input)

\* Mutant: ctc is an int.
MappingOnFrame_Unbounded(opcode) ==
    /\ switch_state_mapping(opcode)
    /\ inactive' = InactiveTimeout
    /\ IF opcode = opcode_charge
         THEN ctc' = ctc + 1 /\ charge' = ChargeTimeout
         ELSE UNCHANGED <<ctc, charge>>

\* What the receive loop does to the engine for a frame: a step of the
\* automaton, a fresh inactivity deadline, and one more charge for a Charge.
MappingOnFrame(opcode) ==
    /\ switch_state_mapping(opcode)
    /\ inactive' = InactiveTimeout
    /\ IF opcode = opcode_charge
         THEN ctc' = (ctc + 1) % CtcModulus /\ charge' = ChargeTimeout
         ELSE UNCHANGED <<ctc, charge>>

\* A step took the automaton to Quiescent: the loop then clears the table.
BecameQuiescent == mapping.state # "Quiescent" /\ mapping'.state = "Quiescent"

\* The engine's part of automata_tick.  When the inactivity deadline passes
\* the automaton times out and the charges are forgotten; the caller clears
\* the session table.
InactivityFired == Due(inactive)

\* Mutant: the charge timeout clears the inactivity deadline with its own.
MappingTick_ClearsBoth ==
    /\ IF InactivityFired THEN switch_state_mapping(Timeout) ELSE UNCHANGED mapping
    /\ IF InactivityFired \/ Due(charge)
         THEN inactive' = Off /\ ctc' = 0 /\ charge' = Off
         ELSE UNCHANGED <<inactive, ctc, charge>>

\* Mutant: the charge timeout keeps the charges.
MappingTick_KeepsCharges ==
    /\ IF InactivityFired
         THEN switch_state_mapping(Timeout) /\ inactive' = Off
         ELSE UNCHANGED <<mapping, inactive>>
    /\ ctc' = IF InactivityFired THEN 0 ELSE ctc
    /\ charge' = IF InactivityFired \/ Due(charge) THEN Off ELSE charge

\* Mutant: the inactivity timeout does not step the automaton.
MappingTick_NoStep ==
    /\ inactive' = IF InactivityFired THEN Off ELSE inactive
    /\ UNCHANGED mapping
    /\ IF InactivityFired \/ Due(charge)
         THEN ctc' = 0 /\ charge' = Off
         ELSE UNCHANGED <<ctc, charge>>

MappingTick ==
    /\ IF InactivityFired
         THEN switch_state_mapping(Timeout) /\ inactive' = Off
         ELSE UNCHANGED <<mapping, inactive>>
    /\ IF InactivityFired \/ Due(charge)
         THEN ctc' = 0 /\ charge' = Off
         ELSE UNCHANGED <<ctc, charge>>

MappingSecondPasses ==
    /\ mapping' = Idle(mapping, MaxIdle)
    /\ inactive' = CountDown(inactive)
    /\ charge' = CountDown(charge)
    /\ UNCHANGED ctc

MappingNext ==
    \/ \E opcode \in Opcodes : MappingOnFrame(opcode)
    \/ MappingTick
    \/ MappingSecondPasses

MappingSpec == MappingInit /\ [][MappingNext]_mappingVars

-----------------------------------------------------------------------------
MappingTypeOK ==
    /\ mapping \in [state : MappingStates, idle : 0..MaxIdle]
    /\ inactive \in Armed(InactiveTimeout)
    /\ ctc \in 0..CtcModulus - 1
    /\ charge \in Armed(ChargeTimeout)

\* A mapping that has begun has an inactivity deadline: nothing but a frame
\* or that deadline ends it, so without one it would be held for ever when
\* its mapper goes silent.
NeverStranded == mapping.state # "Quiescent" => inactive # Off

\* Charges are counted only while the deadline that forgets them is armed.
ChargesExpire == ctc # 0 => charge # Off
=============================================================================
