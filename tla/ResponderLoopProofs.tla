------------------------- MODULE ResponderLoopProofs -------------------------
(***************************************************************************)
(* The safety of the listener thread and of the engines it drives, for any *)
(* number of mappers, generations and slots, any timeouts and any unit of  *)
(* time.                                                                   *)
(*                                                                         *)
(* First what the tables of the automata are; then the mapping engine and  *)
(* the enumeration engine by themselves, whose invariants are inductive    *)
(* whatever their environment does.  These are taken over, since every     *)
(* step of the loop is a step or a stutter of each engine; the invariant   *)
(* of the table comes from the lemmas about its operations.  What is       *)
(* proved last is how they are tied together.                              *)
(***************************************************************************)
EXTENDS ResponderLoop, SessionTableTheorems

-----------------------------------------------------------------------------
(* The tables of the automata, and reading them.                           *)

\* A table that leads only to states never leaves them.
LEMMA TargetIsState ==
    ASSUME NEW States, NEW transitions \in SUBSET (States \X Int \X States),
           NEW s \in States, NEW input
    PROVE  Target(transitions, s, input) \in States
<1> DEFINE rows == {row \in transitions : row[1] = s /\ row[2] = input}
<1>1. CASE rows = {}
    BY <1>1 DEF Target
<1>2. CASE rows # {}
    <2>1. (CHOOSE row \in rows : TRUE) \in rows
        BY <1>2
    <2>2. Target(transitions, s, input) = (CHOOSE row \in rows : TRUE)[3]
        BY <1>2 DEF Target
    <2> QED
        BY <2>1, <2>2
<1> QED
    BY <1>1, <1>2

\* A table leads where its rows say, when no two rows disagree.
Deterministic(transitions) ==
    \A p, q \in transitions : p[1] = q[1] /\ p[2] = q[2] => p[3] = q[3]

LEMMA TargetOfRow ==
    ASSUME NEW transitions, Deterministic(transitions)
    PROVE  \A row \in transitions : Target(transitions, row[1], row[2]) = row[3]
<1> TAKE row \in transitions
<1> DEFINE rows == {other \in transitions : other[1] = row[1] /\ other[2] = row[2]}
<1>1. row \in rows
    OBVIOUS
<1>2. (CHOOSE other \in rows : TRUE) \in rows
    BY <1>1
<1>3. Target(transitions, row[1], row[2]) = (CHOOSE other \in rows : TRUE)[3]
    BY <1>1 DEF Target
<1> QED
    BY <1>2, <1>3 DEF Deterministic

\* An input without a row is ignored.
LEMMA TargetWithoutRow ==
    ASSUME NEW transitions, NEW s, NEW input,
           \A row \in transitions : ~ (row[1] = s /\ row[2] = input)
    PROVE  Target(transitions, s, input) = s
    BY DEF Target

LEMMA MappingTable ==
    /\ MappingTransitions \in SUBSET (MappingStates \X Int \X MappingStates)
    /\ \A s \in MappingStates : Target(MappingTransitions, s, Timeout) = "Quiescent"
    /\ Target(MappingTransitions, "Quiescent", opcode_discover) = "Command"
<1> USE DEF opcode_discover, opcode_emit, opcode_probe, opcode_query, opcode_reset,
            opcode_charge, opcode_queryLargeTlv, Timeout
<1>1. MappingTransitions \in SUBSET (MappingStates \X Int \X MappingStates)
    BY DEF MappingTransitions, MappingStates
<1>2. Deterministic(MappingTransitions)
    BY DEF Deterministic, MappingTransitions
<1>3. /\ <<"Quiescent", opcode_discover, "Command">> \in MappingTransitions
      /\ <<"Command", Timeout, "Quiescent">> \in MappingTransitions
      /\ <<"Emit", Timeout, "Quiescent">> \in MappingTransitions
    BY DEF MappingTransitions
<1>4. \A row \in MappingTransitions : ~ (row[1] = "Quiescent" /\ row[2] = Timeout)
    BY DEF MappingTransitions
<1>5. Target(MappingTransitions, "Quiescent", Timeout) = "Quiescent"
    BY <1>4, TargetWithoutRow
<1>6. \A row \in MappingTransitions : Target(MappingTransitions, row[1], row[2]) = row[3]
    BY <1>2, TargetOfRow
<1> QED
    BY <1>1, <1>3, <1>5, <1>6 DEF MappingStates

LEMMA SessionTransitionsTyped ==
    SessionTransitions \in SUBSET (SessionStates \X Int \X SessionStates)
    BY DEF SessionTransitions, SessionStates, sess_discover_conflicting, sess_reset, sess_hello,
       sess_topo_reset, sess_discover_noack, sess_discover_noack_chgd_xid, sess_discover_acking,
       sess_discover_acking_chgd_xid, opcode_reset, Timeout

LEMMA EnumerationTable ==
    /\ EnumerationTransitions \in SUBSET (EnumerationStates \X Int \X EnumerationStates)
    /\ \A s \in EnumerationStates : Target(EnumerationTransitions, s, enum_new_session) = "Pausing"
    /\ Target(EnumerationTransitions, "Quiescent", enum_hello) = "Quiescent"
    /\ Target(EnumerationTransitions, "Pausing", enum_sess_complete) = "Wait"
    /\ Target(EnumerationTransitions, "Wait", enum_sess_complete) = "Quiescent"
    /\ Target(EnumerationTransitions, "Pausing", enum_sess_not_complete) = "Pausing"
    /\ Target(EnumerationTransitions, "Wait", enum_sess_not_complete) = "Pausing"
<1> USE DEF enum_sess_complete, enum_sess_not_complete, enum_hello, enum_new_session
<1>1. EnumerationTransitions \in SUBSET (EnumerationStates \X Int \X EnumerationStates)
    BY DEF EnumerationTransitions, EnumerationStates
<1>2. Deterministic(EnumerationTransitions)
    BY DEF Deterministic, EnumerationTransitions
<1>3. /\ <<"Quiescent", enum_new_session, "Pausing">> \in EnumerationTransitions
      /\ <<"Pausing", enum_new_session, "Pausing">> \in EnumerationTransitions
      /\ <<"Wait", enum_new_session, "Pausing">> \in EnumerationTransitions
      /\ <<"Pausing", enum_sess_complete, "Wait">> \in EnumerationTransitions
      /\ <<"Wait", enum_sess_complete, "Quiescent">> \in EnumerationTransitions
      /\ <<"Wait", enum_sess_not_complete, "Pausing">> \in EnumerationTransitions
    BY DEF EnumerationTransitions
<1>4. \A row \in EnumerationTransitions :
        /\ ~ (row[1] = "Quiescent" /\ row[2] = enum_hello)
        /\ ~ (row[1] = "Pausing" /\ row[2] = enum_sess_not_complete)
    BY DEF EnumerationTransitions
<1>5. /\ Target(EnumerationTransitions, "Quiescent", enum_hello) = "Quiescent"
      /\ Target(EnumerationTransitions, "Pausing", enum_sess_not_complete) = "Pausing"
    BY <1>4, TargetWithoutRow
<1>6. \A row \in EnumerationTransitions :
        Target(EnumerationTransitions, row[1], row[2]) = row[3]
    BY <1>2, TargetOfRow
<1> QED
    BY <1>1, <1>3, <1>5, <1>6 DEF EnumerationStates

\* A step of a timed automaton ends in a state of its table.
LEMMA SwitchStateTyped ==
    ASSUME NEW States, NEW transitions \in SUBSET (States \X Int \X States),
           NEW timeouts, NEW fsm, fsm.state \in States, NEW input
    PROVE  /\ SwitchState(transitions, timeouts, fsm, input).state \in States
           /\ SwitchState(transitions, timeouts, fsm, input).idle = 0
<1>1. \A s \in States : \A i : Target(transitions, s, i) \in States
    BY TargetIsState
<1> QED
    BY <1>1 DEF SwitchState

\* A deadline stays armed as it counts down, and stays within its limit.
LEMMA CountDownArmed ==
    ASSUME NEW limit \in Nat, NEW left \in Armed(limit)
    PROVE  /\ CountDown(left) \in Armed(limit)
           /\ CountDown(left) = Off <=> left = Off
    BY DEF Armed, CountDown, Off

-----------------------------------------------------------------------------
(* The mapping engine.                                                     *)

MappingInv == MappingTypeOK /\ NeverStranded /\ ChargesExpire

LEMMA MaxIdleIsNat == MaxIdle \in Nat /\ CommandTimeout < MaxIdle /\ EmitTimeout < MaxIdle
    BY TimeoutAssumption DEF MaxIdle

LEMMA MappingStepTyped ==
    ASSUME MappingTypeOK, NEW input
    PROVE  SwitchState(MappingTransitions, MappingTimeouts, mapping, input)
              \in [state : MappingStates, idle : 0..MaxIdle]
<1> DEFINE next == SwitchState(MappingTransitions, MappingTimeouts, mapping, input)
<1>1. mapping.state \in MappingStates
    BY DEF MappingTypeOK
<1>2. next.state \in MappingStates /\ next.idle = 0
    BY <1>1, MappingTable, SwitchStateTyped
<1>3. next = [state |-> next.state, idle |-> next.idle]
    BY DEF SwitchState
<1>4. 0 \in 0..MaxIdle
    BY MaxIdleIsNat
<1> HIDE DEF next
<1>5. next \in [state : MappingStates, idle : 0..MaxIdle]
    BY <1>2, <1>3, <1>4
<1> QED
    BY <1>5 DEF next

\* A timeout takes every state to Quiescent, whether the state has idled past
\* its own timeout or not.
LEMMA TimeoutEndsMapping ==
    ASSUME MappingTypeOK
    PROVE  SwitchState(MappingTransitions, MappingTimeouts, mapping, Timeout).state
              = "Quiescent"
<1>1. mapping.state \in MappingStates /\ "Quiescent" \in MappingStates
    BY DEF MappingTypeOK, MappingStates
<1> QED
    BY <1>1, MappingTable DEF SwitchState

LEMMA MappingFramePreserves ==
    ASSUME MappingInv, NEW opcode, MappingOnFrame(opcode)
    PROVE  MappingInv'
<1>1. mapping' \in [state : MappingStates, idle : 0..MaxIdle]
    BY MappingStepTyped DEF MappingInv, MappingOnFrame, switch_state_mapping
<1>2. inactive' \in Armed(InactiveTimeout) /\ inactive' # Off
    BY MappingAssumption DEF MappingOnFrame, Armed, Off
<1>3. ctc' \in 0..CtcModulus - 1 /\ charge' \in Armed(ChargeTimeout)
      /\ (ctc' # 0 => charge' # Off)
    BY MappingAssumption DEF MappingInv, MappingTypeOK, ChargesExpire, MappingOnFrame,
       Armed, Off, ChargeTimeout
<1> QED
    BY <1>1, <1>2, <1>3 DEF MappingInv, MappingTypeOK, NeverStranded, ChargesExpire

LEMMA MappingTickPreserves ==
    ASSUME MappingInv, MappingTick
    PROVE  MappingInv'
<1>1. mapping' \in [state : MappingStates, idle : 0..MaxIdle]
    BY MappingStepTyped DEF MappingInv, MappingTypeOK, MappingTick, switch_state_mapping
<1>2. inactive' \in Armed(InactiveTimeout)
    BY DEF MappingInv, MappingTypeOK, MappingTick, Armed
<1>3. ctc' \in 0..CtcModulus - 1 /\ charge' \in Armed(ChargeTimeout)
      /\ (ctc' # 0 => charge' # Off)
    BY MappingAssumption DEF MappingInv, MappingTypeOK, ChargesExpire, MappingTick, Armed, Off
<1>4. mapping'.state # "Quiescent" => inactive' # Off
    <2>1. CASE InactivityFired
        BY <2>1, TimeoutEndsMapping DEF MappingInv, MappingTick, switch_state_mapping
    <2>2. CASE ~InactivityFired
        BY <2>2 DEF MappingInv, NeverStranded, MappingTick
    <2> QED
        BY <2>1, <2>2
<1> QED
    BY <1>1, <1>2, <1>3, <1>4 DEF MappingInv, MappingTypeOK, NeverStranded, ChargesExpire

LEMMA MappingSecondPreserves ==
    ASSUME MappingInv, MappingSecondPasses
    PROVE  MappingInv'
<1>1. mapping' \in [state : MappingStates, idle : 0..MaxIdle]
      /\ mapping'.state = mapping.state
    BY MaxIdleIsNat DEF MappingInv, MappingTypeOK, MappingSecondPasses, Idle
<1>2. inactive' \in Armed(InactiveTimeout) /\ (inactive' = Off <=> inactive = Off)
    BY MappingAssumption, CountDownArmed DEF MappingInv, MappingTypeOK, MappingSecondPasses
<1>3. charge' \in Armed(ChargeTimeout) /\ (charge' = Off <=> charge = Off)
    BY CountDownArmed DEF MappingInv, MappingTypeOK, MappingSecondPasses, ChargeTimeout
<1>4. ctc' = ctc
    BY DEF MappingSecondPasses
<1> QED
    BY <1>1, <1>2, <1>3, <1>4 DEF MappingInv, MappingTypeOK, NeverStranded, ChargesExpire

LEMMA MappingInductive ==
    /\ MappingInit => MappingInv
    /\ MappingInv /\ [MappingNext]_mappingVars => MappingInv'
<1>1. MappingInit => MappingInv
    BY MaxIdleIsNat, MappingAssumption
    DEF MappingInit, MappingInv, MappingTypeOK, NeverStranded, ChargesExpire, MappingStates,
        Armed, Off
<1>2. ASSUME MappingInv, [MappingNext]_mappingVars
      PROVE  MappingInv'
    <2>1. CASE \E opcode \in Opcodes : MappingOnFrame(opcode)
        BY <1>2, <2>1, MappingFramePreserves
    <2>2. CASE MappingTick
        BY <1>2, <2>2, MappingTickPreserves
    <2>3. CASE MappingSecondPasses
        BY <1>2, <2>3, MappingSecondPreserves
    <2>4. CASE UNCHANGED mappingVars
        BY <1>2, <2>4 DEF mappingVars, MappingInv, MappingTypeOK, NeverStranded, ChargesExpire
    <2> QED
        BY <1>2, <2>1, <2>2, <2>3, <2>4 DEF MappingNext
<1> QED
    BY <1>1, <1>2

\* The engine keeps its types: in particular ctc stays in the width of a
\* uint8_t however many Charges arrive (mapping_on_charge).
THEOREM MappingTypeCorrect == MappingSpec => []MappingTypeOK
<1>1. MappingInv => MappingTypeOK
    BY DEF MappingInv
<1> QED
    BY <1>1, MappingInductive, PTL DEF MappingSpec

\* Whatever frames and ticks do, a mapping that has begun can still be ended
\* by silence (mapping_check_inactive_timeout in automata_tick).
THEOREM MappingNeverStranded == MappingSpec => []NeverStranded
<1>1. MappingInv => NeverStranded
    BY DEF MappingInv
<1> QED
    BY <1>1, MappingInductive, PTL DEF MappingSpec

\* Charges that are counted will be forgotten (mapping_check_charge_timeout).
THEOREM MappingChargesExpire == MappingSpec => []ChargesExpire
<1>1. MappingInv => ChargesExpire
    BY DEF MappingInv
<1> QED
    BY <1>1, MappingInductive, PTL DEF MappingSpec

-----------------------------------------------------------------------------
(* The enumeration engine, whatever the session table answers.             *)

BandInv == BandTypeOK /\ DeadlinesArmed /\ EstimateWaitsForBegin

(* Arithmetic: the delays are natural numbers, the estimate is in range.   *)

LEMMA CeilDivNat ==
    ASSUME NEW a \in Nat, NEW b \in Nat \ {0}
    PROVE  CeilDiv(a, b) \in Nat
<1>1. a + b - 1 \in Nat
    OBVIOUS
<1>2. \A n \in Nat : n \div b \in Nat
    OBVIOUS
<1> QED
    BY <1>1, <1>2 DEF CeilDiv

LEMMA UnitsNat == \A ms \in Nat : Units(ms) \in Nat
    BY CeilDivNat, BandAssumption DEF Units

LEMMA BlockTimeNat == BlockTime \in Nat /\ HelloMin \in Nat
    BY UnitsNat DEF BlockTime, HelloMin, BAND_BLOCK_TIME, HELLO_MIN_INTERVAL_MS

LEMMA HelloIntervalNat == \A Ni \in Nat : HelloInterval(Ni) \in Nat
<1> TAKE Ni \in Nat
<1> DEFINE load == CeilDiv(BAND_TXC * Ni * 20, BAND_GAMMA * 3)
<1>1. load \in Nat
    <2>1. BAND_TXC * Ni * 20 \in Nat /\ BAND_GAMMA * 3 \in Nat \ {0}
        BY DEF BAND_TXC, BAND_GAMMA
    <2> HIDE DEF load
    <2> QED
        BY <2>1, CeilDivNat DEF load
<1>2. HelloInterval(Ni) = Units(Larger(load, BAND_MUL_FRAME_1))
    BY DEF HelloInterval
<1> HIDE DEF load
<1>3. Larger(load, BAND_MUL_FRAME_1) \in Nat
    BY <1>1 DEF Larger, BAND_MUL_FRAME_1
<1> QED
    BY <1>2, <1>3, UnitsNat

LEMMA NextNiInRange ==
    ASSUME NEW b, b.Ni \in 1..BAND_NMAX, b.r \in Nat
    PROVE  NextNi(b) \in 1..BAND_NMAX
<1>1. CASE b.r > 0 /\ b.begun
    <2>1. b.r * b.r \in Nat \ {0}
        BY <1>1
    <2> DEFINE square == b.r * b.r
    <2>2. BAND_ALPHA * b.r * b.r = BAND_ALPHA * square
        BY DEF BAND_ALPHA
    <2> HIDE DEF square
    <2>3. BAND_ALPHA * square \in Nat \ {0}
        BY <2>1 DEF BAND_ALPHA, square
    <2>4. NextNi(b) = Smaller(BAND_NMAX, BAND_ALPHA * square)
        BY <1>1, <2>2 DEF NextNi
    <2>5. \A n \in Nat \ {0} : Smaller(BAND_NMAX, n) \in 1..BAND_NMAX
        <3>1. BAND_NMAX \in Nat \ {0}
            BY DEF BAND_NMAX
        <3>2. ASSUME NEW n \in Nat \ {0}
              PROVE  Smaller(BAND_NMAX, n) \in Nat /\ 1 <= Smaller(BAND_NMAX, n)
                     /\ Smaller(BAND_NMAX, n) <= BAND_NMAX
            BY ONLY <3>1, n \in Nat \ {0} DEF Smaller
        <3> QED
            BY ONLY <3>1, <3>2
    <2> QED
        BY <2>3, <2>4, <2>5
<1>2. CASE ~(b.r > 0 /\ b.begun)
    BY <1>2 DEF NextNi
<1> QED
    BY <1>1, <1>2

-----------------------------------------------------------------------------
(* The handlers.                                                           *)

LEMMA DiscoverPreservesBand ==
    ASSUME BandInv, BandOnDiscover
    PROVE  BandInv'
<1>1. enumeration' = "Pausing" /\ "Pausing" \in EnumerationStates
    BY EnumerationTable DEF BandInv, BandTypeOK, BandOnDiscover, EnumerationStates
<1>2. sinceTx' = sinceTx
    BY DEF BandOnDiscover
<1>3. CASE enumeration = "Quiescent"
    <2>1. HelloInterval(BAND_ALPHA) \in Nat
        BY HelloIntervalNat DEF BAND_ALPHA
    <2>2. band' = [Ni |-> BAND_ALPHA, r |-> 0, begun |-> FALSE,
                   hello |-> HelloInterval(BAND_ALPHA), block |-> BlockTime]
        BY <1>3 DEF BandOnDiscover
    <2>3. /\ BAND_ALPHA \in 1..BAND_NMAX /\ 0 \in 0..MaxR
          /\ BlockTime \in Armed(BlockTime) /\ BlockTime # Off
          /\ HelloInterval(BAND_ALPHA) # Off
        BY <2>1, BlockTimeNat, BandAssumption DEF BAND_ALPHA, BAND_NMAX, Armed, Off
    <2> QED
        BY <1>1, <1>2, <2>1, <2>2, <2>3
        DEF BandInv, BandTypeOK, DeadlinesArmed, EstimateWaitsForBegin
<1>4. CASE enumeration # "Quiescent"
    <2>1. band' = [band EXCEPT !.begun = TRUE]
        BY <1>4 DEF BandOnDiscover
    <2> QED
        BY <1>1, <1>2, <1>4, <2>1
        DEF BandInv, BandTypeOK, DeadlinesArmed, EstimateWaitsForBegin
<1> QED
    BY <1>3, <1>4

LEMMA HelloPreservesBand ==
    ASSUME BandInv, BandOnHello
    PROVE  BandInv'
<1> DEFINE heard == Smaller(band.r + 1, MaxR)
<1>1. heard \in 0..MaxR
    BY BandAssumption DEF BandInv, BandTypeOK, Smaller
<1>2. band' = [band EXCEPT !.r = heard, !.begun = @ \/ heard >= BAND_GAMMA]
    BY DEF BandOnHello
<1> HIDE DEF heard
<1>3. enumeration' \in EnumerationStates
    BY EnumerationTable, TargetIsState DEF BandInv, BandTypeOK, BandOnHello
<1>4. enumeration' # "Quiescent" => enumeration # "Quiescent"
    BY EnumerationTable DEF BandOnHello
<1>5. BandTypeOK'
    BY <1>1, <1>2, <1>3 DEF BandInv, BandTypeOK, BandOnHello
<1> QED
    BY <1>2, <1>4, <1>5 DEF BandInv, BandTypeOK, DeadlinesArmed, EstimateWaitsForBegin

LEMMA UnitPreservesBand ==
    ASSUME BandInv, BandUnitPasses
    PROVE  BandInv'
<1>1. /\ band.hello \in Nat \cup {Off} /\ band.block \in Armed(BlockTime)
      /\ band \in [Ni : 1..BAND_NMAX, r : 0..MaxR, begun : BOOLEAN,
                   hello : Nat \cup {Off}, block : Armed(BlockTime)]
    BY DEF BandInv, BandTypeOK
<1>2. CountDown(band.block) \in Armed(BlockTime)
      /\ (CountDown(band.block) = Off <=> band.block = Off)
    BY <1>1, CountDownArmed, BlockTimeNat
<1>3. CountDown(band.hello) \in Nat \cup {Off}
      /\ (CountDown(band.hello) = Off <=> band.hello = Off)
    BY <1>1 DEF CountDown, Off
<1>4. sinceTx' \in 0..HelloMin
    BY BlockTimeNat DEF BandInv, BandTypeOK, BandUnitPasses, Smaller
<1>5. band' = [band EXCEPT !.hello = CountDown(@), !.block = CountDown(@)]
      /\ enumeration' = enumeration
    BY DEF BandUnitPasses
<1>6. BandTypeOK'
    BY <1>1, <1>2, <1>3, <1>4, <1>5 DEF BandInv, BandTypeOK
<1> QED
    BY <1>1, <1>2, <1>3, <1>5, <1>6 DEF BandInv, DeadlinesArmed, EstimateWaitsForBegin

-----------------------------------------------------------------------------
(* The tick.                                                               *)

LEMMA EnumerationAfterTyped ==
    ASSUME BandInv, NEW empty \in BOOLEAN, NEW complete \in BOOLEAN
    PROVE  /\ EnumerationAfter(empty, complete) \in EnumerationStates
           /\ EnumerationAfter(empty, complete) # "Quiescent"
                => enumeration # "Quiescent" /\ ~empty
    BY EnumerationTable, TargetIsState
    DEF BandInv, BandTypeOK, EnumerationAfter, EnumerationStates

LEMMA TickPreservesBand ==
    ASSUME BandInv, NEW empty \in BOOLEAN, NEW complete \in BOOLEAN,
           BandTick(empty, complete)
    PROVE  BandInv'
<1> DEFINE Bands == [Ni : 1..BAND_NMAX, r : 0..MaxR, begun : BOOLEAN,
                     hello : Nat \cup {Off}, block : Armed(BlockTime)]
           started == Disarmed(empty)
           greeted == AfterHello(empty, complete)
           runs == EnumerationAfter(empty, complete) # "Quiescent"
           Good(b) == /\ b \in Bands
                      /\ runs => /\ b.hello # Off /\ b.block # Off
                                 /\ ~b.begun => b.Ni = BAND_ALPHA
<1> HIDE DEF runs
<1>1. sinceTx \in 0..HelloMin /\ HelloMin \in Nat
    BY BlockTimeNat DEF BandInv, BandTypeOK
<1>2. Good(started)
    BY EnumerationAfterTyped DEF BandInv, BandTypeOK, DeadlinesArmed, EstimateWaitsForBegin,
       Disarmed, Armed, Off, runs
<1> HIDE DEF started
<1>3. Good(greeted)
    <2>1. CASE SendsHello(empty, complete)
        <3> DEFINE delay == Larger(HelloInterval(started.Ni), HelloMin)
        <3>1. delay \in Nat /\ delay # Off
            <4>1. started.Ni \in 1..BAND_NMAX /\ 1..BAND_NMAX \subseteq Nat
                <5>1. BAND_NMAX \in Nat
                    BY DEF BAND_NMAX
                <5> QED
                    BY <1>2, <5>1
            <4>2. HelloInterval(started.Ni) \in Nat
                BY <4>1, HelloIntervalNat
            <4> QED
                BY <1>1, <4>2 DEF Larger, Off
        <3>2. greeted = [started EXCEPT !.hello = delay, !.begun = TRUE]
            BY <2>1 DEF AfterHello, started
        <3> HIDE DEF delay, greeted
        <3> QED
            BY <1>2, <3>1, <3>2
    <2>2. CASE HelloDue(empty, complete) /\ ~SendsHello(empty, complete)
        <3>1. sinceTx < HelloMin
            BY <1>1, <2>2 DEF SendsHello
        <3>2. HelloMin - sinceTx \in Nat /\ HelloMin - sinceTx # Off
            BY <1>1, <3>1 DEF Off
        <3>3. greeted = [started EXCEPT !.hello = HelloMin - sinceTx]
            BY <2>2 DEF AfterHello, started
        <3> HIDE DEF greeted
        <3> QED
            BY <1>2, <3>2, <3>3
    <2>3. CASE ~HelloDue(empty, complete)
        <3>1. greeted = started
            BY <2>3 DEF AfterHello, SendsHello, started
        <3> QED
            BY <1>2, <3>1
    <2> QED
        BY <2>1, <2>2, <2>3
<1>4. band' = IF BlockDue(empty, complete)
                THEN [greeted EXCEPT !.Ni = NextNi(greeted), !.r = 0, !.block = BlockTime,
                                     !.hello = HelloInterval(NextNi(greeted))]
                ELSE greeted
    BY DEF BandTick, AfterBlock
<1> HIDE DEF greeted
<1>5. Good(band')
    <2>1. CASE BlockDue(empty, complete)
        <3>1. NextNi(greeted) \in 1..BAND_NMAX
            BY <1>3, NextNiInRange
        <3>2. HelloInterval(NextNi(greeted)) \in Nat /\ HelloInterval(NextNi(greeted)) # Off
            <4>1. 1..BAND_NMAX \subseteq Nat
                BY DEF BAND_NMAX
            <4>2. HelloInterval(NextNi(greeted)) \in Nat
                BY <3>1, <4>1, HelloIntervalNat
            <4> QED
                BY <4>2 DEF Off
        <3>3. runs /\ ~greeted.begun => NextNi(greeted) = BAND_ALPHA
            BY <1>3 DEF NextNi
        <3>4. BlockTime \in Armed(BlockTime) /\ BlockTime # Off /\ 0 \in 0..MaxR
            BY BlockTimeNat, BandAssumption DEF Armed, Off
        <3> QED
            BY <1>3, <1>4, <2>1, <3>1, <3>2, <3>3, <3>4
    <2>2. CASE ~BlockDue(empty, complete)
        BY <1>3, <1>4, <2>2
    <2> QED
        BY <2>1, <2>2
<1>6. enumeration' = EnumerationAfter(empty, complete) /\ enumeration' \in EnumerationStates
    BY EnumerationAfterTyped DEF BandTick
<1>7. sinceTx' \in 0..HelloMin
    BY <1>1 DEF BandTick
<1> QED
    BY <1>5, <1>6, <1>7
    DEF BandInv, BandTypeOK, DeadlinesArmed, EstimateWaitsForBegin, runs

-----------------------------------------------------------------------------
LEMMA BandInductive ==
    /\ BandInit => BandInv
    /\ BandInv /\ [BandNext]_bandVars => BandInv'
<1>1. BandInit => BandInv
    BY BlockTimeNat, BandAssumption
    DEF BandInit, BandInv, BandTypeOK, DeadlinesArmed, EstimateWaitsForBegin,
        EnumerationStates, BAND_ALPHA, BAND_NMAX, Armed, Off
<1>2. ASSUME BandInv, [BandNext]_bandVars
      PROVE  BandInv'
    <2>1. CASE BandOnDiscover
        BY <1>2, <2>1, DiscoverPreservesBand
    <2>2. CASE BandOnHello
        BY <1>2, <2>2, HelloPreservesBand
    <2>3. CASE \E empty, complete \in BOOLEAN : BandTick(empty, complete)
        BY <1>2, <2>3, TickPreservesBand
    <2>4. CASE BandUnitPasses
        BY <1>2, <2>4, UnitPreservesBand
    <2>5. CASE UNCHANGED bandVars
        BY <1>2, <2>5
        DEF bandVars, BandInv, BandTypeOK, DeadlinesArmed, EstimateWaitsForBegin
    <2> QED
        BY <1>2, <2>1, <2>2, <2>3, <2>4, <2>5 DEF BandNext
<1> QED
    BY <1>1, <1>2

\* The engine keeps its types: the load estimate stays between 1 and NMAX, so
\* every Hello delay is finite (band_update_stats, band_choose_hello_time).
THEOREM BandTypeCorrect == BandSpec => []BandTypeOK
<1>1. BandInv => BandTypeOK
    BY DEF BandInv
<1> QED
    BY <1>1, BandInductive, PTL DEF BandSpec

\* Whatever the table answers tick after tick, an enumeration that runs can
\* still send (third part of automata_tick).
THEOREM BandDeadlinesArmed == BandSpec => []DeadlinesArmed
<1>1. BandInv => DeadlinesArmed
    BY DEF BandInv
<1> QED
    BY <1>1, BandInductive, PTL DEF BandSpec

\* What a deadline that was chosen or kept keeps to.
LEMMA LargerBounds ==
    ASSUME NEW a \in Nat, NEW b \in Nat
    PROVE  Larger(a, b) \in Nat /\ a <= Larger(a, b) /\ b <= Larger(a, b)
    BY DEF Larger

LEMMA ReachNat ==
    ASSUME NEW Ni \in 1..BAND_NMAX
    PROVE  HelloInterval(Ni) \in Nat
<1>1. Ni \in Nat
    BY DEF BAND_NMAX
<1> QED
    BY <1>1, HelloIntervalNat

LEMMA TickKeepsToEstimate ==
    ASSUME BandInv, DeadlineFollowsEstimate, NEW empty \in BOOLEAN, NEW complete \in BOOLEAN,
           BandTick(empty, complete)
    PROVE  DeadlineFollowsEstimate'
<1> DEFINE Reach(Ni) == Larger(HelloInterval(Ni), HelloMin)
           started == Disarmed(empty)
           greeted == AfterHello(empty, complete)
           Near(b) == b.hello <= Reach(b.Ni)
<1>1. /\ band.Ni \in 1..BAND_NMAX /\ band.r \in Nat /\ band.hello \in Nat \cup {Off}
      /\ sinceTx \in 0..HelloMin /\ HelloMin \in Nat
      /\ band \in [Ni : 1..BAND_NMAX, r : 0..MaxR, begun : BOOLEAN,
                   hello : Nat \cup {Off}, block : Armed(BlockTime)]
    BY BlockTimeNat, BandAssumption DEF BandInv, BandTypeOK
<1>2. \A Ni \in 1..BAND_NMAX : /\ HelloInterval(Ni) \in Nat /\ Reach(Ni) \in Nat
                              /\ HelloInterval(Ni) <= Reach(Ni) /\ HelloMin <= Reach(Ni)
    BY <1>1, ReachNat, LargerBounds
<1>3. started.Ni = band.Ni /\ started.r = band.r /\ Near(started)
    <2>1. CASE started = band
        BY <2>1 DEF DeadlineFollowsEstimate
    <2>2. CASE started = [band EXCEPT !.hello = Off, !.block = Off, !.begun = FALSE]
        BY <1>1, <1>2, <2>2 DEF Off
    <2> QED
        BY <2>1, <2>2 DEF Disarmed
<1> HIDE DEF started
<1>4. greeted.Ni = band.Ni /\ greeted.r = band.r /\ Near(greeted)
    <2>0. /\ HelloInterval(started.Ni) \in Nat /\ Reach(started.Ni) \in Nat
          /\ HelloMin <= Reach(started.Ni)
        BY <1>1, <1>2, <1>3
    <2> HIDE DEF Reach
    <2>1. CASE SendsHello(empty, complete)
        <3>1. greeted = [started EXCEPT !.hello = Reach(started.Ni), !.begun = TRUE]
            BY <2>1 DEF AfterHello, started, Reach
        <3> HIDE DEF greeted
        <3> QED
            BY <1>3, <2>0, <3>1
    <2>2. CASE HelloDue(empty, complete) /\ ~SendsHello(empty, complete)
        <3>1. greeted = [started EXCEPT !.hello = HelloMin - sinceTx]
            BY <2>2 DEF AfterHello, started
        <3> HIDE DEF greeted
        <3> QED
            BY <1>1, <1>3, <2>0, <3>1
    <2>3. CASE ~HelloDue(empty, complete)
        <3>1. greeted = started
            BY <2>3 DEF AfterHello, SendsHello, started
        <3> QED
            BY <1>3, <3>1
    <2> QED
        BY <2>1, <2>2, <2>3
<1> HIDE DEF greeted
<1>5. NextNi(greeted) \in 1..BAND_NMAX
    BY <1>1, <1>4, NextNiInRange
<1>6. Near(band')
    <2>1. band' = IF BlockDue(empty, complete) THEN AfterBlock(greeted) ELSE greeted
        BY DEF BandTick, greeted
    <2>2. CASE BlockDue(empty, complete)
        <3>1. band' = [greeted EXCEPT !.Ni = NextNi(greeted), !.r = 0, !.block = BlockTime,
                                      !.hello = HelloInterval(NextNi(greeted))]
            BY <2>1, <2>2 DEF AfterBlock
        <3> QED
            BY <1>2, <1>5, <3>1
    <2>3. CASE ~BlockDue(empty, complete)
        BY <1>4, <2>1, <2>3
    <2> QED
        BY <2>2, <2>3
<1> QED
    BY <1>6 DEF DeadlineFollowsEstimate

\* The Hello deadline keeps to the estimate, although the one is chosen from
\* the other in three places, put off in a fourth and left alone in Wait
\* (band_choose_hello_time, band_update_stats and automata_tick).
THEOREM BandDeadlineFollows == BandSpec => []DeadlineFollowsEstimate
<1>1. BandInit => DeadlineFollowsEstimate
    <2>1. HelloInterval(BAND_ALPHA) \in Nat /\ HelloMin \in Nat
        BY ReachNat, BlockTimeNat DEF BAND_ALPHA, BAND_NMAX
    <2>2. ASSUME BandInit
          PROVE  band.hello = Off /\ band.Ni = BAND_ALPHA
        BY <2>2 DEF BandInit
    <2>3. Larger(HelloInterval(BAND_ALPHA), HelloMin) \in Nat
        BY <2>1, LargerBounds
    <2> QED
        BY <2>2, <2>3 DEF DeadlineFollowsEstimate, Off
<1>2. ASSUME BandInv, DeadlineFollowsEstimate, [BandNext]_bandVars
      PROVE  DeadlineFollowsEstimate'
    <2>1. /\ band.Ni \in 1..BAND_NMAX /\ band.hello \in Nat \cup {Off}
          /\ band \in [Ni : 1..BAND_NMAX, r : 0..MaxR, begun : BOOLEAN,
                       hello : Nat \cup {Off}, block : Armed(BlockTime)]
        BY <1>2 DEF BandInv, BandTypeOK
    <2>2. CASE BandOnDiscover
        <3>1. CASE enumeration = "Quiescent"
            <4>1. band'.hello = HelloInterval(BAND_ALPHA) /\ band'.Ni = BAND_ALPHA
                BY <2>2, <3>1 DEF BandOnDiscover
            <4>2. HelloInterval(BAND_ALPHA) \in Nat /\ HelloMin \in Nat
                BY ReachNat, BlockTimeNat DEF BAND_ALPHA, BAND_NMAX
            <4> QED
                BY <4>1, <4>2, LargerBounds DEF DeadlineFollowsEstimate
        <3>2. CASE enumeration # "Quiescent"
            <4>1. band'.hello = band.hello /\ band'.Ni = band.Ni
                BY <2>1, <2>2, <3>2 DEF BandOnDiscover
            <4> QED
                BY <1>2, <4>1 DEF DeadlineFollowsEstimate
        <3> QED
            BY <3>1, <3>2
    <2>3. CASE BandOnHello
        <3>1. band'.hello = band.hello /\ band'.Ni = band.Ni
            BY <2>1, <2>3 DEF BandOnHello
        <3> QED
            BY <1>2, <3>1 DEF DeadlineFollowsEstimate
    <2>4. CASE \E empty, complete \in BOOLEAN : BandTick(empty, complete)
        BY <1>2, <2>4, TickKeepsToEstimate
    <2>5. CASE BandUnitPasses
        <3>1. band'.hello = CountDown(band.hello) /\ band'.Ni = band.Ni
            BY <2>1, <2>5 DEF BandUnitPasses
        <3>2. CountDown(band.hello) <= band.hello /\ CountDown(band.hello) \in Int
            BY <2>1 DEF CountDown, Off
        <3>3. Larger(HelloInterval(band.Ni), HelloMin) \in Nat
            BY <2>1, ReachNat, BlockTimeNat, LargerBounds
        <3> QED
            BY <1>2, <2>1, <3>1, <3>2, <3>3 DEF DeadlineFollowsEstimate, Off
    <2>6. CASE UNCHANGED bandVars
        BY <1>2, <2>6 DEF bandVars, DeadlineFollowsEstimate
    <2> QED
        BY <1>2, <2>2, <2>3, <2>4, <2>5, <2>6 DEF BandNext
<1> QED
    BY <1>1, <1>2, BandInductive, PTL DEF BandSpec

\* No block changes the estimate of an enumeration that has not begun
\* (band_update_stats and the begun flag its callers set).
THEOREM BandEstimateWaits == BandSpec => []EstimateWaitsForBegin
<1>1. BandInv => EstimateWaitsForBegin
    BY DEF BandInv
<1> QED
    BY <1>1, BandInductive, PTL DEF BandSpec

-----------------------------------------------------------------------------
(* The table in the loop's handlers.                                       *)

LEMMA AnnouncedInv ==
    ASSUME TableInv(table), NEW m \in Mappers, NEW g \in Generations, NEW x \in Xids, NEW event
    PROVE  TableInv(Announced(m, g, x, event))
<1> DEFINE added == session_table_add(table, m, g, x)
<1>1. WellCounted(added)
    BY AddInv DEF TableInv
<1>2. WellCounted(Completed(added, m, g))
    BY <1>1, CompletedWellCounted
<1> QED
    BY <1>1, <1>2, UpdateStatus DEF Announced

LEMMA TableAfterTickInv ==
    ASSUME TableInv(table)
    PROVE  /\ TableInv(TableAfterTick)
           /\ Live(TableAfterTick) \subseteq Live(table)
           /\ InactivityFired => Live(TableAfterTick) = {}
<1> DEFINE t == IF InactivityFired THEN EmptyTable ELSE table
<1>1. /\ TableInv(t) /\ Live(t) \subseteq Live(table)
      /\ InactivityFired => Live(t) = {}
    BY EmptyTableInv
<1>2. TableAfterTick = Dropped(t, Expired(t))
    BY DEF TableAfterTick, SweepExpired
<1> HIDE DEF t
<1>3. Expired(t) \in SUBSET Live(t) /\ WellCounted(t)
    BY <1>1 DEF Expired, TableInv
<1>4. TableInv(Dropped(t, Expired(t))) /\ Live(Dropped(t, Expired(t))) = Live(t) \ Expired(t)
    BY <1>3, DroppedInv
<1> QED
    BY <1>1, <1>2, <1>4

\* What a Discover's announcement does to the sessions: nothing when the
\* table is full, else it joins its own, completed if the Discover says so.
LEMMA AnnouncedSessions ==
    ASSUME TableInv(table), NEW m \in Mappers, NEW g \in Generations, NEW x \in Xids, NEW event
    PROVE  LET t == Announced(m, g, x, event)
               k == <<m, g>>
           IN  \/ /\ SessionsOf(t) = SessionsOf(table)
                  /\ CompleteSessionsOf(t) = CompleteSessionsOf(table)
               \/ /\ SessionsOf(t) = SessionsOf(table) \cup {k}
                  /\ k \in SessionsOf(table) \/ Cardinality(SessionsOf(table)) < MaxEntries
                  /\ \/ CompleteSessionsOf(t) = CompleteSessionsOf(table)
                     \/ CompleteSessionsOf(t) = CompleteSessionsOf(table) \cup {k}
<1> DEFINE added == session_table_add(table, m, g, x)
           completed == Completed(added, m, g)
           t == Announced(m, g, x, event)
<1>1. /\ TableInv(added) /\ WellCounted(added)
      /\ CompleteSessionsOf(added) = CompleteSessionsOf(table)
      /\ \/ added = table /\ Matching(table, m, g) = {}
         \/ /\ SessionsOf(added) = SessionsOf(table) \cup {<<m, g>>}
            /\ <<m, g>> \in SessionsOf(table) \/ Cardinality(SessionsOf(table)) < MaxEntries
    BY AddInv DEF TableInv
<1> HIDE DEF added
<1>2. ASSUME NEW u, WellCounted(u)
      PROVE  LET v == session_table_update_complete_status(u)
             IN  SessionsOf(v) = SessionsOf(u) /\ CompleteSessionsOf(v) = CompleteSessionsOf(u)
    BY <1>2, UpdateStatus DEF SessionsOf, CompleteSessionsOf, KeyOf
<1>3. t = session_table_update_complete_status(added)
      \/ t = session_table_update_complete_status(completed)
    BY DEF Announced, added
<1>4. CASE t = session_table_update_complete_status(added)
    BY <1>1, <1>2, <1>4
<1>5. CASE t = session_table_update_complete_status(completed) /\ Matching(added, m, g) # {}
    BY <1>1, <1>5, CompletedSessions
<1>6. CASE t = session_table_update_complete_status(completed) /\ Matching(added, m, g) = {}
    <2>1. added.entries \in [Slots -> Entry \cup {Free}] /\ added \in Table
        BY <1>1 DEF WellCounted, Table
    <2>2. completed.entries = added.entries
        BY <1>6, <2>1 DEF Completed, Table
    <2>3. WellCounted(completed)
        BY <1>1, CompletedWellCounted
    <2>4. SessionsOf(completed) = SessionsOf(added)
          /\ CompleteSessionsOf(completed) = CompleteSessionsOf(added)
        BY <2>2 DEF SessionsOf, CompleteSessionsOf, KeyOf, Live
    <2> HIDE DEF completed
    <2> QED
        BY <1>1, <1>2, <1>6, <2>3, <2>4
<1> QED
    BY <1>3, <1>4, <1>5, <1>6

\* What a tick does to them: some leave.
LEMMA TableAfterTickSessions ==
    ASSUME TableInv(table)
    PROVE  \E gone \in SUBSET SessionsOf(table) :
              /\ SessionsOf(TableAfterTick) = SessionsOf(table) \ gone
              /\ CompleteSessionsOf(TableAfterTick) = CompleteSessionsOf(table) \ gone
<1>1. CASE InactivityFired
    <2>1. Live(TableAfterTick) = {}
        BY <1>1, TableAfterTickInv
    <2>2. SessionsOf(TableAfterTick) = {} /\ CompleteSessionsOf(TableAfterTick) = {}
        BY <2>1 DEF SessionsOf, CompleteSessionsOf
    <2>3. CompleteSessionsOf(table) \ SessionsOf(table) = {}
        BY DEF SessionsOf, CompleteSessionsOf
    <2> QED
        BY <2>2, <2>3
<1>2. CASE ~InactivityFired
    <2> DEFINE gone == {KeyOf(table, i) : i \in Expired(table)}
    <2>1. TableAfterTick = Dropped(table, Expired(table))
        BY <1>2 DEF TableAfterTick, SweepExpired
    <2>2. Expired(table) \in SUBSET Live(table) /\ WellCounted(table)
        BY DEF Expired, TableInv
    <2>3. gone \in SUBSET SessionsOf(table)
        BY <2>2 DEF SessionsOf
    <2> QED
        BY <2>1, <2>2, <2>3, DroppedSessions
<1> QED
    BY <1>1, <1>2

\* The two answers the tick reads from the caches are those of the slots.
LEMMA AnswersLive ==
    ASSUME NEW t, TableInv(t)
    PROVE  /\ session_table_is_empty(t) = (Live(t) = {})
           /\ session_table_all_complete(t) = \A i \in Live(t) : t.entries[i].complete
<1>1. session_table_is_empty(t) = (SessionsOf(t) = {})
    BY Answers
<1>2. (SessionsOf(t) = {}) = (Live(t) = {})
    BY DEF SessionsOf
<1>3. session_table_all_complete(t) = \A i \in Live(t) : t.entries[i].complete
    BY DEF TableInv, StatusCurrent, session_table_all_complete, WellCounted, Table
<1> QED
    BY <1>1, <1>2, <1>3

-----------------------------------------------------------------------------
(* The engines.                                                            *)

LEMMA RxFeedsEngines ==
    ASSUME Rx
    PROVE  /\ \E opcode \in Opcodes : MappingOnFrame(opcode)
           /\ BandOnDiscover \/ BandOnHello \/ UNCHANGED bandVars
<1> USE LoopAssumption
<1>1. /\ opcode_discover \in Opcodes /\ opcode_reset \in Opcodes /\ opcode_hello \in Opcodes
      /\ opcode_charge \in Opcodes /\ PlainOpcodes \subseteq Opcodes
    BY DEF Opcodes, opcode_discover, opcode_reset, opcode_hello, opcode_charge,
       opcode_queryLargeTlvResp
<1> QED
    BY <1>1 DEF Rx, RxDiscover, RxReset, RxHello, RxOther

LEMMA MappingEngineStep == [Next]_vars => [MappingNext]_mappingVars
<1> SUFFICES ASSUME [Next]_vars PROVE [MappingNext]_mappingVars
    OBVIOUS
<1>1. CASE Rx
    BY <1>1, RxFeedsEngines DEF MappingNext
<1>2. CASE Tick
    BY <1>2 DEF Tick, MappingNext
<1>3. CASE UnitPasses
    BY <1>3 DEF UnitPasses, SecondPasses, MappingNext
<1>4. CASE UNCHANGED vars
    BY <1>4 DEF vars
<1> QED
    BY <1>1, <1>2, <1>3, <1>4 DEF Next

LEMMA BandStep == TableInv(table) /\ [Next]_vars => [BandNext]_bandVars
<1> SUFFICES ASSUME TableInv(table), [Next]_vars PROVE [BandNext]_bandVars
    OBVIOUS
<1>1. CASE Rx
    BY <1>1, RxFeedsEngines DEF BandNext
<1>2. CASE Tick
    <2> DEFINE empty == session_table_is_empty(TableAfterTick)
               complete == session_table_all_complete(TableAfterTick)
    <2>1. BandTick(empty, complete)
        BY <1>2 DEF Tick
    <2>2. empty \in BOOLEAN
        BY DEF session_table_is_empty
    <2>3. complete \in BOOLEAN
        BY TableAfterTickInv DEF TableInv, WellCounted, Table, session_table_all_complete
    <2> HIDE DEF empty, complete
    <2> QED
        BY <2>1, <2>2, <2>3 DEF BandNext
<1>3. CASE UnitPasses
    BY <1>3 DEF UnitPasses, BandNext
<1>4. CASE UNCHANGED vars
    BY <1>4 DEF vars
<1> QED
    BY <1>1, <1>2, <1>3, <1>4 DEF Next

-----------------------------------------------------------------------------
(* The inductive invariant.                                                *)

LoopInv ==
    /\ LoopTypeOK
    /\ TableInv(table)
    /\ MappingInv
    /\ BandInv
    /\ SessionsOnlyWhileMapping
    /\ EnumerationFollowsTable

\* A mapping that was Quiescent and got a Discover is one no longer.
LEMMA DiscoverBeginsMapping ==
    ASSUME MappingTypeOK, mapping.state = "Quiescent", MappingOnFrame(opcode_discover)
    PROVE  mapping'.state = "Command"
<1>1. "Quiescent" \in MappingStates
    BY DEF MappingStates
<1>2. MappingTimeouts["Quiescent"] = 0
    BY <1>1 DEF MappingTimeouts
<1> QED
    BY <1>1, <1>2, MappingTable DEF MappingOnFrame, switch_state_mapping, SwitchState, TimedOut

LEMMA SessionStepTyped ==
    ASSUME LoopTypeOK, NEW event, switch_state_session(event)
    PROVE  session' \in [state : SessionStates, idle : 0..SessionTimeout + 1]
<1> DEFINE next == SwitchState(SessionTransitions, SessionTimeouts, session, event)
<1>1. session.state \in SessionStates
    BY DEF LoopTypeOK
<1>2. next.state \in SessionStates /\ next.idle = 0
    BY <1>1, SessionTransitionsTyped, SwitchStateTyped
<1>3. next = [state |-> next.state, idle |-> next.idle]
    BY DEF SwitchState
<1>4. 0 \in 0..SessionTimeout + 1
    BY TimeoutAssumption
<1>5. session' = next
    BY DEF switch_state_session
<1> HIDE DEF next
<1> QED
    BY <1>2, <1>3, <1>4, <1>5

LEMMA NamedTyped ==
    ASSUME LoopTypeOK, NEW t, NEW m \in Mappers, NEW g \in Generations, NEW tos
    PROVE  Named(t, m, g, tos) \in Names
    BY DEF LoopTypeOK, Names, Named, Renamed

\* What a frame leaves behind: types, a well-formed table, and no session
\* when the mapping is over.
LEMMA RxPreserves ==
    ASSUME LoopInv, Rx
    PROVE  /\ LoopTypeOK' /\ TableInv(table') /\ SessionsOnlyWhileMapping'
           /\ pc' = "tick"
<1>1. LoopTypeOK /\ TableInv(table) /\ MappingTypeOK /\ SessionsOnlyWhileMapping
    BY DEF LoopInv, MappingInv
<1>2. TableInv(EmptyTable) /\ Live(EmptyTable) = {}
    BY EmptyTableInv
<1>3. Received
    BY DEF Rx, RxDiscover, RxReset, RxHello, RxOther
<1>4. /\ TableInv(table') /\ SessionsOnlyWhileMapping'
      /\ session' \in [state : SessionStates, idle : 0..SessionTimeout + 1]
      /\ hello' \in Names
    <2>1. CASE \E m \in Mappers, g \in Generations, x \in Xids, acking \in BOOLEAN, tos \in ToSs :
                  RxDiscover(m, g, x, acking, tos)
        <3>1. PICK m \in Mappers, g \in Generations, x \in Xids, acking \in BOOLEAN, tos \in ToSs :
                  RxDiscover(m, g, x, acking, tos)
            BY <2>1
        <3> DEFINE event == DiscoverEvent(m, g, x, acking)
                   announced == Announced(m, g, x, event)
        <3> HIDE DEF event
        <3>2. /\ MappingOnFrame(opcode_discover)
              /\ table' = Kept(announced)
              /\ hello' = Named(announced, m, g, tos)
              /\ switch_state_session(event)
            BY <3>1 DEF RxDiscover, event
        <3>3. TableInv(announced)
            BY <1>1, AnnouncedInv
        <3> HIDE DEF announced
        <3>4. mapping.state = "Quiescent" => mapping'.state = "Command"
            BY <1>1, <3>2, DiscoverBeginsMapping
        <3>5. TableInv(table') /\ SessionsOnlyWhileMapping'
            BY <1>2, <3>2, <3>3, <3>4 DEF Kept, BecameQuiescent, SessionsOnlyWhileMapping
        <3> QED
            BY <1>1, <3>2, <3>5, SessionStepTyped, NamedTyped
    <2>2. CASE \E broadcast \in BOOLEAN : RxReset(broadcast)
        <3>1. PICK broadcast \in BOOLEAN : RxReset(broadcast)
            BY <2>2
        <3>2. table' = EmptyTable /\ hello' = hello
            BY <3>1 DEF RxReset
        <3>3. session' \in [state : SessionStates, idle : 0..SessionTimeout + 1]
            BY <1>1, <3>1, SessionStepTyped DEF RxReset
        <3> QED
            BY <1>1, <1>2, <3>2, <3>3 DEF SessionsOnlyWhileMapping, LoopTypeOK
    <2>3. CASE RxHello \/ \E opcode \in PlainOpcodes \cup {opcode_charge} : RxOther(opcode)
        <3>1. table' = Kept(table) /\ hello' = hello
            BY <2>3 DEF RxHello, RxOther
        <3>2. session' \in [state : SessionStates, idle : 0..SessionTimeout + 1]
            BY <1>1, <2>3, SessionStepTyped DEF RxHello, RxOther, LoopTypeOK
        <3>3. TableInv(table') /\ SessionsOnlyWhileMapping'
            BY <1>1, <1>2, <3>1 DEF Kept, BecameQuiescent, SessionsOnlyWhileMapping
        <3> QED
            BY <1>1, <3>1, <3>2, <3>3 DEF LoopTypeOK
    <2> QED
        BY <2>1, <2>2, <2>3 DEF Rx
<1> QED
    BY <1>1, <1>3, <1>4 DEF LoopTypeOK, Received, TableInv, WellCounted

LEMMA TickPreserves ==
    ASSUME LoopInv, Tick
    PROVE  LoopTypeOK' /\ TableInv(table') /\ SessionsOnlyWhileMapping' /\ EnumerationFollowsTable'
<1>1. LoopTypeOK /\ TableInv(table) /\ SessionsOnlyWhileMapping /\ BandTypeOK
    BY DEF LoopInv, BandInv
<1>2. table' = TableAfterTick
    BY DEF Tick
<1>3. TableInv(table') /\ Live(table') \subseteq Live(table)
      /\ (InactivityFired => Live(table') = {})
    BY <1>1, <1>2, TableAfterTickInv
<1>4. LoopTypeOK'
    BY <1>1, <1>3, LoopAssumption DEF LoopTypeOK, Tick, TableInv, WellCounted
<1>5. SessionsOnlyWhileMapping'
    BY <1>1, <1>3 DEF SessionsOnlyWhileMapping, Tick, MappingTick
<1>6. EnumerationFollowsTable'
    <2> DEFINE empty == session_table_is_empty(table')
               complete == session_table_all_complete(table')
    <2>1. enumeration' = EnumerationAfter(empty, complete)
        BY <1>2 DEF Tick, BandTick
    <2>2. empty = (Live(table') = {})
        BY <1>3, AnswersLive
    <2>3. complete = \A i \in Live(table') : table'.entries[i].complete
        BY <1>3, AnswersLive
    <2> HIDE DEF empty, complete
    <2>4. enumeration' = "Pausing" => ~complete
        BY <1>1, <2>1, EnumerationTable DEF EnumerationAfter, BandTypeOK, EnumerationStates
    <2>5. enumeration' = "Wait" => ~empty /\ complete
        BY <1>1, <2>1, EnumerationTable DEF EnumerationAfter, BandTypeOK, EnumerationStates
    <2> QED
        BY <2>2, <2>3, <2>4, <2>5 DEF EnumerationFollowsTable
<1> QED
    BY <1>3, <1>4, <1>5, <1>6

LEMMA UnitPreserves ==
    ASSUME LoopInv, UnitPasses
    PROVE  LoopTypeOK' /\ TableInv(table') /\ SessionsOnlyWhileMapping' /\ EnumerationFollowsTable'
<1>1. LoopTypeOK /\ TableInv(table) /\ SessionsOnlyWhileMapping /\ EnumerationFollowsTable
    BY DEF LoopInv
<1>2. /\ pc' = pc /\ enumeration' = enumeration /\ mapping'.state = mapping.state
      /\ hello' = hello
    BY DEF UnitPasses, BandUnitPasses, SecondPasses, MappingSecondPasses, Idle, mappingVars,
       LoopInv, MappingInv, MappingTypeOK
<1>3. TableInv(table') /\ Live(table') = Live(table)
      /\ \A i \in Live(table) : table'.entries[i].complete = table.entries[i].complete
    BY <1>1, AgedInv DEF UnitPasses, SecondPasses
<1>4. session' \in [state : SessionStates, idle : 0..SessionTimeout + 1]
    BY <1>1, TimeoutAssumption DEF LoopTypeOK, UnitPasses, SecondPasses, Idle
<1>5. phase' \in 0..UnitsPerSecond - 1 /\ lag' \in 0..MaxLag
    BY <1>1, LoopAssumption DEF LoopTypeOK, UnitPasses
<1>6. LoopTypeOK'
    BY <1>1, <1>2, <1>3, <1>4, <1>5 DEF LoopTypeOK, TableInv, WellCounted
<1> QED
    BY <1>1, <1>2, <1>3, <1>6 DEF SessionsOnlyWhileMapping, EnumerationFollowsTable

LEMMA LoopInductive ==
    /\ Init => LoopInv
    /\ LoopInv /\ [Next]_vars => LoopInv'
<1>1. Init => LoopInv
    <2> SUFFICES ASSUME Init PROVE LoopInv
        OBVIOUS
    <2>1. MappingInv /\ BandInv
        BY MappingInductive, BandInductive DEF Init
    <2>2. TableInv(table) /\ Live(table) = {}
        BY EmptyTableInv DEF Init
    <2>3. LoopTypeOK
        BY <2>2, LoopAssumption, TimeoutAssumption
        DEF Init, LoopTypeOK, Names, TableInv, WellCounted, SessionStates
    <2>4. EnumerationFollowsTable
        BY DEF Init, BandInit, EnumerationFollowsTable
    <2> QED
        BY <2>1, <2>2, <2>3, <2>4 DEF LoopInv, SessionsOnlyWhileMapping
<1>2. ASSUME LoopInv, [Next]_vars
      PROVE  LoopInv'
    <2>1. MappingInv'
        BY <1>2, MappingEngineStep, MappingInductive DEF LoopInv
    <2>2. BandInv'
        BY <1>2, BandStep, BandInductive DEF LoopInv
    <2>3. LoopTypeOK' /\ TableInv(table') /\ SessionsOnlyWhileMapping' /\ EnumerationFollowsTable'
        <3>1. CASE Rx
            BY <1>2, <3>1, RxPreserves DEF EnumerationFollowsTable
        <3>2. CASE Tick
            BY <1>2, <3>2, TickPreserves
        <3>3. CASE UnitPasses
            BY <1>2, <3>3, UnitPreserves
        <3>4. CASE UNCHANGED vars
            BY <1>2, <3>4 DEF LoopInv, vars, loopVars, mappingVars, bandVars, LoopTypeOK,
               SessionsOnlyWhileMapping, EnumerationFollowsTable
        <3> QED
            BY <1>2, <3>1, <3>2, <3>3, <3>4 DEF Next
    <2> QED
        BY <2>1, <2>2, <2>3 DEF LoopInv
<1> QED
    BY <1>1, <1>2

LEMMA LoopInvariant == Spec => []LoopInv
    BY LoopInductive, PTL DEF Spec

-----------------------------------------------------------------------------
(* The theorems.                                                           *)

\* Every variable of the listener thread keeps its type, whatever frames come.
THEOREM LoopTypeCorrect == Spec => []TypeOK
<1>1. LoopInv => TypeOK
    BY DEF LoopInv, TypeOK, MappingInv, BandInv
<1> QED
    BY <1>1, LoopInvariant, PTL

\* After every handler the cached count and all_complete agree with the
\* slots, and no session is in two of them.
THEOREM LoopConsistent == Spec => []Consistent
<1>1. LoopInv => Consistent
    BY DEF LoopInv, TableInv, WellCounted, Consistent, TableConsistent
<1> QED
    BY <1>1, LoopInvariant, PTL

\* Sessions never outlive the mapping (lltdLoop clears the table when the
\* mapping automaton becomes Quiescent, automata_tick on inactivity).
THEOREM LoopSessionsWhileMapping == Spec => []SessionsOnlyWhileMapping
<1>1. LoopInv => SessionsOnlyWhileMapping
    BY DEF LoopInv
<1> QED
    BY <1>1, LoopInvariant, PTL

\* Between handlers Pausing means that a session is incomplete, and Wait that
\* there are sessions and all are complete.
THEOREM LoopEnumerationFollows == Spec => []EnumerationFollowsTable
<1>1. LoopInv => EnumerationFollowsTable
    BY DEF LoopInv
<1> QED
    BY <1>1, LoopInvariant, PTL

\* The loop drives each engine only in the ways the engine's own
\* specification allows, so what holds of the engines holds in the loop.
THEOREM LoopDrivesEngines == Spec => MappingSpec /\ BandSpec
<1>1. Init => MappingInit /\ BandInit
    BY DEF Init
<1>2. LoopInv => TableInv(table)
    BY DEF LoopInv
<1> QED
    BY <1>1, <1>2, LoopInvariant, MappingEngineStep, BandStep, PTL
    DEF Spec, MappingSpec, BandSpec

\* In the loop the engines keep their own safety: a begun mapping has its
\* inactivity deadline and counted charges theirs, a running enumeration has
\* both of its deadlines, the estimate waits for begin, and the Hello
\* deadline keeps to the estimate.
THEOREM LoopKeepsEnginesSafe ==
    Spec => [](/\ NeverStranded /\ ChargesExpire /\ DeadlinesArmed
               /\ EstimateWaitsForBegin /\ DeadlineFollowsEstimate)
    BY LoopDrivesEngines, MappingNeverStranded, MappingChargesExpire, BandDeadlinesArmed,
       BandEstimateWaits, BandDeadlineFollows, PTL

\* The whole loop implements the registry of sessions: whatever frames and
\* ticks come, each of them lets one session join, or some leave, or none.
THEOREM LoopImplementsRegistry == Spec => ImplementsRegistry
<1>1. Init => Registry!RegistryInit
    <2> SUFFICES ASSUME Init PROVE Registry!RegistryInit
        OBVIOUS
    <2>1. TableInv(table) /\ Live(table) = {}
        BY EmptyTableInv DEF Init
    <2>2. SessionsOf(table) = {} /\ CompleteSessionsOf(table) = {}
        BY <2>1 DEF SessionsOf, CompleteSessionsOf
    <2> QED
        BY <2>1, <2>2, Answers DEF Registry!RegistryInit
<1>2. LoopInv /\ LoopInv' /\ [Next]_vars => [Registry!RegistryNext]_(Registry!registryVars)
    <2> SUFFICES ASSUME LoopInv, LoopInv', [Next]_vars
                 PROVE  [Registry!RegistryNext]_(Registry!registryVars)
        OBVIOUS
    <2>1. TableInv(table) /\ TableInv(table')
        BY DEF LoopInv
    <2>2. Registry!Answer
        BY <2>1, Answers DEF Registry!Answer
    <2>3. UNCHANGED <<SessionsOf(table), CompleteSessionsOf(table)>>
          => UNCHANGED Registry!registryVars
        BY <2>1, Answers DEF Registry!registryVars
    <2>4. ASSUME \E gone \in SUBSET SessionsOf(table) :
                    /\ SessionsOf(table') = SessionsOf(table) \ gone
                    /\ CompleteSessionsOf(table') = CompleteSessionsOf(table) \ gone
          PROVE  Registry!RegistryNext
        BY <2>2, <2>4 DEF Registry!RegistryNext, Registry!Leave
    <2>5. ASSUME table' = EmptyTable
          PROVE  Registry!RegistryNext
        <3>1. SessionsOf(table') = {} /\ CompleteSessionsOf(table') = {}
            BY <2>5, EmptyTableInv DEF SessionsOf, CompleteSessionsOf
        <3>2. CompleteSessionsOf(table) \ SessionsOf(table) = {}
            BY DEF SessionsOf, CompleteSessionsOf
        <3> QED
            BY <2>4, <3>1, <3>2
    <2>6. CASE \E m \in Mappers, g \in Generations, x \in Xids, acking \in BOOLEAN, tos \in ToSs :
                  RxDiscover(m, g, x, acking, tos)
        <3>1. PICK m \in Mappers, g \in Generations, x \in Xids, acking \in BOOLEAN, tos \in ToSs :
                  RxDiscover(m, g, x, acking, tos)
            BY <2>6
        <3> DEFINE event == DiscoverEvent(m, g, x, acking)
        <3> HIDE DEF event
        <3>2. table' = EmptyTable \/ table' = Announced(m, g, x, event)
            BY <3>1 DEF RxDiscover, Kept, event
        <3>3. CASE table' = Announced(m, g, x, event)
            <4>1. <<m, g>> \in Keys
                BY DEF Keys
            <4> DEFINE joined ==
                        /\ SessionsOf(table') = SessionsOf(table) \cup {<<m, g>>}
                        /\ \/ <<m, g>> \in SessionsOf(table)
                           \/ Cardinality(SessionsOf(table)) < MaxEntries
            <4>2. \/ UNCHANGED <<SessionsOf(table), CompleteSessionsOf(table)>>
                  \/ joined /\ CompleteSessionsOf(table') = CompleteSessionsOf(table)
                  \/ joined /\ CompleteSessionsOf(table') = CompleteSessionsOf(table) \cup {<<m, g>>}
                BY <2>1, <3>3, AnnouncedSessions
            <4>3. ASSUME joined, CompleteSessionsOf(table') = CompleteSessionsOf(table)
                  PROVE  Registry!Join(<<m, g>>, FALSE)
                BY <2>2, <4>3 DEF Registry!Join, Registry!Cardinality, Cardinality
            <4>4. ASSUME joined,
                         CompleteSessionsOf(table') = CompleteSessionsOf(table) \cup {<<m, g>>}
                  PROVE  Registry!Join(<<m, g>>, TRUE)
                BY <2>2, <4>4 DEF Registry!Join, Registry!Cardinality, Cardinality
            <4> HIDE DEF joined
            <4> QED
                BY <2>3, <4>1, <4>2, <4>3, <4>4 DEF Registry!RegistryNext
        <3> QED
            BY <2>5, <3>2, <3>3
    <2>7. CASE \/ \E broadcast \in BOOLEAN : RxReset(broadcast)
               \/ RxHello
               \/ \E opcode \in PlainOpcodes \cup {opcode_charge} : RxOther(opcode)
        <3>1. table' = EmptyTable \/ table' = table
            BY <2>7 DEF RxReset, RxHello, RxOther, Kept
        <3> QED
            BY <2>3, <2>5, <3>1
    <2>8. CASE Tick
        <3>1. table' = TableAfterTick
            BY <2>8 DEF Tick
        <3> QED
            BY <2>1, <2>4, <3>1, TableAfterTickSessions
    <2>9. CASE UnitPasses \/ UNCHANGED vars
        <3>1. table' = Aged(table) \/ table' = table
            BY <2>9 DEF UnitPasses, SecondPasses, vars, loopVars
        <3> QED
            BY <2>1, <2>3, <3>1, AgedSessions
    <2> QED
        BY <2>6, <2>7, <2>8, <2>9 DEF Next, Rx
<1> QED
    BY <1>1, <1>2, LoopInvariant, PTL DEF Spec, ImplementsRegistry, Registry!RegistrySpec

\* Only a tick sends a Hello, and only one that leaves an incomplete session.
LEMMA HelloSentStep ==
    ASSUME LoopInv, LoopInv', [Next]_vars, HelloSent
    PROVE  Tick /\ \E i \in Live(table') : ~table'.entries[i].complete
<1>1. sinceTx \in 0..HelloMin /\ HelloMin \in Nat
    BY BlockTimeNat DEF LoopInv, BandInv, BandTypeOK
<1>2. Tick
    <2>1. ~ (sinceTx' = sinceTx)
        BY <1>1 DEF HelloSent
    <2>2. ~ UnitPasses
        BY <1>1 DEF HelloSent, UnitPasses, BandUnitPasses, Smaller
    <2>3. ~ Rx
        BY <2>1 DEF Rx, RxDiscover, RxReset, RxHello, RxOther, BandOnDiscover, BandOnHello,
           bandVars
    <2> QED
        BY <2>1, <2>2, <2>3 DEF Next, vars, bandVars
<1> DEFINE empty == session_table_is_empty(table')
           complete == session_table_all_complete(table')
<1>3. SendsHello(empty, complete) /\ enumeration' = EnumerationAfter(empty, complete)
    BY <1>1, <1>2 DEF Tick, BandTick, HelloSent
<1>4. enumeration' = "Pausing" /\ pc' = "recv"
    BY <1>2, <1>3 DEF SendsHello, HelloDue, Tick
<1> QED
    BY <1>2, <1>4 DEF LoopInv, EnumerationFollowsTable

\* A periodic Hello is sent only while a session waits to be completed.
THEOREM LoopHelloOnlyForIncomplete == Spec => HelloOnlyForIncomplete
<1>1. LoopInv /\ LoopInv' /\ [Next]_vars
      => [HelloSent => \E i \in Live(table') : ~table'.entries[i].complete]_vars
    BY HelloSentStep
<1> QED
    BY <1>1, LoopInvariant, PTL DEF Spec, HelloOnlyForIncomplete

-----------------------------------------------------------------------------
(* Periodic Hellos name live sessions.  The last session announced is the  *)
(* one named, and no session is younger, so the sweep cannot take it and   *)
(* leave another.  Which kind of Discover announced it is not remembered,   *)
(* so its generation is in one of the two fields.                          *)

Youngest(t, i) == \A j \in Live(t) : t.entries[i].idle <= t.entries[j].idle

NamedKeys(h) == {<<h.mapper, h.topology>>, <<h.mapper, h.quick>>}

NamesYoungest(t, h) ==
    Live(t) # {} => \E i \in Live(t) : KeyOf(t, i) \in NamedKeys(h) /\ Youngest(t, i)

\* The announced session has age 0 and the others keep theirs; a table that
\* turned the session away is as it was.
LEMMA AddedAges ==
    ASSUME NEW t, TableInv(t), NEW m \in Mappers, NEW g \in Generations, NEW x \in Xids
    PROVE  LET u == session_table_add(t, m, g, x)
           IN  \/ \E i \in Live(u) : KeyOf(u, i) = <<m, g>> /\ u.entries[i].idle = 0
               \/ u = t /\ Matching(t, m, g) = {}
<1> DEFINE u == session_table_add(t, m, g, x)
<1>1. t \in Table /\ Live(t) \subseteq Slots /\ \A j \in Live(t) : t.entries[j] \in Entry
    BY LiveEntries DEF TableInv, WellCounted
<1>2. CASE Matching(t, m, g) # {}
    <2> DEFINE i == LeastOf(Matching(t, m, g))
    <2>1. i \in Matching(t, m, g)
        BY <1>1, <1>2, LeastOfIsMember DEF Matching
    <2>2. i \in Live(t) /\ t.entries[i].mapper = m /\ t.entries[i].generation = g
        BY <2>1 DEF Matching
    <2> HIDE DEF i
    <2>3. u = Refreshed(t, i, x)
        BY <1>2 DEF session_table_add, i
    <2>4. Live(u) = Live(t)
        BY <2>2, <2>3, RefreshedInv
    <2>5. u.entries[i] = [t.entries[i] EXCEPT !.seq_number = x, !.idle = 0]
        BY <1>1, <2>2, <2>3 DEF Refreshed, Table
    <2>6. u.entries[i].mapper = m /\ u.entries[i].generation = g /\ u.entries[i].idle = 0
        BY <1>1, <2>2, <2>5 DEF Entry
    <2> HIDE DEF u
    <2> QED
        BY <2>2, <2>4, <2>6 DEF KeyOf, u
<1>3. CASE Matching(t, m, g) = {} /\ Live(t) # Slots
    <2> DEFINE i == LeastOf(Slots \ Live(t))
    <2>1. i \in Slots \ Live(t)
        BY <1>1, <1>3, LeastOfIsMember
    <2> HIDE DEF i
    <2>2. u = Inserted(t, i, m, g, x)
        BY <1>3 DEF session_table_add, i
    <2>3. i \in Live(u)
        BY <1>3, <2>1, <2>2, InsertedInv
    <2>4. u.entries[i] = [mapper |-> m, generation |-> g, seq_number |-> x,
                          complete |-> FALSE, idle |-> 0]
        BY <1>1, <2>1, <2>2 DEF Inserted, Table
    <2> HIDE DEF u
    <2> QED
        BY <2>3, <2>4 DEF KeyOf, u
<1>4. CASE Matching(t, m, g) = {} /\ Live(t) = Slots
    BY <1>4 DEF session_table_add
<1> QED
    BY <1>2, <1>3, <1>4

\* Completing a session and recomputing the summary change no name and no age.
LEMMA AnnouncedAges ==
    ASSUME TableInv(table), NEW m \in Mappers, NEW g \in Generations, NEW x \in Xids, NEW event
    PROVE  LET added == session_table_add(table, m, g, x)
               t == Announced(m, g, x, event)
           IN  /\ Live(t) = Live(added)
               /\ \A i \in Live(added) : /\ KeyOf(t, i) = KeyOf(added, i)
                                         /\ t.entries[i].idle = added.entries[i].idle
<1> DEFINE added == session_table_add(table, m, g, x)
           completed == Completed(added, m, g)
           t == Announced(m, g, x, event)
<1>1. TableInv(added)
    BY AddInv
<1>2. t = session_table_update_complete_status(added)
      \/ t = session_table_update_complete_status(completed)
    BY DEF Announced
<1> HIDE DEF added
<1>3. /\ WellCounted(added) /\ WellCounted(completed) /\ Live(completed) = Live(added)
      /\ \A i \in Live(added) : KeyOf(completed, i) = KeyOf(added, i)
    BY <1>1, CompletedWellCounted DEF TableInv
<1>4. \A i \in Live(added) : completed.entries[i].idle = added.entries[i].idle
    <2>1. added \in Table /\ \A i \in Live(added) : i \in Slots /\ added.entries[i] \in Entry
        BY <1>3, LiveEntries DEF WellCounted
    <2>2. \A i \in Live(added) :
             completed.entries[i] \in {added.entries[i], [added.entries[i] EXCEPT !.complete = TRUE]}
        BY <2>1 DEF Completed, Table
    <2> HIDE DEF completed
    <2> QED
        BY <2>1, <2>2 DEF Entry
<1> HIDE DEF t, completed
<1>5. /\ Live(t) = Live(added)
      /\ t.entries = added.entries \/ t.entries = completed.entries
    BY <1>2, <1>3, UpdateStatus
<1>6. /\ Live(t) = Live(added)
      /\ \A i \in Live(added) : /\ KeyOf(t, i) = KeyOf(added, i)
                                /\ t.entries[i].idle = added.entries[i].idle
    BY <1>3, <1>4, <1>5 DEF KeyOf
<1> QED
    BY <1>6 DEF t, added

LEMMA DiscoverNamesYoungest ==
    ASSUME TableInv(table), NamesYoungest(table, hello), hello \in Names,
           NEW m \in Mappers, NEW g \in Generations, NEW x \in Xids, NEW event, NEW tos
    PROVE  NamesYoungest(Announced(m, g, x, event), Named(Announced(m, g, x, event), m, g, tos))
<1> DEFINE added == session_table_add(table, m, g, x)
           t == Announced(m, g, x, event)
           h == Named(t, m, g, tos)
<1>1. /\ Live(t) = Live(added)
      /\ \A i \in Live(added) : /\ KeyOf(t, i) = KeyOf(added, i)
                                /\ t.entries[i].idle = added.entries[i].idle
    BY AnnouncedAges
<1>2. TableInv(t)
    BY AnnouncedInv
<1>3. \/ \E i \in Live(added) : KeyOf(added, i) = <<m, g>> /\ added.entries[i].idle = 0
      \/ added = table /\ Matching(table, m, g) = {}
    BY AddedAges
<1> HIDE DEF t, added
<1>4. \A i \in Live(t) : t.entries[i].idle \in Nat
    BY <1>2, LiveEntries DEF TableInv, WellCounted, Entry
<1>5. CASE \E i \in Live(added) : KeyOf(added, i) = <<m, g>> /\ added.entries[i].idle = 0
    <2>1. PICK i \in Live(t) : KeyOf(t, i) = <<m, g>> /\ t.entries[i].idle = 0
        BY <1>1, <1>5
    <2>2. Matching(t, m, g) # {}
        BY <2>1 DEF Matching, KeyOf
    <2>3. <<m, g>> \in NamedKeys(h)
        BY <2>2 DEF Named, Renamed, Names, NamedKeys
    <2>4. Youngest(t, i)
        BY <1>4, <2>1 DEF Youngest
    <2> QED
        BY <2>1, <2>3, <2>4 DEF NamesYoungest, t
<1>6. CASE added = table /\ Matching(table, m, g) = {}
    <2>1. Matching(t, m, g) = {}
        BY <1>1, <1>6 DEF Matching, KeyOf
    <2>2. h = hello
        BY <2>1 DEF Named
    <2> HIDE DEF h
    <2>3. NamesYoungest(t, hello)
        BY <1>1, <1>6 DEF NamesYoungest, Youngest
    <2> QED
        BY <2>2, <2>3 DEF t, h
<1> QED
    BY <1>3, <1>5, <1>6

\* The sweep takes the youngest session last, and a second ages all alike.
LEMMA TickNamesYoungest ==
    ASSUME TableInv(table), NamesYoungest(table, hello)
    PROVE  NamesYoungest(TableAfterTick, hello) /\ NamesYoungest(Aged(table), hello)
<1>1. /\ table \in Table /\ Live(table) \subseteq Slots /\ WellCounted(table)
      /\ \A i \in Live(table) : table.entries[i] \in Entry /\ table.entries[i].idle \in Nat
    BY LiveEntries DEF TableInv, WellCounted, Entry
<1>2. SessionExpiry \in Nat
    BY SessionTableAssumption
<1>3. NamesYoungest(TableAfterTick, hello)
    <2>1. CASE InactivityFired
        BY <2>1, TableAfterTickInv DEF NamesYoungest
    <2>2. CASE ~InactivityFired
        <3> DEFINE t == TableAfterTick
        <3>1. t = Dropped(table, Expired(table)) /\ Expired(table) \in SUBSET Live(table)
            BY <2>2 DEF TableAfterTick, SweepExpired, Expired
        <3>2. /\ Live(t) = Live(table) \ Expired(table)
              /\ \A i \in Live(t) : t.entries[i] = table.entries[i]
            BY <1>1, <3>1, DroppedInv
        <3> HIDE DEF t
        <3>3. ASSUME NEW j \in Live(t)
              PROVE  \E i \in Live(t) :
                        KeyOf(t, i) \in NamedKeys(hello) /\ Youngest(t, i)
            <4>1. PICK i \in Live(table) : /\ KeyOf(table, i) \in NamedKeys(hello)
                                           /\ Youngest(table, i)
                BY <3>2 DEF NamesYoungest
            <4>2. table.entries[i].idle <= SessionExpiry
                BY <1>1, <1>2, <3>2, <4>1 DEF Youngest, Expired
            <4>3. i \in Live(t)
                BY <1>1, <1>2, <3>2, <4>2 DEF Expired
            <4> QED
                BY <3>2, <4>1, <4>3 DEF KeyOf, Youngest
        <3> QED
            BY <3>3 DEF NamesYoungest, t
    <2> QED
        BY <2>1, <2>2
<1>4. NamesYoungest(Aged(table), hello)
    <2> DEFINE t == Aged(table)
    <2>1. Live(t) = Live(table) /\ \A i \in Live(table) : KeyOf(t, i) = KeyOf(table, i)
        BY AgedInv
    <2>2. \A i \in Live(table) :
             t.entries[i].idle = IF table.entries[i].idle <= SessionExpiry
                                   THEN table.entries[i].idle + 1 ELSE table.entries[i].idle
        BY <1>1 DEF Aged, Table, Live, Entry
    <2> HIDE DEF t
    <2>3. \A i \in Live(table) : Youngest(table, i) => Youngest(t, i)
        BY <1>1, <1>2, <2>1, <2>2 DEF Youngest
    <2>4. NamesYoungest(t, hello)
        BY <2>1, <2>3 DEF NamesYoungest
    <2> QED
        BY <2>4 DEF t
<1> QED
    BY <1>3, <1>4

\* A periodic Hello names the mapper of a session that is in the table, with
\* its generation in one of the two fields that keep them: MapperHwAddress and
\* the generations, which only Discovers write, never outlive the session they
\* were copied from while another session keeps Hellos going.
THEOREM LoopHelloNamesLiveMapper == Spec => HelloNamesLiveMapper
<1>1. Init => NamesYoungest(table, hello)
    BY EmptyTableInv DEF Init, NamesYoungest
<1>2. LoopInv /\ NamesYoungest(table, hello) /\ [Next]_vars => NamesYoungest(table, hello)'
    <2> SUFFICES ASSUME LoopInv, NamesYoungest(table, hello), [Next]_vars
                 PROVE  NamesYoungest(table', hello')
        OBVIOUS
    <2>1. TableInv(table) /\ NamesYoungest(EmptyTable, hello')
        BY EmptyTableInv DEF LoopInv, NamesYoungest
    <2>2. CASE \E m \in Mappers, g \in Generations, x \in Xids, acking \in BOOLEAN, tos \in ToSs :
                  RxDiscover(m, g, x, acking, tos)
        <3>1. PICK m \in Mappers, g \in Generations, x \in Xids, acking \in BOOLEAN, tos \in ToSs :
                  RxDiscover(m, g, x, acking, tos)
            BY <2>2
        <3> DEFINE event == DiscoverEvent(m, g, x, acking)
        <3> HIDE DEF event
        <3>2. /\ table' = EmptyTable \/ table' = Announced(m, g, x, event)
              /\ hello' = Named(Announced(m, g, x, event), m, g, tos)
            BY <3>1 DEF RxDiscover, Kept, event
        <3>3. hello \in Names
            BY DEF LoopInv, TypeOK, LoopTypeOK
        <3> QED
            BY <2>1, <3>2, <3>3, DiscoverNamesYoungest
    <2>3. CASE \/ \E broadcast \in BOOLEAN : RxReset(broadcast)
               \/ RxHello
               \/ \E opcode \in PlainOpcodes \cup {opcode_charge} : RxOther(opcode)
        <3>1. (table' = EmptyTable \/ table' = table) /\ hello' = hello
            BY <2>3 DEF RxReset, RxHello, RxOther, Kept
        <3> QED
            BY <2>1, <3>1
    <2>4. CASE Tick
        BY <2>1, <2>4, TickNamesYoungest DEF Tick
    <2>5. CASE UnitPasses \/ UNCHANGED vars
        <3>1. (table' = Aged(table) \/ table' = table) /\ hello' = hello
            BY <2>5 DEF UnitPasses, SecondPasses, vars, loopVars
        <3> QED
            BY <2>1, <3>1, TickNamesYoungest
    <2> QED
        BY <2>2, <2>3, <2>4, <2>5 DEF Next, Rx
<1>3. LoopInv /\ LoopInv' /\ NamesYoungest(table, hello)' /\ [Next]_vars
      => [HelloSent => \E g \in {hello.topology, hello.quick} :
                          <<hello.mapper, g>> \in SessionsOf(table')]_vars
    <2> SUFFICES ASSUME LoopInv, LoopInv', NamesYoungest(table', hello'), [Next]_vars, HelloSent
                 PROVE  \E g \in {hello.topology, hello.quick} :
                           <<hello.mapper, g>> \in SessionsOf(table')
        OBVIOUS
    <2>1. hello' = hello /\ Live(table') # {}
        BY HelloSentStep DEF Tick
    <2> QED
        BY <2>1 DEF NamesYoungest, NamedKeys, SessionsOf
<1> QED
    BY <1>1, <1>2, <1>3, LoopInvariant, PTL DEF Spec, HelloNamesLiveMapper
=============================================================================
