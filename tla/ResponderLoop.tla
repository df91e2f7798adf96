---------------------------- MODULE ResponderLoop ----------------------------
(***************************************************************************)
(* The listener thread of one interface of the Darwin daemon: lltdLoop     *)
(* (os/darwin/daemon/darwin-main.c) with everything it drives in           *)
(* lltdResponder/lltdAutomata.c.  It is the only daemon that runs          *)
(* automata_tick.  The thread waits in recvfrom for at most one unit of    *)
(* time; a frame is handled and then followed by a tick, a timeout leads   *)
(* to a tick alone.                                                        *)
(*                                                                         *)
(* parseFrame, which answers the frame, touches no variable of this        *)
(* module; it may sleep, so time can pass between a frame and its tick.    *)
(***************************************************************************)
EXTENDS SessionTable, MappingEngine, RepeatBand

CONSTANTS
    UnitsPerSecond,   \* units of time in a second
    ToSs,             \* types of service a Discover may carry
    PlainOpcodes,     \* opcodes of the frames no handler of the loop singles out
    MaxLag,           \* bound: units that may pass without a tick
    NoMapper          \* the zero MAC address

tos_discovery == 0
tos_quick_discovery == 1
tos_qos_diagnostics == 2

SpecialOpcodes == {opcode_discover, opcode_hello, opcode_reset, opcode_charge}

ASSUME LoopAssumption ==
    /\ UnitsPerSecond \in Nat \ {0}
    /\ ToSs \subseteq {tos_discovery, tos_quick_discovery, tos_qos_diagnostics}
    /\ PlainOpcodes \subseteq Opcodes \ SpecialOpcodes
    /\ MaxLag \in Nat \ {0}
    /\ NoMapper \notin Mappers
    /\ Generations \subseteq Nat

VARIABLES
    pc,         \* "recv": in recvfrom; "tick": a frame was handled, its tick is due
    phase,      \* units since the last whole second
    lag,        \* units since the last tick
    session,    \* the session automaton
    table,      \* the session table
    hello       \* whom the interface answers: MapperHwAddress,
                \* MapperGenerationTopology and MapperGenerationQuick

loopVars == <<pc, phase, lag, session, table, hello>>
vars == <<loopVars, mappingVars, bandVars>>

Init ==
    /\ pc = "recv"
    /\ phase \in 0..UnitsPerSecond - 1
    /\ lag = 0
    /\ session = [state |-> "Nascent", idle |-> 0]
    /\ table = EmptyTable
    /\ hello = [mapper |-> NoMapper, topology |-> 0, quick |-> 0]
    /\ MappingInit
    /\ BandInit

-----------------------------------------------------------------------------
(* Frames.                                                                 *)

\* derive_session_event for a Discover.  The table is searched by mapper and
\* generation, so the session it finds is never another mapper's and
\* sess_discover_conflicting is never answered.
DiscoverEvent(m, g, x, acking) ==
    LET found == Matching(table, m, g)
        changedXid == found # {} /\ table.entries[LeastOf(found)].seq_number # x
        conflicting == found # {} /\ table.entries[LeastOf(found)].mapper # m
    IN  CASE conflicting                         -> sess_discover_conflicting
          [] ~conflicting /\ acking /\ changedXid  -> sess_discover_acking_chgd_xid
          [] ~conflicting /\ acking /\ ~changedXid -> sess_discover_acking
          [] ~conflicting /\ ~acking /\ changedXid -> sess_discover_noack_chgd_xid
          [] OTHER                               -> sess_discover_noack

switch_state_session(event) ==
    session' = SwitchState(SessionTransitions, SessionTimeouts, session, event)

\* Mutant: the summary is not recomputed after completing the session.
Announced_OldSummary(m, g, x, event) ==
    LET added == session_table_add(table, m, g, x)
    IN  IF event \in {sess_discover_acking, sess_discover_acking_chgd_xid}
          THEN Completed(added, m, g) ELSE added

\* The table after the session of a Discover was added and, if the Discover
\* acknowledges us, completed.  Nothing makes it incomplete again.
Announced(m, g, x, event) ==
    LET added == session_table_add(table, m, g, x)
    IN  session_table_update_complete_status(
            IF event \in {sess_discover_acking, sess_discover_acking_chgd_xid}
              THEN Completed(added, m, g) ELSE added)

\* Mutant: a mapping that ends leaves the table alone.
Kept_All(t) == t

\* The loop clears the table when the frame's step of the mapping automaton
\* led to Quiescent, the session the frame has just announced included.
Kept(t) == IF BecameQuiescent THEN EmptyTable ELSE t

Received == pc = "recv" /\ pc' = "tick" /\ UNCHANGED <<phase, lag>>

\* The Discover's mapper, with its generation in the field of its kind.
Renamed(m, g, tos) ==
    IF tos = tos_quick_discovery
      THEN [hello EXCEPT !.mapper = m, !.quick = g]
      ELSE [hello EXCEPT !.mapper = m, !.topology = g]

\* Mutant: only a new session is named.
Named_NewOnly(t, m, g, tos) == IF Matching(table, m, g) # {} THEN hello ELSE Renamed(m, g, tos)

\* What periodic Hellos name once the session is in table t: a full table
\* turns a session away, and then the one named before stays.
Named(t, m, g, tos) == IF Matching(t, m, g) = {} THEN hello ELSE Renamed(m, g, tos)

\* acking: the station list is empty or names us.
RxDiscover(m, g, x, acking, tos) ==
    LET event == DiscoverEvent(m, g, x, acking)
    IN  /\ Received
        /\ MappingOnFrame(opcode_discover)
        /\ table' = Kept(Announced(m, g, x, event))
        /\ hello' = Named(Announced(m, g, x, event), m, g, tos)
        /\ switch_state_session(event)
        /\ BandOnDiscover

RxReset(broadcast) ==
    /\ Received
    /\ MappingOnFrame(opcode_reset)
    /\ table' = EmptyTable
    /\ switch_state_session(IF broadcast THEN sess_topo_reset ELSE sess_reset)
    /\ UNCHANGED <<hello, bandVars>>

RxHello ==
    /\ Received
    /\ MappingOnFrame(opcode_hello)
    /\ table' = Kept(table)
    /\ switch_state_session(sess_hello)
    /\ BandOnHello
    /\ UNCHANGED hello

\* Frames that have no session event and no meaning for the enumeration.
RxOther(opcode) ==
    /\ Received
    /\ MappingOnFrame(opcode)
    /\ table' = Kept(table)
    /\ UNCHANGED <<session, hello, bandVars>>

Rx ==
    \/ \E m \in Mappers, g \in Generations, x \in Xids, acking \in BOOLEAN, tos \in ToSs :
          RxDiscover(m, g, x, acking, tos)
    \/ \E broadcast \in BOOLEAN : RxReset(broadcast)
    \/ RxHello
    \/ \E opcode \in PlainOpcodes \cup {opcode_charge} : RxOther(opcode)

-----------------------------------------------------------------------------
(* automata_tick, and time.                                                *)

\* Mutant: sessions leave only with the whole mapping.
TableAfterTick_NoExpiry == IF InactivityFired THEN EmptyTable ELSE table

TableAfterTick == SweepExpired(IF InactivityFired THEN EmptyTable ELSE table)

\* The tick follows a frame at once; alone it follows a receive timeout.
Tick ==
    /\ pc = "tick" \/ lag > 0
    /\ pc' = "recv"
    /\ lag' = 0
    /\ MappingTick
    /\ table' = TableAfterTick
    /\ BandTick(session_table_is_empty(TableAfterTick),
                session_table_all_complete(TableAfterTick))
    /\ UNCHANGED <<phase, session, hello>>

\* Ages of the automata and the table advance when the clock's whole seconds do.
SecondPasses ==
    /\ MappingSecondPasses
    /\ session' = Idle(session, SessionTimeout + 1)
    /\ table' = Aged(table)

UnitPasses ==
    /\ lag < MaxLag
    /\ lag' = lag + 1
    /\ phase' = (phase + 1) % UnitsPerSecond
    /\ BandUnitPasses
    /\ IF phase' = 0 THEN SecondPasses ELSE UNCHANGED <<mappingVars, session, table>>
    /\ UNCHANGED <<pc, hello>>

Next == Rx \/ Tick \/ UnitPasses

Spec == Init /\ [][Next]_vars

\* The clock runs, and the thread is scheduled: recvfrom returns within its
\* timeout and parseFrame returns.  No frame is assumed to arrive.
FairSpec == Spec /\ WF_vars(Tick) /\ WF_vars(UnitPasses)

-----------------------------------------------------------------------------
Names == [mapper : Mappers \cup {NoMapper}, topology : Generations \cup {0},
          quick : Generations \cup {0}]

LoopTypeOK ==
    /\ pc \in {"recv", "tick"}
    /\ phase \in 0..UnitsPerSecond - 1
    /\ lag \in 0..MaxLag
    /\ session \in [state : SessionStates, idle : 0..SessionTimeout + 1]
    /\ table \in Table
    /\ hello \in Names

\* Every variable keeps its type.
TypeOK == LoopTypeOK /\ MappingTypeOK /\ BandTypeOK

\* After every handler the cached count and all_complete agree with the
\* slots and no session is in two of them, although adding, completing,
\* expiring and clearing each touch only some of the three.
Consistent == TableConsistent(table)

\* Sessions are held only by an interface that is being mapped: a frame or a
\* tick that ends the mapping leaves no session behind for the enumeration.
SessionsOnlyWhileMapping == Live(table) # {} => mapping.state # "Quiescent"

\* Between handlers the enumeration agrees with the table: Pausing, in which
\* Hellos are sent, only while a session is incomplete, and Wait only while
\* there are sessions and all are complete.
EnumerationFollowsTable ==
    pc = "recv" =>
        /\ enumeration = "Pausing" => \E i \in Live(table) : ~table.entries[i].complete
        /\ enumeration = "Wait" =>
              Live(table) # {} /\ \A i \in Live(table) : table.entries[i].complete

HelloSent == sinceTx' < sinceTx

\* A periodic Hello names the mapper of a session that is in the table, one
\* the interface remembers the generation of: mapper and generations are kept
\* apart from the table and could outlive it.  Which kind of Discover came
\* last is not remembered; GenerationClaim is about what becomes of that.
HelloNamesLiveMapper ==
    [][HelloSent => \E g \in {hello.topology, hello.quick} :
                       <<hello.mapper, g>> \in SessionsOf(table')]_vars

\* A periodic Hello is sent only for somebody: at the end of its tick a
\* session waits to be completed.
HelloOnlyForIncomplete ==
    [][HelloSent => \E i \in Live(table') : ~table'.entries[i].complete]_vars

\* The table implements the registry of sessions for the whole loop.
Registry == INSTANCE SessionRegistry WITH
                Sessions <- Keys,
                Capacity <- MaxEntries,
                live     <- SessionsOf(table),
                done     <- CompleteSessionsOf(table),
                isEmpty  <- session_table_is_empty(table),
                allDone  <- session_table_all_complete(table)

ImplementsRegistry == Registry!RegistrySpec

Quiet ==
    /\ mapping.state = "Quiescent"
    /\ enumeration = "Quiescent"
    /\ Live(table) = {}
    /\ inactive = Off /\ charge = Off

\* When frames stop coming the interface lets go of everything for good.
SilenceEndsMapping == []<><<Rx>>_vars \/ <>[]Quiet

\* A session whose mapper stops announcing it leaves the table, even while
\* other frames keep the mapping alive.
Announces(k) ==
    \E x \in Xids, acking \in BOOLEAN, tos \in ToSs : RxDiscover(k[1], k[2], x, acking, tos)

AbandonedSessionsLeave ==
    \A k \in Keys : []<><<Announces(k)>>_vars \/ []<>(k \notin SessionsOf(table))

\* While a session waits to be completed periodic Hellos keep being sent.
HelloKeepsComing == []<>(enumeration # "Pausing") \/ []<><<HelloSent>>_vars
=============================================================================
