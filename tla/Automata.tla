------------------------------ MODULE Automata ------------------------------
(***************************************************************************)
(* The three transition tables of lltdResponder/lltdAutomata.c and the     *)
(* function that steps an automaton through its table.                     *)
(*                                                                         *)
(* An automaton is a record [state, idle]: current_state and the whole     *)
(* seconds between last_ts and now.  States are named as in the source;    *)
(* inputs keep the source's numbers, because the tables of the session     *)
(* automaton mix two numberings (session events and frame opcodes).        *)
(***************************************************************************)
EXTENDS Integers, FiniteSets

CONSTANTS
    CommandTimeout,   \* seconds a mapping session may idle in Command (5)
    EmitTimeout,      \* seconds it may idle in Emit (30)
    SessionTimeout    \* seconds of every state of the session automaton (1)

ASSUME TimeoutAssumption ==
    /\ CommandTimeout \in Nat \ {0}
    /\ EmitTimeout \in Nat \ {0}
    /\ SessionTimeout \in Nat \ {0}

-----------------------------------------------------------------------------
(* Inputs.                                                                 *)

Timeout == -1

opcode_discover      == 0
opcode_hello         == 1
opcode_emit          == 2
opcode_train         == 3
opcode_probe         == 4
opcode_ack           == 5
opcode_query         == 6
opcode_queryResp     == 7
opcode_reset         == 8
opcode_charge        == 9
opcode_flat          == 10
opcode_queryLargeTlv == 11
opcode_queryLargeTlvResp == 12

Opcodes == opcode_discover .. opcode_queryLargeTlvResp

sess_discover_conflicting     == 0
sess_reset                    == 1
sess_discover_noack           == 2
sess_discover_acking          == 3
sess_discover_noack_chgd_xid  == 4
sess_discover_acking_chgd_xid == 5
sess_topo_reset               == 6
sess_hello                    == 7

enum_sess_complete     == 0
enum_sess_not_complete == 1
enum_hello             == 2
enum_new_session       == 3

-----------------------------------------------------------------------------
(* Tables.  -2 and -3 of the mapping table ("emitee sent", "emitees done") *)
(* are inputs nothing in the program ever feeds.                           *)

MappingStates == {"Quiescent", "Command", "Emit"}

MappingTransitions ==
    {<<"Quiescent", opcode_discover,      "Command">>,
     <<"Command",   Timeout,              "Quiescent">>,
     <<"Command",   opcode_reset,         "Quiescent">>,
     <<"Command",   opcode_query,         "Command">>,
     <<"Command",   opcode_queryLargeTlv, "Command">>,
     <<"Command",   opcode_charge,        "Command">>,
     <<"Command",   opcode_probe,         "Command">>,
     <<"Command",   opcode_emit,          "Emit">>,
     <<"Emit",      opcode_probe,         "Emit">>,
     <<"Emit",      -2,                   "Emit">>,
     <<"Emit",      -3,                   "Command">>,
     <<"Emit",      Timeout,              "Quiescent">>,
     <<"Emit",      opcode_reset,         "Quiescent">>}

\* The timeout of each state; 0 means the state never times out.
MappingTimeouts ==
    [s \in MappingStates |-> CASE s = "Quiescent" -> 0
                               [] s = "Command"   -> CommandTimeout
                               [] s = "Emit"      -> EmitTimeout]

SessionStates == {"Temporary", "Nascent", "Pending", "Complete"}

SessionTransitions ==
    {<<"Nascent",   sess_discover_conflicting,     "Temporary">>,
     <<"Temporary", Timeout,                       "Nascent">>,
     <<"Temporary", sess_reset,                    "Nascent">>,
     <<"Temporary", sess_hello,                    "Nascent">>,
     <<"Temporary", sess_topo_reset,               "Nascent">>,
     <<"Nascent",   sess_discover_noack,           "Pending">>,
     <<"Pending",   Timeout,                       "Nascent">>,
     <<"Pending",   sess_reset,                    "Nascent">>,
     <<"Pending",   sess_discover_noack_chgd_xid,  "Pending">>,
     <<"Pending",   sess_discover_acking,          "Complete">>,
     <<"Pending",   sess_discover_acking_chgd_xid, "Complete">>,
     <<"Nascent",   sess_discover_acking,          "Complete">>,
     <<"Complete",  opcode_reset,                  "Nascent">>,
     <<"Complete",  Timeout,                       "Nascent">>,
     <<"Complete",  sess_discover_acking_chgd_xid, "Complete">>,
     <<"Complete",  sess_discover_noack_chgd_xid,  "Pending">>}

SessionTimeouts == [s \in SessionStates |-> SessionTimeout]

EnumerationStates == {"Quiescent", "Pausing", "Wait"}

EnumerationTransitions ==
    {<<"Quiescent", enum_sess_not_complete, "Pausing">>,
     <<"Quiescent", enum_new_session,       "Pausing">>,
     <<"Pausing",   enum_sess_complete,     "Wait">>,
     <<"Pausing",   enum_hello,             "Pausing">>,
     <<"Pausing",   enum_new_session,       "Pausing">>,
     <<"Wait",      enum_sess_not_complete, "Pausing">>,
     <<"Wait",      enum_sess_complete,     "Quiescent">>,
     <<"Wait",      enum_new_session,       "Pausing">>}

-----------------------------------------------------------------------------
(* Steps.                                                                  *)

\* The state the table leads to; an input the table has no row for is ignored.
Target(transitions, state, input) ==
    LET rows == {row \in transitions : row[1] = state /\ row[2] = input}
    IN  IF rows = {} THEN state ELSE (CHOOSE row \in rows : TRUE)[3]

TimedOut(timeouts, fsm) ==
    /\ timeouts[fsm.state] # 0
    /\ fsm.idle > timeouts[fsm.state]

\* A step of the mapping or the session automaton.  A state idle for longer
\* than its timeout replaces the input by Timeout: the real input is lost.
\* The source then calls itself again with Timeout, now on a fresh last_ts.
SwitchState(transitions, timeouts, fsm, input) ==
    [state |-> IF TimedOut(timeouts, fsm)
                 THEN Target(transitions, Target(transitions, fsm.state, Timeout), Timeout)
                 ELSE Target(transitions, fsm.state, input),
     idle  |-> 0]

\* A second passes for an automaton.  idle saturates at cap, which a module
\* takes one above its longest timeout: larger values behave alike.
Idle(fsm, cap) == [fsm EXCEPT !.idle = IF @ < cap THEN @ + 1 ELSE cap]
=============================================================================
