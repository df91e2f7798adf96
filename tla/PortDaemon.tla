------------------------------ MODULE PortDaemon ------------------------------
(***************************************************************************)
(* The daemons of the ports other than Darwin: Linux with NetworkManager,  *)
(* embedded Linux, FreeBSD, ESXi, Haiku, older BeOS, SunOS and Windows.    *)
(*                                                                         *)
(* All have one shape.  main lists the interfaces of the system, opens     *)
(* each, starts a thread for it with a pointer into an array, waits for a  *)
(* signal, and then joins and releases one interface after the other.  A   *)
(* thread waits for frames without a timeout and feeds their opcodes to    *)
(* the automata; nothing ticks.  What differs is kept in a record a port.  *)
(***************************************************************************)
EXTENDS Automata, Sequences, SequencesExt

CONSTANTS
    Interfaces,    \* names of interfaces that can carry LLTD
    Loopback,      \* an interface that must not
    MaxEntries,    \* bound: names main lists
    Frames         \* opcodes of the frames that arrive

ASSUME DaemonAssumption ==
    /\ Loopback \notin Interfaces
    /\ MaxEntries \in Nat
    /\ Frames \subseteq Opcodes

-----------------------------------------------------------------------------
(* The ports.  opens: what opening an interface acquires, in order.        *)

\* Names, kernel index, socket bound to the interface, receive buffer.
PacketOpens == <<"name", "socket", "bind", "buffer">>
ESXiOpens == PacketOpens
BeosOpens == PacketOpens
EmbeddedOpens == PacketOpens
BpfOpens == <<"name", "socket", "bind", "buffer">>
DlpiOpens == <<"socket", "bind">>

\* list: every entry, the entries but for duplicates, or the running ones
\* but for duplicates and loopback; array: allocated whole or grown;
\* reads: a frame, several, or none at all; feeds the enumeration automaton.
Linux == [list |-> "no loopback", array |-> "grows",
            opens |-> PacketOpens, reads |-> "one", enumerates |-> FALSE]
Embedded == [list |-> "distinct", array |-> "fixed",
            opens |-> EmbeddedOpens, reads |-> "one", enumerates |-> FALSE]
FreeBSD == [list |-> "distinct", array |-> "fixed",
            opens |-> BpfOpens, reads |-> "several", enumerates |-> TRUE]
ESXi == [list |-> "distinct", array |-> "fixed",
            opens |-> ESXiOpens, reads |-> "one", enumerates |-> TRUE]
Haiku == [list |-> "distinct", array |-> "fixed",
            opens |-> BeosOpens, reads |-> "one", enumerates |-> TRUE]
Beos == [list |-> "all", array |-> "fixed",
            opens |-> BeosOpens, reads |-> "one", enumerates |-> TRUE]
SunOS == [list |-> "no loopback", array |-> "fixed",
            opens |-> DlpiOpens, reads |-> "one", enumerates |-> TRUE]
\* The main thread polls; both backends are stubs that find no frame.
Windows == [list |-> "no loopback", array |-> "fixed",
            opens |-> <<"socket">>, reads |-> "none", enumerates |-> TRUE]

Ports == {Linux, Embedded, FreeBSD, ESXi, Haiku, Beos, SunOS, Windows}

\* Mutant: duplicates stay.
Listed_Duplicates(p, names, n) == p.list = "all" \/ n # Loopback

\* Whether main takes an entry of the system's list after those names.
Listed(p, names, n) ==
    CASE p.list = "all"         -> TRUE
      [] p.list = "no loopback" -> n # Loopback
      [] p.list = "distinct"    -> n # Loopback /\ ~Contains(names, n)

-----------------------------------------------------------------------------
VARIABLES
    port,       \* which daemon this is
    main,       \* where main is
    todo,       \* names not yet opened
    slots,      \* the array: the interfaces started
    block,      \* which allocation the array is in; 0: none
    owned,      \* descriptors and buffers open
    reaped,     \* how many slots have been joined and released
    exitFlag

vars == <<port, main, todo, slots, block, owned, reaped, exitFlag>>

Running == main \notin {"exited", "crashed"}

Automatons == [mapping |-> "Quiescent", session |-> "Nascent", enumeration |-> "Quiescent"]

Init ==
    /\ port \in Ports
    /\ main = "list"
    /\ todo = <<>> /\ slots = <<>>
    /\ block = 0
    /\ owned = [socket |-> 0, buffer |-> 0]
    /\ reaped = 0
    /\ exitFlag = FALSE

-----------------------------------------------------------------------------
(* main.                                                                   *)

\* What comes next in the system's list: getifaddrs has an entry for every
\* address of an interface, NetworkManager, NWAM and Windows one for a device.
Entries(p, names) ==
    {n \in Interfaces \cup {Loopback} : p.list = "no loopback" => ~Contains(names, n)}

\* An entry that main takes.  One that it skips, or has no memory for, leaves
\* no trace: a later entry of the same interface may be taken.
List ==
    /\ main = "list" /\ Len(todo) < MaxEntries
    /\ \E n \in Entries(port, todo) :
         Listed(port, todo, n) /\ todo' = Append(todo, n)
    /\ UNCHANGED <<port, main, slots, block, owned, reaped, exitFlag>>

\* The list ends, or could not be had; without a name, or memory for the
\* array, main gives up.  The array of Linux starts empty.
EndList ==
    /\ main = "list"
    /\ \/ main' = "exited" /\ UNCHANGED block
       \/ /\ todo # <<>>
          /\ main' = IF port.array = "grows" THEN "expand" ELSE "open"
          /\ block' = IF port.array = "grows" THEN 0 ELSE 1
    /\ UNCHANGED <<port, todo, slots, owned, reaped, exitFlag>>

\* realloc by one element may move the array, and frees it where it was; out
\* of memory, the rest of the list is given up.
Expand ==
    /\ main = "expand" /\ todo # <<>>
    /\ \/ /\ main' = "open"
          /\ block' \in {IF block = 0 THEN 1 ELSE block, block + 1}
          /\ UNCHANGED todo
       \/ todo' = <<>> /\ UNCHANGED <<main, block>>
    /\ UNCHANGED <<port, slots, owned, reaped, exitFlag>>

\* Mutant: a bind that fails leaves the socket open.
Kept_AfterBind(opens, n) ==
    [socket |-> IF n = Len(opens) \/ (n > 0 /\ opens[n] = "socket") THEN 1 ELSE 0,
     buffer |-> IF n = Len(opens) /\ Contains(opens, "buffer") THEN 1 ELSE 0]

\* What fillInterfaceDetails keeps open after n of its acquisitions worked:
\* nothing unless all did.
Kept(opens, n) ==
    [r \in {"socket", "buffer"} |-> IF n = Len(opens) /\ Contains(opens, r) THEN 1 ELSE 0]

Plus(a, b) == [r \in {"socket", "buffer"} |-> a[r] + b[r]]
Minus(a, b) == [r \in {"socket", "buffer"} |-> a[r] - b[r]]

\* Open the next interface; if all of it works, start its thread.  The result
\* of pthread_create is not looked at.
Open ==
    /\ main = "open" /\ todo # <<>>
    /\ \E n \in 0 .. Len(port.opens), created \in BOOLEAN :
         /\ owned' = Plus(owned, Kept(port.opens, n))
         /\ slots' = IF n < Len(port.opens) THEN slots
                     ELSE Append(slots,
                            [name |-> Head(todo), block |-> block, fsm |-> Automatons,
                             pc |-> CASE port.reads = "none" -> "polled"
                                      [] port.reads # "none" /\ created -> "check"
                                      [] port.reads # "none" /\ ~created -> "never"])
    /\ todo' = Tail(todo)
    /\ main' = IF port.array = "grows" THEN "expand" ELSE "open"
    /\ UNCHANGED <<port, block, reaped, exitFlag>>

\* All are open.  Linux gives up without an array; an array without an
\* interface is waited with everywhere.
Opened ==
    /\ main \in {"expand", "open"} /\ todo = <<>>
    /\ main' = IF block = 0 THEN "exited" ELSE "wait"
    /\ UNCHANGED <<port, todo, slots, block, owned, reaped, exitFlag>>

Wake ==
    /\ main = "wait" /\ exitFlag
    /\ main' = "join"
    /\ UNCHANGED <<port, todo, slots, block, owned, reaped, exitFlag>>

\* Mutant: what the thread uses is released without a join.
Joined_Unwaited(slot) == TRUE

\* pthread_join returns, or nothing is joined.
Joined(slot) == slot.pc \in {"ended", "polled", "never"}

\* Its automata, freed.
Freed == [mapping |-> "freed", session |-> "freed", enumeration |-> "freed"]

\* Joining a thread that was never created is undefined: it may crash.
Reap ==
    /\ main = "join" /\ reaped < Len(slots)
    /\ Joined(slots[reaped + 1])
    /\ \/ /\ reaped' = reaped + 1
          /\ owned' = Minus(owned, Kept(port.opens, Len(port.opens)))
          /\ slots' = [slots EXCEPT ![reaped'].fsm = Freed]
          /\ UNCHANGED main
       \/ /\ slots[reaped + 1].pc = "never"
          /\ main' = "crashed"
          /\ UNCHANGED <<slots, reaped, owned>>
    /\ UNCHANGED <<port, todo, block, exitFlag>>

Finish ==
    /\ main = "join" /\ reaped = Len(slots)
    /\ main' = "exited" /\ block' = 0
    /\ UNCHANGED <<port, todo, slots, owned, reaped, exitFlag>>

-----------------------------------------------------------------------------
(* The threads.                                                            *)

EnumerationInput(opcode) ==
    CASE opcode = opcode_hello    -> enum_hello
      [] opcode = opcode_discover -> enum_new_session
      [] opcode \notin {opcode_hello, opcode_discover} -> enum_sess_complete

\* Mutant: the mapping automaton gets the events of the enumeration.
Fed_Events(p, fsm, opcode, idle) ==
    [mapping |-> SwitchState(MappingTransitions, MappingTimeouts,
                             [state |-> fsm.mapping, idle |-> idle],
                             EnumerationInput(opcode)).state,
     session |-> SwitchState(SessionTransitions, SessionTimeouts,
                             [state |-> fsm.session, idle |-> idle], opcode).state,
     enumeration |-> IF p.enumerates
                       THEN Target(EnumerationTransitions, fsm.enumeration,
                                   EnumerationInput(opcode))
                       ELSE fsm.enumeration]

\* A frame after idle seconds.  All three automata were last stepped by the
\* frame before.
Fed(p, fsm, opcode, idle) ==
    [mapping |-> SwitchState(MappingTransitions, MappingTimeouts,
                             [state |-> fsm.mapping, idle |-> idle], opcode).state,
     session |-> SwitchState(SessionTransitions, SessionTimeouts,
                             [state |-> fsm.session, idle |-> idle], opcode).state,
     enumeration |-> IF p.enumerates
                       THEN Target(EnumerationTransitions, fsm.enumeration,
                                   EnumerationInput(opcode))
                       ELSE fsm.enumeration]

\* Idle times that differ: within every timeout, and each one longer.
Idles == {0} \cup {t + 1 : t \in {SessionTimeout, CommandTimeout, EmitTimeout}}

\* The thread of slot k goes from one point to another.  With the array moved
\* away from under it, it may crash.
Goes(k, from, to) ==
    /\ Running /\ slots[k].pc = from
    /\ main' \in {main} \cup (IF slots[k].block = block THEN {} ELSE {"crashed"})
    /\ slots' = [slots EXCEPT ![k].pc = to]
    /\ UNCHANGED <<port, todo, block, owned, reaped, exitFlag>>

\* Mutant: the loop does not look at exitFlag.
Check_Never(k) == Goes(k, "check", "receive")

Check(k) == Goes(k, "check", IF exitFlag THEN "ended" ELSE "receive")

\* recvfrom returns a frame, or without one: back to the check.  On FreeBSD
\* a read returns several frames, here up to two.
Receive(k) ==
    \E to \in {"handle", "check"} \cup (IF port.reads = "several" THEN {"handle two"} ELSE {}) :
        Goes(k, "receive", to)

HandleOne(k, from, to) ==
    /\ Running /\ slots[k].pc = from
    /\ main' \in {main} \cup (IF slots[k].block = block THEN {} ELSE {"crashed"})
    /\ \E opcode \in Frames, idle \in Idles :
         slots' = [slots EXCEPT ![k].pc = to, ![k].fsm = Fed(port, @, opcode, idle)]
    /\ UNCHANGED <<port, todo, block, owned, reaped, exitFlag>>

Handle(k) == HandleOne(k, "handle two", "handle") \/ HandleOne(k, "handle", "check")

\* SIGINT or SIGTERM.
Signal ==
    /\ Running /\ ~exitFlag
    /\ exitFlag' = TRUE
    /\ UNCHANGED <<port, main, todo, slots, block, owned, reaped>>

Main == List \/ EndList \/ Expand \/ Open \/ Opened \/ Wake \/ Reap \/ Finish

Thread(k) == Check(k) \/ Receive(k) \/ Handle(k)

Next == Main \/ Signal \/ \E k \in DOMAIN slots : Thread(k)

Spec == Init /\ [][Next]_vars

\* At most MaxEntries interfaces are started.
Ks == 1 .. MaxEntries

\* The scheduler runs main; a thread also needs frames.
FairSpec == Spec /\ WF_vars(Main)

-----------------------------------------------------------------------------
Alive(slot) == slot.pc \in {"check", "receive", "handle", "handle two"}

\* Whichever interfaces fail to open and wherever they fail, the descriptors
\* and buffers open are those of the slots not yet released: none at the end.
Accounted ==
    \A r \in {"socket", "buffer"} :
        owned[r] = IF Contains(port.opens, r) THEN Len(slots) - reaped ELSE 0

\* What a thread uses is there: its socket and buffer are not released before
\* it ended, and its array is the one main has, on every port but Linux, whose
\* main may move the array.  No thread is cut off by an orderly end.
HeldIsAllocated ==
    \A k \in DOMAIN slots : Alive(slots[k]) =>
        /\ k > reaped /\ main # "exited"
        /\ slots[k].block = block \/ port = Linux

\* No interface is answered for by two threads, and none that is loopback;
\* older BeOS, which opens every entry of its list, is the exception.
OneThreadPerInterface ==
    port # Beos =>
        \A i, j \in DOMAIN slots :
            slots[i].name # Loopback /\ (slots[i].name = slots[j].name => i = j)

\* Although nothing ticks: from every state the automata of a thread get
\* into, a Reset after any time makes the next Discover begin a mapping.
Recoverable ==
    \A k \in {i \in DOMAIN slots : Alive(slots[i])}, idle \in Idles :
        LET quiet == Fed(port, slots[k].fsm, opcode_reset, idle)
        IN  Fed(port, quiet, opcode_discover, 0).mapping = "Command"

\* Thread k is scheduled and its interface keeps bringing frames: it gets
\* round its loop, which begins with the check, again and again.
KeepsGoing(k) ==
    LET at(points) == k \in DOMAIN slots /\ Running /\ slots[k].pc \in points
    IN  []<>~at({"check"}) /\ []<>~at({"receive", "handle", "handle two"})

\* If every interface keeps bringing frames, a signal ends the daemon: its
\* threads, which wait for a frame without a timeout, then keep going, and
\* main, which waits for them one after the other, gets past all of them.
ShutdownCompletes == (\A k \in Ks : KeepsGoing(k)) => (exitFlag ~> ~Running)
=============================================================================
