--------------------------- MODULE PortDaemonProofs ---------------------------
(***************************************************************************)
(* What the daemons of the other ports hold while they open, serve and     *)
(* shut down, for any interfaces, lists of any length, any frames and any  *)
(* timeouts; and that their automata, which nothing ticks, recover.        *)
(***************************************************************************)
EXTENDS PortDaemon, SequenceTheorems, TLAPS

-----------------------------------------------------------------------------
(* The automata that a thread feeds.                                       *)

\* A table that leads only to states never leaves them.
LEMMA TargetIsState ==
    ASSUME NEW States, NEW transitions \in SUBSET (States \X Int \X States),
           NEW s \in States, NEW input
    PROVE  Target(transitions, s, input) \in States
<1> DEFINE rows == {row \in transitions : row[1] = s /\ row[2] = input}
<1>1. CASE rows = {}
    BY <1>1 DEF Target
<1>2. CASE rows # {}
    <2>1. (CHOOSE row \in rows : TRUE) \in rows
        BY <1>2
    <2>2. Target(transitions, s, input) = (CHOOSE row \in rows : TRUE)[3]
        BY <1>2 DEF Target
    <2> QED
        BY <2>1, <2>2
<1> QED
    BY <1>1, <1>2

\* A table leads where its only row for a state and an input says, and an
\* input without a row is ignored.
LEMMA TargetOfRow ==
    ASSUME NEW transitions, NEW row \in transitions,
           \A other \in transitions :
              other[1] = row[1] /\ other[2] = row[2] => other[3] = row[3]
    PROVE  Target(transitions, row[1], row[2]) = row[3]
<1> DEFINE rows == {other \in transitions : other[1] = row[1] /\ other[2] = row[2]}
<1>1. row \in rows
    OBVIOUS
<1>2. (CHOOSE other \in rows : TRUE) \in rows
    BY <1>1
<1>3. Target(transitions, row[1], row[2]) = (CHOOSE other \in rows : TRUE)[3]
    BY <1>1 DEF Target
<1> QED
    BY <1>2, <1>3

LEMMA TargetWithoutRow ==
    ASSUME NEW transitions, NEW s, NEW input,
           \A row \in transitions : ~ (row[1] = s /\ row[2] = input)
    PROVE  Target(transitions, s, input) = s
    BY DEF Target

\* Silence and a Reset both end a mapping, which a Discover begins.
LEMMA MappingTable ==
    /\ MappingTransitions \in SUBSET (MappingStates \X Int \X MappingStates)
    /\ \A s \in MappingStates, input \in {Timeout, opcode_reset} :
          Target(MappingTransitions, s, input) = "Quiescent"
    /\ Target(MappingTransitions, "Quiescent", opcode_discover) = "Command"
<1> USE DEF opcode_discover, opcode_emit, opcode_probe, opcode_query, opcode_reset,
            opcode_charge, opcode_queryLargeTlv, Timeout
<1>1. MappingTransitions \in SUBSET (MappingStates \X Int \X MappingStates)
    BY DEF MappingTransitions, MappingStates
<1>2. \A p, q \in MappingTransitions : p[1] = q[1] /\ p[2] = q[2] => p[3] = q[3]
    BY DEF MappingTransitions
<1>3. \A row \in MappingTransitions : Target(MappingTransitions, row[1], row[2]) = row[3]
    BY <1>2, TargetOfRow
<1>4. /\ <<"Quiescent", opcode_discover, "Command">> \in MappingTransitions
      /\ <<"Command", Timeout, "Quiescent">> \in MappingTransitions
      /\ <<"Command", opcode_reset, "Quiescent">> \in MappingTransitions
      /\ <<"Emit", Timeout, "Quiescent">> \in MappingTransitions
      /\ <<"Emit", opcode_reset, "Quiescent">> \in MappingTransitions
    BY DEF MappingTransitions
<1>5. \A row \in MappingTransitions :
        ~ (row[1] = "Quiescent" /\ row[2] \in {Timeout, opcode_reset})
    BY DEF MappingTransitions
<1>6. \A input \in {Timeout, opcode_reset} :
        Target(MappingTransitions, "Quiescent", input) = "Quiescent"
    BY <1>5, TargetWithoutRow
<1> QED
    BY <1>1, <1>3, <1>4, <1>6 DEF MappingStates

\* The states of the automata of a thread, until main frees them.
Fsms == [mapping : MappingStates, session : SessionStates, enumeration : EnumerationStates]

LEMMA SessionTable ==
    SessionTransitions \in SUBSET (SessionStates \X Int \X SessionStates)
    BY DEF SessionTransitions, SessionStates, sess_discover_conflicting, sess_reset, sess_hello,
       sess_topo_reset, sess_discover_noack, sess_discover_noack_chgd_xid, sess_discover_acking,
       sess_discover_acking_chgd_xid, opcode_reset, Timeout

LEMMA EnumerationTable ==
    EnumerationTransitions \in SUBSET (EnumerationStates \X Int \X EnumerationStates)
    BY DEF EnumerationTransitions, EnumerationStates, enum_sess_complete, enum_sess_not_complete,
       enum_hello, enum_new_session

LEMMA FedTyped ==
    ASSUME NEW p, NEW fsm \in Fsms, NEW opcode, NEW idle
    PROVE  Fed(p, fsm, opcode, idle) \in Fsms
<1>1. \A s \in MappingStates : \A input : Target(MappingTransitions, s, input) \in MappingStates
    BY MappingTable, TargetIsState
<1>2. \A s \in SessionStates : \A input : Target(SessionTransitions, s, input) \in SessionStates
    BY SessionTable, TargetIsState
<1>3. \A s \in EnumerationStates : \A input :
        Target(EnumerationTransitions, s, input) \in EnumerationStates
    BY EnumerationTable, TargetIsState
<1> QED
    BY <1>1, <1>2, <1>3 DEF Fed, SwitchState, Fsms

\* A Reset ends it, whether or not its state has timed out as well.
LEMMA ResetEndsMapping ==
    ASSUME NEW p, NEW fsm, fsm.mapping \in MappingStates, NEW idle
    PROVE  Fed(p, fsm, opcode_reset, idle).mapping = "Quiescent"
<1>1. "Quiescent" \in MappingStates
    BY DEF MappingStates
<1> QED
    BY <1>1, MappingTable DEF Fed, SwitchState

\* A mapping that has ended does not time out, so that a Discover begins one.
LEMMA DiscoverBeginsMapping ==
    ASSUME NEW p, NEW fsm, fsm.mapping = "Quiescent", NEW idle
    PROVE  Fed(p, fsm, opcode_discover, idle).mapping = "Command"
<1>1. MappingTimeouts["Quiescent"] = 0
    BY DEF MappingTimeouts, MappingStates
<1> QED
    BY <1>1, MappingTable DEF Fed, SwitchState, TimedOut
-----------------------------------------------------------------------------
(* The inductive invariant.                                                *)

Names == Interfaces \cup {Loopback}

Slots == [name : Names, block : Nat, fsm : Fsms \cup {Freed},
          pc : {"check", "receive", "handle", "handle two", "ended", "polled", "never"}]

TypeOK ==
    /\ port \in Ports
    /\ main \in {"list", "expand", "open", "wait", "join", "exited", "crashed"}
    /\ todo \in Seq(Names)
    /\ slots \in Seq(Slots)
    /\ block \in Nat
    /\ reaped \in 0 .. Len(slots)
    /\ exitFlag \in BOOLEAN

\* Which array there is, at each place of main: none before the first
\* interface is started, and only that of Linux ever grows.
ArrayThere ==
    /\ main = "list" => slots = <<>>
    /\ main = "expand" => port = Linux /\ (block = 0 => slots = <<>>)
    /\ main \in {"open", "wait", "join"} => block # 0

\* The interfaces released are those whose threads are gone; the others have
\* their automata.
InOrder ==
    \A k \in 1 .. Len(slots) :
        IF k <= reaped THEN ~Alive(slots[k]) ELSE slots[k].fsm \in Fsms

\* A thread that runs has its array, unless it is Linux that moved it.
InPlace ==
    \A k \in 1 .. Len(slots) : Alive(slots[k]) =>
        /\ main # "exited"
        /\ slots[k].block = block \/ port = Linux

\* What is started and what is still to be opened: no loopback, none twice.
Distinct ==
    port # Beos =>
        /\ \A i \in 1 .. Len(todo) : todo[i] # Loopback
        /\ \A i, j \in 1 .. Len(todo) : todo[i] = todo[j] => i = j
        /\ \A k \in 1 .. Len(slots) : slots[k].name # Loopback
        /\ \A k, l \in 1 .. Len(slots) : slots[k].name = slots[l].name => k = l
        /\ \A k \in 1 .. Len(slots), i \in 1 .. Len(todo) : slots[k].name # todo[i]

Inv == TypeOK /\ ArrayThere /\ InOrder /\ InPlace /\ Accounted /\ Distinct

\* The ports apart: only the array of Linux grows, only Beos lists everything.
LEMMA PortsApart ==
    \A p \in Ports : /\ p.array = "grows" => p = Linux
                     /\ p.list = "all" => p = Beos
                     /\ p.list \in {"all", "no loopback", "distinct"}
<1>1. \A p \in {Embedded, FreeBSD, ESXi, Haiku} : p.array = "fixed" /\ p.list = "distinct"
    BY DEF Embedded, FreeBSD, ESXi, Haiku
<1>2. \A p \in {SunOS, Windows} : p.array = "fixed" /\ p.list = "no loopback"
    <2>1. SunOS.array = "fixed" /\ SunOS.list = "no loopback"
        BY DEF SunOS
    <2>2. Windows.array = "fixed" /\ Windows.list = "no loopback"
        BY DEF Windows
    <2> QED
        BY <2>1, <2>2
<1>3. Linux.list = "no loopback" /\ Beos.array = "fixed" /\ Beos.list = "all"
    BY DEF Linux, Beos
<1> QED
    BY <1>1, <1>2, <1>3 DEF Ports

\* What a thread's step does: it stays one of the threads that run, or ends,
\* and changes nothing but its place and its automata.
ThreadStep(k, slot) ==
    /\ Running /\ Alive(slots[k])
    /\ main' \in {main, "crashed"}
    /\ slot \in Slots
    /\ slot.fsm \in Fsms \/ slot.fsm = slots[k].fsm
    /\ slot.name = slots[k].name /\ slot.block = slots[k].block
    /\ slots' = [slots EXCEPT ![k] = slot]
    /\ UNCHANGED <<port, todo, block, owned, reaped, exitFlag>>

LEMMA GoesIsThreadStep ==
    ASSUME TypeOK, NEW k \in 1 .. Len(slots),
           NEW from \in {"check", "receive", "handle", "handle two"},
           NEW to \in {"check", "receive", "handle", "handle two", "ended"},
           Goes(k, from, to)
    PROVE  ThreadStep(k, [slots[k] EXCEPT !.pc = to])
<1>1. slots[k] \in Slots
    BY ElementOfSeq DEF TypeOK
<1>2. [slots[k] EXCEPT !.pc = to] \in Slots
    BY <1>1 DEF Slots
<1> QED
    BY <1>1, <1>2 DEF Goes, ThreadStep, Alive, Slots

LEMMA HandleIsThreadStep ==
    ASSUME TypeOK, InOrder, NEW k \in 1 .. Len(slots),
           NEW from \in {"handle", "handle two"}, NEW to \in {"check", "handle"},
           HandleOne(k, from, to)
    PROVE  \E slot \in Slots : ThreadStep(k, slot)
<1>1. slots[k] \in Slots
    BY ElementOfSeq DEF TypeOK
<1>2. Alive(slots[k])
    BY DEF HandleOne, Alive
<1>3. slots[k].fsm \in Fsms
    BY <1>2 DEF InOrder
<1>4. PICK opcode \in Frames, idle \in Idles :
        slots' = [slots EXCEPT ![k].pc = to, ![k].fsm = Fed(port, @, opcode, idle)]
    BY DEF HandleOne
<1> DEFINE slot == [slots[k] EXCEPT !.pc = to, !.fsm = Fed(port, @, opcode, idle)]
<1>5. Fed(port, slots[k].fsm, opcode, idle) \in Fsms
    BY <1>3, FedTyped
<1>6. /\ slot \in Slots /\ slot.fsm \in Fsms
      /\ slot.name = slots[k].name /\ slot.block = slots[k].block
    BY <1>1, <1>5 DEF Slots
<1>7. slots' = [slots EXCEPT ![k] = slot]
    BY <1>1, <1>4 DEF Slots
<1> QED
    BY <1>2, <1>6, <1>7 DEF HandleOne, ThreadStep

LEMMA ThreadIsThreadStep ==
    ASSUME TypeOK, InOrder, NEW k \in 1 .. Len(slots), Thread(k)
    PROVE  \E slot \in Slots : ThreadStep(k, slot)
<1>1. ASSUME NEW from \in {"check", "receive"},
             NEW to \in {"check", "receive", "handle", "handle two", "ended"},
             Goes(k, from, to)
      PROVE  \E slot \in Slots : ThreadStep(k, slot)
    <2>1. ThreadStep(k, [slots[k] EXCEPT !.pc = to])
        BY <1>1, GoesIsThreadStep
    <2>2. [slots[k] EXCEPT !.pc = to] \in Slots
        BY <2>1 DEF ThreadStep
    <2> QED
        BY <2>1, <2>2
<1>2. CASE Check(k)
    BY <1>1, <1>2 DEF Check
<1>3. CASE Receive(k)
    BY <1>1, <1>3 DEF Receive
<1>4. CASE Handle(k)
    BY <1>4, HandleIsThreadStep DEF Handle
<1> QED
    BY <1>2, <1>3, <1>4 DEF Thread

\* What replacing a slot does to the sequence.
LEMMA SlotReplaced ==
    ASSUME TypeOK, NEW k \in 1 .. Len(slots), NEW slot \in Slots,
           slots' = [slots EXCEPT ![k] = slot]
    PROVE  /\ slots' \in Seq(Slots) /\ Len(slots') = Len(slots)
           /\ slots'[k] = slot
           /\ \A l \in 1 .. Len(slots) : l # k => slots'[l] = slots[l]
    BY ExceptSeq DEF TypeOK

-----------------------------------------------------------------------------
(* It is preserved by every step.                                          *)

LEMMA InitInv == Init => Inv
<1> SUFFICES ASSUME Init PROVE Inv
    OBVIOUS
<1>1. TypeOK
    <2>1. <<>> \in Seq(Names) /\ <<>> \in Seq(Slots) /\ Len(<<>>) = 0
        BY EmptySeq
    <2>2. todo = <<>> /\ slots = <<>> /\ reaped = 0
        BY DEF Init
    <2>3. todo \in Seq(Names) /\ slots \in Seq(Slots) /\ reaped \in 0 .. Len(slots)
        BY <2>1, <2>2
    <2> QED
        BY <2>3 DEF Init, TypeOK
<1>2. Accounted
    BY DEF Init, Accounted
<1> QED
    BY <1>1, <1>2 DEF Init, Inv, ArrayThere, InOrder, InPlace, Distinct

LEMMA ThreadPreserves ==
    ASSUME Inv, NEW k \in 1 .. Len(slots), NEW slot \in Slots, ThreadStep(k, slot)
    PROVE  Inv'
<1> USE DEF Inv, ThreadStep
<1>1. /\ slots' \in Seq(Slots) /\ Len(slots') = Len(slots)
      /\ slots'[k] = slot
      /\ \A l \in 1 .. Len(slots) : l # k => slots'[l] = slots[l]
    BY SlotReplaced
<1>2. TypeOK'
    BY <1>1 DEF TypeOK
<1>3. ArrayThere'
    <2>1. slots # <<>>
        OBVIOUS
    <2> QED
        BY <2>1 DEF ArrayThere, TypeOK, Running
<1>4. InOrder'
    BY <1>1 DEF InOrder
<1>5. InPlace'
    BY <1>1 DEF InPlace, Running
<1>6. Accounted'
    BY <1>1 DEF Accounted
<1>7. Distinct'
    BY <1>1 DEF Distinct
<1> QED
    BY <1>2, <1>3, <1>4, <1>5, <1>6, <1>7

LEMMA ListPreserves ==
    ASSUME Inv, List
    PROVE  Inv'
<1> USE DEF Inv
<1>1. PICK n \in Entries(port, todo) : Listed(port, todo, n) /\ todo' = Append(todo, n)
    BY DEF List
<1>2. n \in Names
    BY DEF Entries, Names
<1>3. /\ todo' \in Seq(Names) /\ Len(todo') = Len(todo) + 1
      /\ todo'[Len(todo) + 1] = n
      /\ \A i \in 1 .. Len(todo) : todo'[i] = todo[i]
    BY <1>1, <1>2, AppendProperties DEF TypeOK
<1>4. port # Beos => n # Loopback /\ \A i \in 1 .. Len(todo) : todo[i] # n
    BY <1>1, PortsApart DEF Entries, Listed, Contains, TypeOK
<1>5. Distinct'
    <2>1. slots = <<>> /\ slots' = slots /\ port' = port
        BY DEF List, ArrayThere
    <2> QED
        BY <1>3, <1>4, <2>1 DEF Distinct, TypeOK
<1>6. TypeOK' /\ ArrayThere' /\ InOrder' /\ InPlace' /\ Accounted'
    BY <1>3 DEF List, TypeOK, ArrayThere, InOrder, InPlace, Accounted
<1> QED
    BY <1>5, <1>6

LEMMA OpenPreserves ==
    ASSUME Inv, Open
    PROVE  Inv'
<1> USE DEF Inv
<1>1. PICK n \in 0 .. Len(port.opens), created \in BOOLEAN :
        /\ owned' = Plus(owned, Kept(port.opens, n))
        /\ slots' = IF n < Len(port.opens) THEN slots
                    ELSE Append(slots,
                           [name |-> Head(todo), block |-> block, fsm |-> Automatons,
                            pc |-> CASE port.reads = "none" -> "polled"
                                     [] port.reads # "none" /\ created -> "check"
                                     [] port.reads # "none" /\ ~created -> "never"])
    BY DEF Open
<1> DEFINE slot == [name |-> Head(todo), block |-> block, fsm |-> Automatons,
                    pc |-> CASE port.reads = "none" -> "polled"
                             [] port.reads # "none" /\ created -> "check"
                             [] port.reads # "none" /\ ~created -> "never"]
<1>2. /\ todo \in Seq(Names) /\ todo # <<>>
      /\ todo' = Tail(todo)
      /\ main = "open" /\ block # 0 /\ block' = block
      /\ main' = IF port.array = "grows" THEN "expand" ELSE "open"
      /\ port' = port /\ reaped' = reaped /\ exitFlag' = exitFlag
    BY DEF Open, TypeOK, ArrayThere
<1>3. /\ todo' \in Seq(Names) /\ Len(todo') = Len(todo) - 1
      /\ \A i \in 1 .. Len(todo') : todo'[i] = todo[i + 1]
      /\ Head(todo) = todo[1] /\ Head(todo) \in Names /\ 1 \in 1 .. Len(todo)
    BY <1>2, HeadTailProperties
<1>4. slot \in Slots /\ slot.name = todo[1] /\ slot.block = block /\ slot.fsm \in Fsms
    BY <1>3 DEF Slots, TypeOK, Automatons, Fsms, MappingStates, SessionStates, EnumerationStates
<1> HIDE DEF slot
<1>5. CASE n < Len(port.opens)
    <2>1. slots' = slots
        BY <1>1, <1>5
    <2>2. owned' = Plus(owned, Kept(port.opens, n)) /\ n # Len(port.opens)
        BY <1>1, <1>5
    <2>3. Accounted'
        BY <1>2, <2>1, <2>2 DEF Accounted, Plus, Kept, TypeOK
    <2>4. TypeOK' /\ ArrayThere' /\ InOrder' /\ InPlace'
        BY <1>2, <1>3, <2>1, PortsApart DEF TypeOK, ArrayThere, InOrder, InPlace
    <2>5. Distinct'
        BY <1>2, <1>3, <2>1 DEF Distinct
    <2> QED
        BY <2>3, <2>4, <2>5
<1>6. CASE n = Len(port.opens)
    <2>1. slots' = Append(slots, slot)
        BY <1>1, <1>6 DEF slot
    <2>2. /\ slots' \in Seq(Slots) /\ Len(slots') = Len(slots) + 1
          /\ slots'[Len(slots) + 1] = slot
          /\ \A k \in 1 .. Len(slots) : slots'[k] = slots[k]
        BY <1>4, <2>1, AppendProperties DEF TypeOK
    <2>3. owned' = Plus(owned, Kept(port.opens, Len(port.opens)))
        BY <1>1, <1>6
    <2>4. Accounted'
        BY <1>2, <2>2, <2>3 DEF Accounted, Plus, Kept, TypeOK
    <2>5. TypeOK'
        <3>1. Len(slots) \in Nat /\ reaped \in 0 .. Len(slots) + 1
            BY DEF TypeOK
        <3> QED
            BY <1>2, <1>3, <2>2, <3>1 DEF TypeOK
    <2>6. ArrayThere'
        BY <1>2, PortsApart DEF TypeOK, ArrayThere
    <2>7. \A k \in 1 .. Len(slots') : k \in 1 .. Len(slots) \/ (k = Len(slots) + 1 /\ ~(k <= reaped))
        BY <2>2 DEF TypeOK
    <2>8. InOrder'
        BY <1>2, <1>4, <2>2, <2>7 DEF InOrder
    <2>9. InPlace'
        BY <1>2, <1>4, <2>2, <2>7 DEF InPlace
    <2>10. Distinct'
        <3> SUFFICES ASSUME port # Beos PROVE Distinct'
            BY <1>2 DEF Distinct
        <3>1. \A i \in 1 .. Len(todo') : i + 1 \in 1 .. Len(todo) /\ i + 1 # 1
            BY <1>3
        <3>2. /\ \A i \in 1 .. Len(todo') : todo'[i] # Loopback /\ todo'[i] # slot.name
              /\ \A i, j \in 1 .. Len(todo') : todo'[i] = todo'[j] => i = j
            <4>1. ASSUME NEW i \in 1 .. Len(todo')
                  PROVE  i + 1 \in 1 .. Len(todo) /\ i + 1 # 1 /\ todo'[i] = todo[i + 1]
                BY <1>3, <3>1
            <4>2. /\ \A i \in 1 .. Len(todo) : todo[i] # Loopback
                  /\ \A i, j \in 1 .. Len(todo) : todo[i] = todo[j] => i = j
                BY DEF Distinct
            <4>3. 1 \in 1 .. Len(todo) /\ slot.name = todo[1]
                BY <1>3, <1>4
            <4>4. ASSUME NEW i \in 1 .. Len(todo')
                  PROVE  todo'[i] # Loopback /\ todo'[i] # slot.name
                BY <4>1, <4>2, <4>3
            <4>5. ASSUME NEW i \in 1 .. Len(todo'), NEW j \in 1 .. Len(todo'), todo'[i] = todo'[j]
                  PROVE  i = j
                <5>1. i + 1 = j + 1
                    BY <4>1, <4>2, <4>5
                <5> QED
                    BY <5>1
            <4> QED
                BY <4>4, <4>5
        <3>3. /\ slot.name # Loopback
              /\ \A k \in 1 .. Len(slots) : slots[k].name # slot.name
              /\ \A k \in 1 .. Len(slots), i \in 1 .. Len(todo') : slots[k].name # todo'[i]
            BY <1>3, <1>4, <3>1 DEF Distinct
        <3>4. /\ \A k \in 1 .. Len(slots') : slots'[k].name # Loopback
              /\ \A k \in 1 .. Len(slots'), i \in 1 .. Len(todo') : slots'[k].name # todo'[i]
            BY <2>2, <2>7, <3>2, <3>3 DEF Distinct
        <3>5. ASSUME NEW k \in 1 .. Len(slots'), NEW l \in 1 .. Len(slots'),
                     slots'[k].name = slots'[l].name
              PROVE  k = l
            BY <2>2, <2>7, <3>3, <3>5 DEF Distinct
        <3> QED
            BY <3>2, <3>4, <3>5 DEF Distinct
    <2> QED
        BY <2>4, <2>5, <2>6, <2>8, <2>9, <2>10
<1> QED
    BY <1>5, <1>6

LEMMA ReapPreserves ==
    ASSUME Inv, Reap
    PROVE  Inv'
<1> USE DEF Inv
<1>1. /\ main = "join" /\ reaped + 1 \in 1 .. Len(slots)
      /\ ~Alive(slots[reaped + 1])
      /\ UNCHANGED <<port, todo, block, exitFlag>>
    <2>1. Len(slots) \in Nat /\ reaped \in 0 .. Len(slots)
        BY DEF TypeOK
    <2>2. main = "join" /\ reaped < Len(slots) /\ UNCHANGED <<port, todo, block, exitFlag>>
        BY DEF Reap
    <2>3. Joined(slots[reaped + 1])
        BY DEF Reap
    <2>4. ~Alive(slots[reaped + 1])
        BY <2>3 DEF Joined, Alive
    <2> QED
        BY <2>1, <2>2, <2>4
<1>2. CASE /\ reaped' = reaped + 1 /\ main' = main
           /\ owned' = Minus(owned, Kept(port.opens, Len(port.opens)))
           /\ slots' = [slots EXCEPT ![reaped'].fsm = Freed]
    <2> DEFINE slot == [slots[reaped + 1] EXCEPT !.fsm = Freed]
    <2>1. slots[reaped + 1] \in Slots
        BY <1>1, ElementOfSeq DEF TypeOK
    <2>2. /\ slot \in Slots /\ ~Alive(slot)
          /\ slot.name = slots[reaped + 1].name
        BY <1>1, <2>1 DEF Slots, Alive
    <2>3. slots' = [slots EXCEPT ![reaped + 1] = slot]
        BY <1>2, <2>1 DEF Slots
    <2> HIDE DEF slot
    <2>4. /\ slots' \in Seq(Slots) /\ Len(slots') = Len(slots)
          /\ slots'[reaped + 1] = slot
          /\ \A l \in 1 .. Len(slots) : l # reaped + 1 => slots'[l] = slots[l]
        BY <1>1, <2>2, <2>3, SlotReplaced
    <2>5. Accounted'
        BY <1>1, <1>2, <2>4 DEF Accounted, Minus, Kept, TypeOK
    <2>6. TypeOK' /\ ArrayThere'
        BY <1>1, <1>2, <2>4 DEF TypeOK, ArrayThere
    <2>7. \A k \in 1 .. Len(slots) : k <= reaped + 1 => k = reaped + 1 \/ k <= reaped
        BY DEF TypeOK
    <2>8. InOrder'
        BY <1>2, <2>2, <2>4, <2>7 DEF InOrder, TypeOK
    <2>9. InPlace'
        BY <1>1, <1>2, <2>2, <2>4 DEF InPlace
    <2>10. \A k \in 1 .. Len(slots) : slots'[k].name = slots[k].name
        BY <2>2, <2>4
    <2>11. Distinct'
        BY <1>1, <2>4, <2>10 DEF Distinct
    <2> QED
        BY <2>5, <2>6, <2>8, <2>9, <2>11
<1>3. CASE main' = "crashed" /\ UNCHANGED <<slots, reaped, owned>>
    BY <1>1, <1>3 DEF TypeOK, ArrayThere, InOrder, InPlace, Accounted, Distinct
<1> QED
    BY <1>2, <1>3 DEF Reap

LEMMA MainPreserves ==
    ASSUME Inv, EndList \/ Expand \/ Opened \/ Wake \/ Finish \/ Signal
    PROVE  Inv'
<1> USE DEF Inv
<1>1. CASE EndList
    <2>1. slots = <<>> /\ (port.array = "grows" => port = Linux)
        BY <1>1, PortsApart DEF EndList, ArrayThere, TypeOK
    <2>2. TypeOK' /\ ArrayThere'
        BY <1>1, <2>1 DEF EndList, TypeOK, ArrayThere
    <2> QED
        BY <1>1, <2>1, <2>2 DEF EndList, InOrder, InPlace, Accounted, Distinct
<1>2. CASE Expand
    <2>1. port = Linux /\ main = "expand" /\ block \in Nat
        BY <1>2 DEF Expand, ArrayThere, TypeOK
    <2>2. CASE todo' = <<>> /\ UNCHANGED <<main, block>>
        <3>1. TypeOK'
            BY <1>2, <2>1, <2>2, EmptySeq DEF Expand, TypeOK
        <3> QED
            BY <1>2, <2>1, <2>2, <3>1 DEF Expand, ArrayThere, InOrder, InPlace, Accounted, Distinct
    <2>3. CASE /\ main' = "open" /\ UNCHANGED todo
               /\ block' \in {IF block = 0 THEN 1 ELSE block, block + 1}
        <3>1. block' \in Nat \ {0}
            BY <2>1, <2>3
        <3>2. TypeOK' /\ ArrayThere'
            BY <1>2, <2>1, <2>3, <3>1 DEF Expand, TypeOK, ArrayThere
        <3> QED
            BY <1>2, <2>1, <2>3, <3>2 DEF Expand, InOrder, InPlace, Accounted, Distinct
    <2> QED
        BY <1>2, <2>2, <2>3 DEF Expand
<1>3. CASE Opened
    <2>1. block = 0 => slots = <<>>
        BY <1>3 DEF Opened, ArrayThere
    <2> QED
        BY <1>3, <2>1 DEF Opened, TypeOK, ArrayThere, InOrder, InPlace, Accounted, Distinct
<1>4. CASE Wake
    BY <1>4 DEF Wake, TypeOK, ArrayThere, InOrder, InPlace, Accounted, Distinct
<1>5. CASE Finish
    <2>1. \A k \in 1 .. Len(slots) : ~Alive(slots[k])
        BY <1>5 DEF Finish, InOrder, TypeOK
    <2> QED
        BY <1>5, <2>1 DEF Finish, TypeOK, ArrayThere, InOrder, InPlace, Accounted, Distinct
<1>6. CASE Signal
    BY <1>6 DEF Signal, TypeOK, ArrayThere, InOrder, InPlace, Accounted, Distinct
<1> QED
    BY <1>1, <1>2, <1>3, <1>4, <1>5, <1>6

LEMMA Inductive ==
    /\ Init => Inv
    /\ Inv /\ [Next]_vars => Inv'
<1>1. ASSUME Inv, [Next]_vars
      PROVE  Inv'
    <2>1. CASE Main
        BY <1>1, <2>1, ListPreserves, OpenPreserves, ReapPreserves, MainPreserves DEF Main
    <2>2. CASE Signal
        BY <1>1, <2>2, MainPreserves
    <2>3. CASE \E k \in DOMAIN slots : Thread(k)
        <3>1. DOMAIN slots = 1 .. Len(slots)
            BY <1>1, LenProperties DEF Inv, TypeOK
        <3> QED
            BY <1>1, <2>3, <3>1, ThreadIsThreadStep, ThreadPreserves DEF Inv
    <2>4. CASE UNCHANGED vars
        BY <1>1, <2>4
        DEF vars, Inv, TypeOK, ArrayThere, InOrder, InPlace, Accounted, Distinct
    <2> QED
        BY <1>1, <2>1, <2>2, <2>3, <2>4 DEF Next
<1> QED
    BY <1>1, InitInv

-----------------------------------------------------------------------------
(* The theorems.                                                           *)

\* For any list of interfaces and wherever opening one fails, the sockets and
\* buffers open are those of the slots not yet released
\* (fillInterfaceDetails and the loop of pthread_join).
THEOREM NothingLeaks == Spec => []Accounted
<1>1. Inv => Accounted
    BY DEF Inv
<1> QED
    BY <1>1, Inductive, PTL DEF Spec

\* What a thread uses is there for as long as it runs (the array, allocated
\* once, and the join before close and free), but for the array of Linux.
THEOREM ThreadsKeepTheirs == Spec => []HeldIsAllocated
<1>1. ASSUME Inv
      PROVE  HeldIsAllocated
    <2>1. DOMAIN slots = 1 .. Len(slots)
        BY <1>1, LenProperties DEF Inv, TypeOK
    <2> QED
        BY <1>1, <2>1 DEF Inv, TypeOK, InOrder, InPlace, HeldIsAllocated
<1> QED
    BY <1>1, Inductive, PTL DEF Spec

\* No interface has two threads and none is loopback, for lists of any length
\* in any order (listInterfaces), but on older BeOS.
THEOREM InterfacesServedOnce == Spec => []OneThreadPerInterface
<1>1. ASSUME Inv
      PROVE  OneThreadPerInterface
    <2>1. DOMAIN slots = 1 .. Len(slots)
        BY <1>1, LenProperties DEF Inv, TypeOK
    <2> QED
        BY <1>1, <2>1 DEF Inv, Distinct, OneThreadPerInterface
<1> QED
    BY <1>1, Inductive, PTL DEF Spec

\* Whatever frames a thread fed to automata that nothing ticks, after a Reset
\* the next Discover begins a mapping (lltdLoop and switch_state_mapping).
THEOREM AutomataRecover == Spec => []Recoverable
<1>1. ASSUME Inv
      PROVE  Recoverable
    <2> SUFFICES ASSUME NEW k \in {i \in DOMAIN slots : Alive(slots[i])}, NEW idle \in Idles
                 PROVE  Fed(port, Fed(port, slots[k].fsm, opcode_reset, idle),
                            opcode_discover, 0).mapping = "Command"
        BY DEF Recoverable
    <2>1. k \in 1 .. Len(slots) /\ Alive(slots[k])
        BY <1>1, LenProperties DEF Inv, TypeOK
    <2>2. slots[k].fsm \in Fsms
        BY <1>1, <2>1 DEF Inv, InOrder
    <2>3. slots[k].fsm.mapping \in MappingStates
        BY <2>2 DEF Fsms
    <2> QED
        BY <2>3, ResetEndsMapping, DiscoverBeginsMapping
<1> QED
    BY <1>1, Inductive, PTL DEF Spec
=============================================================================
