--------------------------- MODULE DarwinLifecycle ---------------------------
(***************************************************************************)
(* The life of network interfaces in the Darwin daemon:                    *)
(* os/darwin/daemon/darwin-main.c around the listener loop.                *)
(*                                                                         *)
(* The main thread runs the handlers of I/O Kit messages.  It allocates a  *)
(* structure for a service that appears, validates it, registers for its   *)
(* messages and starts a detached listener thread with a pointer to it.    *)
(* A registration carries that pointer, so that messages find the          *)
(* structure; the structure remembers only its latest registration and its *)
(* latest listener.  Listeners are cancelled and never joined.             *)
(*                                                                         *)
(* Assumed of I/O Kit: a controller tells of power, which goes off and on  *)
(* in turn; a service that is asleep reports an inactive link; a service   *)
(* has its BSD name when it appears.  Descriptors are left out.            *)
(*                                                                         *)
(* Memory is modelled by addresses.  A pointer is an address; the          *)
(* structure a pointer was meant for is known by its number.  Reading      *)
(* freed memory may crash the daemon, which launchd starts again.          *)
(***************************************************************************)
EXTENDS Integers, FiniteSets

CONSTANTS
    Services,        \* network interfaces as I/O Kit services; one is plugged in once
    Addresses,       \* where malloc may put a structure
    Reuse,           \* whether it may hand out an address that was freed
    Outcomes,        \* what validateInterface may find, see Rejected and below
    MaxStructs,      \* bound: structures allocated by one process
    MaxListeners,    \* bound: listeners started by one process
    MaxNotes,        \* bound: registrations made by one process
    None

\* Before anything is registered, after the interface is, after both are.
Rejected == {"unreadable", "controller refused", "no thread"}

\* network_interface_t: its number, what it points to, its latest
\* registration, and whether its name is not yet freed.
Structures == [struct : Nat, listener : Nat \cup {None}, buffer : Nat \cup {None},
               note : Nat \cup {None}, named : BOOLEAN]

ASSUME LifecycleAssumption ==
    /\ Reuse \in BOOLEAN
    /\ Outcomes \subseteq Rejected \cup {"link down", "not up", "ok"}
    /\ MaxStructs \in Nat /\ MaxListeners \in Nat /\ MaxNotes \in Nat
    /\ None \notin Addresses \cup Services \cup Nat \cup Structures

VARIABLES
    present,    \* services: "unseen", "on", "off" (asleep) or "gone"
    mail,       \* messages not yet delivered: a registration and a message type
    iface,      \* the structure at each address, or None
    used,       \* how many structures, listeners and registrations were made
    notes,      \* registrations: their number, service, level and refCon
    listener,   \* the listener threads
    states,     \* g_iface_states: the structure each address' state was made for
    main,       \* the handler the main thread is in the middle of
    crashed

vars == <<present, mail, iface, used, notes, listener, states, main, crashed>>

Listeners == 1 .. MaxListeners

Idle == [op |-> "idle", at |-> None, service |-> None]

NoListener == [pc |-> "none", cancelled |-> FALSE, at |-> None, struct |-> 0, buffer |-> "none"]

FreshProcess ==
    /\ iface = [a \in Addresses |-> None]
    /\ used = [structs |-> 0, listeners |-> 0, notes |-> 0]
    /\ notes = {} /\ mail = {}
    /\ listener = [t \in Listeners |-> NoListener]
    /\ states = [a \in Addresses |-> 0]
    /\ main = Idle
    /\ crashed = FALSE

Init == present = [s \in Services |-> "unseen"] /\ FreshProcess

-----------------------------------------------------------------------------
(* validateInterface, as what it makes of the structure at an address:     *)
(* r holds the variables it changes.                                       *)

Memory == [iface |-> iface, notes |-> notes, used |-> used, listener |-> listener]

Become(r) ==
    iface' = r.iface /\ notes' = r.notes /\ used' = r.used /\ listener' = r.listener

\* IOServiceAddInterestNotification: the structure keeps the latest one.
Registered(r, a, s, level) ==
    LET n == r.used.notes + 1
    IN  [r EXCEPT !.notes = @ \cup {[n |-> n, service |-> s, level |-> level, ref |-> a]},
                  !.used.notes = n,
                  !.iface[a].note = n]

\* IOObjectRelease(notification).
Released(r, a) == [r EXCEPT !.notes = {n \in @ : n.n # r.iface[a].note}]

\* pthread_create, detached.
Started(r, a) ==
    LET t == r.used.listeners + 1
    IN  [r EXCEPT !.listener[t] = [NoListener EXCEPT !.pc = "start", !.at = a,
                                                     !.struct = r.iface[a].struct],
                  !.used.listeners = t,
                  !.iface[a].listener = t]

Freed(r, a) == [r EXCEPT !.iface[a] = None]

\* Mutant: an interface that is not up is kept without a registration.
Validated_Unwatched(r, a, s, outcome) ==
    LET withInterface == Registered(r, a, s, "interface")
        withBoth == Registered(withInterface, a, s, "controller")
    IN  CASE outcome = "unreadable"         -> Freed(r, a)
          [] outcome = "controller refused" -> Freed(withInterface, a)
          [] outcome = "no thread"          -> Freed(withBoth, a)
          [] outcome = "link down"          -> Registered(Registered(r, a, s, "controller"),
                                                          a, s, "interface")
          [] outcome = "not up"             -> r
          [] outcome = "ok"                 -> Started(withBoth, a)

\* What is found and registered, in the order of the code.  A structure that
\* fails is freed; what was registered for it stays registered.
Validated(r, a, s, outcome) ==
    LET withInterface == Registered(r, a, s, "interface")
        withBoth == Registered(withInterface, a, s, "controller")
    IN  CASE outcome = "unreadable"         -> Freed(r, a)
          [] outcome = "controller refused" -> Freed(withInterface, a)
          [] outcome = "no thread"          -> Freed(withBoth, a)
          [] outcome = "link down"          -> Registered(Registered(r, a, s, "controller"),
                                                          a, s, "interface")
          [] outcome = "not up"             -> withInterface
          [] outcome = "ok"                 -> Started(withBoth, a)

\* A service that is asleep reports an inactive link.
Found(s) == IF present[s] = "off" THEN Outcomes \ {"ok", "no thread"} ELSE Outcomes

RoomToValidate == used.notes + 2 <= MaxNotes /\ used.listeners < MaxListeners

-----------------------------------------------------------------------------
(* The main thread.                                                        *)

\* deviceAppeared.
Appear(s, a, outcome) ==
    /\ ~crashed /\ main = Idle
    /\ present[s] = "unseen"
    /\ iface[a] = None
    /\ Reuse \/ ~\E t \in Listeners : listener[t].at = a
    /\ Reuse \/ ~\E n \in notes : n.ref = a
    /\ used.structs < MaxStructs /\ RoomToValidate
    /\ outcome \in Found(s)
    /\ present' = [present EXCEPT ![s] = "on"]
    /\ LET fresh == [struct |-> used.structs + 1, listener |-> None, buffer |-> None,
                     note |-> None, named |-> TRUE]
       IN  Become(Validated([Memory EXCEPT !.iface[a] = fresh, !.used.structs = @ + 1],
                            a, s, outcome))
    /\ UNCHANGED <<mail, states, main, crashed>>

Message(n, op) == [n |-> n.n, op |-> op]

\* The handler of a message starts on a structure that is there.
Receives(n, op) ==
    /\ ~crashed /\ main = Idle
    /\ Message(n, op) \in mail /\ iface[n.ref] # None
    /\ mail' = mail \ {Message(n, op)}
    /\ main' = [op |-> op, at |-> n.ref, service |-> n.service]

\* A message for a structure that was freed.
UseAfterFree ==
    /\ ~crashed /\ main = Idle
    /\ \E n \in notes : iface[n.ref] = None /\ \E m \in mail : m.n = n.n
    /\ crashed' = TRUE
    /\ UNCHANGED <<present, mail, iface, used, notes, listener, states, main>>

\* Mutant: only a listener that has its buffer is cancelled.
Cancelled_WithBuffer(a) ==
    [t \in Listeners |->
        IF t = iface[a].listener /\ iface[a].buffer = t /\ listener[t].pc # "dead"
          THEN [listener[t] EXCEPT !.cancelled = TRUE] ELSE listener[t]]

\* pthread_cancel of the structure's latest listener, if there is one.
Cancelled(a) ==
    [t \in Listeners |->
        IF t = iface[a].listener /\ listener[t].pc # "dead"
          THEN [listener[t] EXCEPT !.cancelled = TRUE] ELSE listener[t]]

\* free(recvBuffer), and NULL stored for it.
Unbuffered(r, a) ==
    LET t == r.iface[a].buffer
    IN  IF t = None THEN r
        ELSE [r EXCEPT !.listener[t].buffer = "freed", !.iface[a].buffer = None]

\* Freeing a name that was freed before may crash.
Ends(crash) ==
    /\ ~crashed /\ crashed' \in IF crash THEN BOOLEAN ELSE {FALSE}
    /\ main' = Idle
    /\ UNCHANGED <<present, states>>

\* kIOMessageServiceIsTerminated: cancel, then free the structure and its
\* latest registration.
Terminated(n) ==
    /\ Receives(n, "terminated")
    /\ listener' = Cancelled(n.ref)
    /\ UNCHANGED <<present, iface, used, notes, states, crashed>>

EndTerminated ==
    /\ main.op = "terminated"
    /\ Become(Freed(Unbuffered(Released(Memory, main.at), main.at), main.at))
    /\ Ends(~iface[main.at].named)
    /\ UNCHANGED mail

\* Mutant: the old listener is left running.
PropertyChange_NoCancel(n) ==
    /\ Receives(n, "property change")
    /\ UNCHANGED <<present, iface, used, notes, listener, states, crashed>>

\* kIOMessageServicePropertyChange: cancel, wait, start again like new.
PropertyChange(n) ==
    /\ Receives(n, "property change")
    /\ listener' = Cancelled(n.ref)
    /\ UNCHANGED <<present, iface, used, notes, states, crashed>>

EndPropertyChange(outcome) ==
    /\ main.op = "property change" /\ RoomToValidate
    /\ outcome \in Found(main.service)
    /\ Become(Validated(Released(Unbuffered(Memory, main.at), main.at), main.at,
                        main.service, outcome))
    /\ Ends(~iface[main.at].named /\ outcome \in Rejected)
    /\ UNCHANGED mail

\* kIOMessageDeviceWillPowerOff: the buffer is freed, then the listener is
\* cancelled.
PowerOff(n) ==
    /\ Receives(n, "power off")
    /\ Become(Unbuffered(Memory, n.ref))
    /\ UNCHANGED <<present, states, crashed>>

EndPowerOff ==
    /\ main.op = "power off"
    /\ listener' = Cancelled(main.at)
    /\ Ends(FALSE)
    /\ UNCHANGED <<mail, iface, used, notes>>

\* kIOMessageDeviceWillPowerOn: the name is freed, and used again by what
\* follows.
PowerOn(n) ==
    /\ Receives(n, "power on")
    /\ iface' = [iface EXCEPT ![n.ref].named = FALSE]
    /\ UNCHANGED <<present, used, notes, listener, states, crashed>>

EndPowerOn(outcome) ==
    /\ main.op = "power on" /\ RoomToValidate
    /\ outcome \in Found(main.service)
    /\ Become(Validated(Released(Memory, main.at), main.at, main.service, outcome))
    /\ Ends(outcome \in Rejected)
    /\ UNCHANGED mail

-----------------------------------------------------------------------------
(* The listener threads.                                                   *)

Alive(t) == listener[t].pc \in {"start", "receive", "handle"}

\* A listener's step on the structure at its address, whichever that is; on
\* freed memory it may crash.
Steps(t, pc) ==
    /\ ~crashed /\ listener[t].pc = pc
    /\ crashed' \in IF iface[listener[t].at] = None THEN BOOLEAN ELSE {FALSE}
    /\ UNCHANGED <<present, mail, used, notes, main>>

Goto(t, pc) == listener' = [listener EXCEPT ![t].pc = pc]

\* Without a socket or a buffer the listener ends.
Start(t, works) ==
    /\ Steps(t, "start")
    /\ IF works
         THEN /\ listener' = [listener EXCEPT ![t].pc = "receive", ![t].buffer = "live"]
              /\ iface' = [a \in Addresses |->
                              IF a = listener[t].at /\ iface[a] # None
                                THEN [iface[a] EXCEPT !.buffer = t] ELSE iface[a]]
         ELSE Goto(t, "dead") /\ UNCHANGED iface
    /\ UNCHANGED states

\* recvfrom returns.  A frame finds, or makes, the state of its interface.
\* A structure whose buffer was taken away ends the listener that was waiting
\* with it; a call without a buffer fails and is made again.
Frame(t) ==
    /\ Steps(t, "receive")
    /\ LET a == listener[t].at
           gone == iface[a] # None /\ iface[a].buffer = None
       IN  \/ gone /\ UNCHANGED states /\ \E pc \in {"dead", "receive"} : Goto(t, pc)
           \/ /\ ~gone
              /\ Goto(t, "handle")
              /\ states' = IF states[a] # 0 THEN states
                           ELSE [states EXCEPT ![a] = listener[t].struct]
    /\ UNCHANGED iface

\* Back to recvfrom, where a cancelled thread ends.
Handled(t) ==
    /\ Steps(t, "handle")
    /\ Goto(t, IF listener[t].cancelled THEN "dead" ELSE "receive")
    /\ UNCHANGED <<iface, states>>

Stop(t) ==
    /\ Steps(t, "receive")
    /\ listener[t].cancelled
    /\ Goto(t, "dead")
    /\ UNCHANGED <<iface, states>>

-----------------------------------------------------------------------------
(* I/O Kit and launchd.                                                    *)

NotesOf(s) == {n \in notes : n.service = s}

\* Something happens to a service that has no message under way: a message
\* goes to each of its registrations of those levels.
Happens(s, levels, op) ==
    /\ ~crashed /\ main = Idle
    /\ ~\E n \in NotesOf(s), m \in mail : m.n = n.n
    /\ mail' = mail \cup {Message(n, op) : n \in {k \in NotesOf(s) : k.level \in levels}}
    /\ UNCHANGED <<iface, used, notes, listener, states, main, crashed>>

Unplug(s) ==
    /\ present[s] \in {"on", "off"}
    /\ present' = [present EXCEPT ![s] = "gone"]
    /\ Happens(s, {"interface", "controller"}, "terminated")

Change(s, level) ==
    /\ present[s] \in {"on", "off"} /\ RoomToValidate
    /\ Happens(s, {level}, "property change")
    /\ UNCHANGED present

Sleep(s) ==
    /\ present[s] = "on"
    /\ present' = [present EXCEPT ![s] = "off"]
    /\ Happens(s, {"controller"}, "power off")

Wake(s) ==
    /\ present[s] = "off" /\ RoomToValidate
    /\ present' = [present EXCEPT ![s] = "on"]
    /\ Happens(s, {"controller"}, "power on")

\* A daemon that crashed is started again.
Restart ==
    /\ crashed
    /\ present' = [s \in Services |-> IF present[s] = "gone" THEN "gone" ELSE "unseen"]
    /\ iface' = [a \in Addresses |-> None]
    /\ used' = [structs |-> 0, listeners |-> 0, notes |-> 0]
    /\ notes' = {} /\ mail' = {}
    /\ listener' = [t \in Listeners |-> NoListener]
    /\ states' = [a \in Addresses |-> 0]
    /\ main' = Idle
    /\ crashed' = FALSE

Main ==
    \/ \E s \in Services, a \in Addresses, outcome \in Outcomes : Appear(s, a, outcome)
    \/ \E n \in notes : Terminated(n) \/ PropertyChange(n) \/ PowerOff(n) \/ PowerOn(n)
    \/ EndTerminated \/ EndPowerOff
    \/ \E outcome \in Outcomes : EndPropertyChange(outcome) \/ EndPowerOn(outcome)
    \/ UseAfterFree

Thread(t) == (\E works \in BOOLEAN : Start(t, works)) \/ Frame(t) \/ Handled(t) \/ Stop(t)

World ==
    \/ \E s \in Services : Unplug(s) \/ Sleep(s) \/ Wake(s)
    \/ \E s \in Services, level \in {"interface", "controller"} : Change(s, level)
    \/ Restart

Next == Main \/ World \/ \E t \in Listeners : Thread(t)

Spec == Init /\ [][Next]_vars

-----------------------------------------------------------------------------
\* An interface that is kept is never forgotten: whatever validation made of
\* it and whatever was released, some registration still names it.
NeverForgotten ==
    main = Idle => \A a \in Addresses :
        iface[a] # None => \E n \in notes : n.ref = a

\* Listeners of the structure at an address that nobody has told to stop.
Running(a) ==
    {t \in Listeners : Alive(t) /\ ~listener[t].cancelled /\ iface[a] # None
                       /\ listener[t].at = a /\ listener[t].struct = iface[a].struct}

\* A registration for the controller of the structure at this address that
\* no structure remembers: nothing releases it, and whatever happens to the
\* controller is handled for it once more.
Unremembered(a) ==
    \E n \in notes :
        n.ref = a /\ n.level = "controller" /\ (iface[a] = None \/ n.n # iface[a].note)

\* Two listeners run on one structure only where a controller registration
\* was forgotten, however often the interface changes, sleeps and wakes.
OneListener == \A a \in Addresses : Cardinality(Running(a)) <= 1 \/ Unremembered(a)

\* This step takes the structure or the buffer away from a listener.
Loses(t) ==
    LET a == listener[t].at
    IN  /\ ~crashed /\ Alive(t)
        /\ \/ iface[a] # None /\ iface[a].struct = listener[t].struct /\ iface'[a] = None
           \/ listener[t].buffer = "live" /\ listener'[t].buffer = "freed"

\* A listener is told to stop before its memory goes, so that it handles at
\* most the frame it is in; the exceptions are power-off, which cancels it
\* next, and structures with a forgotten controller registration, of whose
\* listeners only the last is cancelled.
CancelledFirst ==
    [][\A t \in Listeners :
          Loses(t) => \/ listener[t].cancelled
                      \/ main'.op = "power off"
                      \/ Unremembered(listener[t].at)]_vars

-----------------------------------------------------------------------------
\* What the comment in deviceDisappeared says of a device that went away:
\* "Clean everything (thread, data, etc.)".  No listener that was not told to
\* stop outlives its structure.
NoOrphanListener ==
    \A t \in Listeners :
        Alive(t) /\ ~listener[t].cancelled
        => iface[listener[t].at] # None /\ iface[listener[t].at].struct = listener[t].struct
=============================================================================
