------------------------ MODULE DarwinLifecycleProofs ------------------------
(***************************************************************************)
(* Interfaces that come and go on Darwin, for any number of services,      *)
(* addresses, structures, listeners and registrations, and whether or not  *)
(* addresses are used again: no interface is forgotten, and where no       *)
(* registration was forgotten either, a structure has one listener, which  *)
(* is told to stop before its memory goes.                                 *)
(***************************************************************************)
EXTENDS DarwinLifecycle, FiniteSetTheorems, TLAPS

-----------------------------------------------------------------------------
(* Types.                                                                  *)

Levels == {"interface", "controller"}

Notes == [n : Nat, service : Services, level : Levels, ref : Addresses]

Uses == [structs : Nat, listeners : 0 .. MaxListeners, notes : Nat]

ListenerStates == [pc : {"none", "start", "receive", "handle", "dead"}, cancelled : BOOLEAN,
                   at : Addresses \cup {None}, struct : Nat,
                   buffer : {"none", "live", "freed"}]

\* What validation changes, as a record.
IsMemory(r) ==
    /\ DOMAIN r = {"iface", "notes", "used", "listener"}
    /\ r.iface \in [Addresses -> Structures \cup {None}]
    /\ r.notes \subseteq Notes
    /\ r.used \in Uses
    /\ r.listener \in [Listeners -> ListenerStates]

Presences == {"unseen", "on", "off", "gone"}

Handling == {"terminated", "property change", "power off", "power on"}

TypeOK ==
    /\ IsMemory(Memory) /\ present \in [Services -> Presences]
    /\ main = Idle \/ /\ main.op \in Handling /\ main.at \in Addresses
                      /\ main.service \in Services /\ iface[main.at] # None
    /\ \A t \in Listeners : Alive(t) => listener[t].at \in Addresses

-----------------------------------------------------------------------------
(* The inductive invariant.                                                *)

\* Registrations are numbered, messages go to registrations that were made,
\* and only a controller tells of power.
Numbered ==
    /\ \A n \in notes : n.n <= used.notes
    /\ \A n, k \in notes : n.n = k.n => n = k
    /\ \A m \in mail : m.n \in 0 .. used.notes
    /\ \A n \in notes : Message(n, "power on") \in mail => n.level = "controller"

\* The registration a structure remembers was made for it and not released.
Remembered ==
    \A a \in Addresses : iface[a] # None =>
        \E n \in notes : n.ref = a /\ n.n = iface[a].note

\* A buffer belongs to a listener on the structure that points to it.
Buffers ==
    \A a \in Addresses : iface[a] # None /\ iface[a].buffer # None =>
        /\ iface[a].buffer \in 1 .. used.listeners
        /\ listener[iface[a].buffer].at = a

\* Listeners are created one after the other.
Created == \A t \in Listeners : t > used.listeners => listener[t].pc = "none"

\* No listener on the structure at an address goes on.
Silent(a) == \A t \in Listeners : Alive(t) /\ listener[t].at = a => listener[t].cancelled

\* The listener that goes on is the structure's latest.
LatestOnly ==
    \A a \in Addresses : ~Unremembered(a) =>
        \A t \in Listeners : Alive(t) /\ listener[t].at = a /\ ~listener[t].cancelled =>
            iface[a] # None /\ iface[a].listener = t

\* The controller of a registration is awake, or the message that it goes to
\* sleep is under way or being handled.
Awake(n) ==
    \/ present[n.service] # "off"
    \/ Message(n, "power off") \in mail
    \/ main.op = "power off" /\ main.at = n.ref

\* Where a listener goes on, the structure remembers a registration for its
\* controller, which is awake: a power-on message will not find a listener.
WatchedWhileAwake ==
    \A a \in Addresses : ~Unremembered(a) /\ ~Silent(a) =>
        \E n \in notes : /\ n.ref = a /\ n.n = iface[a].note /\ n.level = "controller"
                         /\ Awake(n)

\* No listener goes on where one will be started, or memory taken away.
SilentBeforeStart ==
    /\ \A a \in Addresses, n \in notes :
          iface[a] # None /\ n.n = iface[a].note /\ ~Unremembered(a)
              /\ Message(n, "power on") \in mail => Silent(a)
    /\ main.op \in {"terminated", "property change", "power on"} /\ ~Unremembered(main.at)
          => Silent(main.at)

Inv == /\ TypeOK /\ Numbered /\ Remembered /\ Buffers /\ Created
       /\ LatestOnly /\ WatchedWhileAwake /\ SilentBeforeStart
-----------------------------------------------------------------------------
(* What validation makes of memory, step by step.                          *)

LEMMA MemoryTypes ==
    ASSUME NEW i, NEW n, NEW u, NEW l,
           IsMemory([iface |-> i, notes |-> n, used |-> u, listener |-> l])
    PROVE  /\ i \in [Addresses -> Structures \cup {None}]
           /\ n \subseteq Notes /\ u \in Uses /\ l \in [Listeners -> ListenerStates]
           /\ u.structs \in Nat /\ u.notes \in Nat /\ u.listeners \in 0 .. MaxListeners
           /\ \A x \in n : /\ x.n \in Nat /\ x.service \in Services
                           /\ x.level \in Levels /\ x.ref \in Addresses
<1>1. /\ i \in [Addresses -> Structures \cup {None}]
      /\ n \subseteq Notes /\ u \in Uses /\ l \in [Listeners -> ListenerStates]
    BY DEF IsMemory
<1> QED
    BY <1>1 DEF Notes, Uses

LEMMA RegisteredEffect ==
    ASSUME NEW r, IsMemory(r), NEW a \in Addresses, r.iface[a] \in Structures,
           NEW s \in Services, NEW level \in Levels
    PROVE  LET v == Registered(r, a, s, level)
               n == r.used.notes + 1
           IN  /\ IsMemory(v)
               /\ v.notes = r.notes \cup {[n |-> n, service |-> s, level |-> level, ref |-> a]}
               /\ v.used = [r.used EXCEPT !.notes = n]
               /\ v.listener = r.listener
               /\ v.iface = [r.iface EXCEPT ![a] = [r.iface[a] EXCEPT !.note = n]]
               /\ v.iface[a] \in Structures
<1> DEFINE n == r.used.notes + 1
           v == Registered(r, a, s, level)
           note == [n |-> n, service |-> s, level |-> level, ref |-> a]
<1>1. r.used \in Uses /\ n \in Nat /\ [r.used EXCEPT !.notes = n] \in Uses
    BY DEF IsMemory, Uses
<1>2. note \in Notes
    BY <1>1 DEF Notes
<1>3. [r.iface[a] EXCEPT !.note = n] \in Structures
    BY <1>1 DEF Structures
<1>4. /\ v.notes = r.notes \cup {note}
      /\ v.used = [r.used EXCEPT !.notes = n]
      /\ v.listener = r.listener
      /\ v.iface = [r.iface EXCEPT ![a] = [r.iface[a] EXCEPT !.note = n]]
      /\ DOMAIN v = {"iface", "notes", "used", "listener"}
    <2>1. v.notes = r.notes \cup {note}
        BY DEF Registered, IsMemory
    <2>2. v.used = [r.used EXCEPT !.notes = n]
        BY DEF Registered, IsMemory
    <2>3. v.listener = r.listener
        BY DEF Registered, IsMemory
    <2>4. v.iface = [r.iface EXCEPT ![a] = [r.iface[a] EXCEPT !.note = n]]
        BY DEF Registered, IsMemory
    <2>5. DOMAIN v = {"iface", "notes", "used", "listener"}
        BY DEF IsMemory, Registered
    <2> QED
        BY <2>1, <2>2, <2>3, <2>4, <2>5
<1> HIDE DEF v, note, n
<1>5. r.iface \in [Addresses -> Structures \cup {None}] /\ r.notes \subseteq Notes
      /\ r.listener \in [Listeners -> ListenerStates]
    BY DEF IsMemory
<1>6. v.iface \in [Addresses -> Structures \cup {None}] /\ v.iface[a] \in Structures
    BY <1>3, <1>4, <1>5
<1>7. IsMemory(v)
    BY <1>1, <1>2, <1>4, <1>5, <1>6 DEF IsMemory
<1> QED
    BY <1>4, <1>6, <1>7 DEF v, n, note

LEMMA StartedEffect ==
    ASSUME NEW r, IsMemory(r), NEW a \in Addresses, r.iface[a] \in Structures,
           r.used.listeners < MaxListeners
    PROVE  LET v == Started(r, a)
               t == r.used.listeners + 1
           IN  /\ IsMemory(v)
               /\ v.notes = r.notes
               /\ v.used = [r.used EXCEPT !.listeners = t]
               /\ t \in Listeners
               /\ v.listener = [r.listener EXCEPT ![t] =
                     [NoListener EXCEPT !.pc = "start", !.at = a, !.struct = r.iface[a].struct]]
               /\ v.iface = [r.iface EXCEPT ![a] = [r.iface[a] EXCEPT !.listener = t]]
               /\ v.iface[a] \in Structures
<1> DEFINE t == r.used.listeners + 1
           v == Started(r, a)
           thread == [NoListener EXCEPT !.pc = "start", !.at = a, !.struct = r.iface[a].struct]
<1>1. r.used \in Uses /\ t \in Listeners /\ t \in Nat
      /\ [r.used EXCEPT !.listeners = t] \in Uses
    <2>1. r.used \in Uses
        BY DEF IsMemory
    <2>2. r.used.listeners \in 0 .. MaxListeners /\ MaxListeners \in Nat
        BY <2>1, LifecycleAssumption DEF Uses
    <2>3. t \in 1 .. MaxListeners
        BY <2>2
    <2> HIDE DEF t
    <2> QED
        BY <2>1, <2>2, <2>3 DEF Uses, Listeners
<1>2. thread \in ListenerStates
    BY DEF ListenerStates, NoListener, Structures
<1>3. [r.iface[a] EXCEPT !.listener = t] \in Structures
    BY <1>1 DEF Structures
<1>4. /\ v.notes = r.notes
      /\ v.used = [r.used EXCEPT !.listeners = t]
      /\ v.listener = [r.listener EXCEPT ![t] = thread]
      /\ v.iface = [r.iface EXCEPT ![a] = [r.iface[a] EXCEPT !.listener = t]]
      /\ DOMAIN v = {"iface", "notes", "used", "listener"}
    <2>1. v.notes = r.notes
        BY DEF Started, IsMemory
    <2>2. v.used = [r.used EXCEPT !.listeners = t]
        BY DEF Started, IsMemory
    <2>3. v.listener = [r.listener EXCEPT ![t] = thread]
        BY DEF Started, IsMemory
    <2>4. v.iface = [r.iface EXCEPT ![a] = [r.iface[a] EXCEPT !.listener = t]]
        BY DEF Started, IsMemory
    <2>5. DOMAIN v = {"iface", "notes", "used", "listener"}
        BY DEF IsMemory, Started
    <2> QED
        BY <2>1, <2>2, <2>3, <2>4, <2>5
<1> HIDE DEF v, thread, t
<1>5. r.iface \in [Addresses -> Structures \cup {None}] /\ r.notes \subseteq Notes
      /\ r.listener \in [Listeners -> ListenerStates]
    BY DEF IsMemory
<1>6. v.iface \in [Addresses -> Structures \cup {None}] /\ v.iface[a] \in Structures
    BY <1>3, <1>4, <1>5
<1>7. v.listener \in [Listeners -> ListenerStates]
    BY <1>2, <1>4, <1>5
<1>8. IsMemory(v)
    BY <1>1, <1>4, <1>5, <1>6, <1>7 DEF IsMemory
<1> QED
    BY <1>1, <1>4, <1>6, <1>8 DEF v, t, thread

LEMMA FreedEffect ==
    ASSUME NEW r, IsMemory(r), NEW a \in Addresses
    PROVE  LET v == Freed(r, a)
           IN  /\ IsMemory(v)
               /\ v.notes = r.notes /\ v.used = r.used /\ v.listener = r.listener
               /\ v.iface = [r.iface EXCEPT ![a] = None]
<1> DEFINE v == Freed(r, a)
<1>1. /\ v.notes = r.notes /\ v.used = r.used /\ v.listener = r.listener
      /\ v.iface = [r.iface EXCEPT ![a] = None]
      /\ DOMAIN v = {"iface", "notes", "used", "listener"}
    BY DEF Freed, IsMemory
<1> HIDE DEF v
<1>2. IsMemory(v)
    BY <1>1 DEF IsMemory
<1> QED
    BY <1>1, <1>2 DEF v

LEMMA ReleasedEffect ==
    ASSUME NEW r, IsMemory(r), NEW a \in Addresses
    PROVE  LET v == Released(r, a)
           IN  /\ IsMemory(v)
               /\ v.notes = {n \in r.notes : n.n # r.iface[a].note}
               /\ v.used = r.used /\ v.listener = r.listener /\ v.iface = r.iface
<1> DEFINE v == Released(r, a)
<1>1. /\ v.notes = {n \in r.notes : n.n # r.iface[a].note}
      /\ v.used = r.used /\ v.listener = r.listener /\ v.iface = r.iface
      /\ DOMAIN v = {"iface", "notes", "used", "listener"}
    <2>1. v.notes = {n \in r.notes : n.n # r.iface[a].note}
        BY DEF Released, IsMemory
    <2>2. v.used = r.used /\ v.listener = r.listener /\ v.iface = r.iface
        BY DEF Released, IsMemory
    <2>3. DOMAIN v = {"iface", "notes", "used", "listener"}
        BY DEF IsMemory, Released
    <2> QED
        BY <2>1, <2>2, <2>3
<1> HIDE DEF v
<1>2. IsMemory(v)
    BY <1>1 DEF IsMemory
<1> QED
    BY <1>1, <1>2 DEF v

\* What the handlers take away: the buffer of the structure at an address.
LEMMA UnbufferedEffect ==
    ASSUME NEW r, IsMemory(r), NEW a \in Addresses, r.iface[a] \in Structures,
           r.iface[a].buffer # None => r.iface[a].buffer \in Listeners
    PROVE  LET v == Unbuffered(r, a)
           IN  /\ IsMemory(v)
               /\ v.notes = r.notes /\ v.used = r.used
               /\ \A b \in Addresses \ {a} : v.iface[b] = r.iface[b]
               /\ v.iface[a] \in Structures /\ v.iface[a].buffer = None
               /\ v.iface[a].note = r.iface[a].note
               /\ v.iface[a].listener = r.iface[a].listener
               /\ \A t \in Listeners :
                     /\ v.listener[t].pc = r.listener[t].pc
                     /\ v.listener[t].cancelled = r.listener[t].cancelled
                     /\ v.listener[t].at = r.listener[t].at
                     /\ v.listener[t].buffer # r.listener[t].buffer => t = r.iface[a].buffer
<1> DEFINE v == Unbuffered(r, a)
           t == r.iface[a].buffer
<1>1. CASE t = None
    <2>1. v = r
        BY <1>1 DEF Unbuffered
    <2> QED
        BY <1>1, <2>1
<1>2. CASE t # None
    <2>1. t \in Listeners
        BY <1>2
    <2>2. r.iface \in [Addresses -> Structures \cup {None}]
          /\ r.listener \in [Listeners -> ListenerStates]
        BY DEF IsMemory
    <2>3. DOMAIN v = {"iface", "notes", "used", "listener"}
        BY <1>2 DEF Unbuffered, IsMemory
    <2>4. v.notes = r.notes /\ v.used = r.used
        BY <1>2 DEF Unbuffered, IsMemory
    <2>5. v.iface = [r.iface EXCEPT ![a] = [r.iface[a] EXCEPT !.buffer = None]]
        BY <1>2 DEF Unbuffered, IsMemory
    <2>6. v.listener = [r.listener EXCEPT ![t] = [r.listener[t] EXCEPT !.buffer = "freed"]]
        BY <1>2 DEF Unbuffered, IsMemory
    <2>7. [r.iface[a] EXCEPT !.buffer = None] \in Structures
        BY DEF Structures
    <2>8. [r.listener[t] EXCEPT !.buffer = "freed"] \in ListenerStates
        BY <2>1, <2>2 DEF ListenerStates
    <2> HIDE DEF v, t
    <2>9. v.iface \in [Addresses -> Structures \cup {None}]
        BY <2>2, <2>5, <2>7
    <2>10. v.listener \in [Listeners -> ListenerStates]
        BY <2>2, <2>6, <2>8
    <2>11. IsMemory(v)
        BY <2>3, <2>4, <2>9, <2>10 DEF IsMemory
    <2>12. /\ \A b \in Addresses \ {a} : v.iface[b] = r.iface[b]
           /\ v.iface[a] = [r.iface[a] EXCEPT !.buffer = None]
        BY <2>2, <2>5
    <2>13. /\ v.iface[a] \in Structures /\ v.iface[a].buffer = None
           /\ v.iface[a].note = r.iface[a].note
           /\ v.iface[a].listener = r.iface[a].listener
        BY <2>7, <2>12 DEF Structures
    <2>14. ASSUME NEW k \in Listeners
           PROVE  /\ v.listener[k].pc = r.listener[k].pc
                  /\ v.listener[k].cancelled = r.listener[k].cancelled
                  /\ v.listener[k].at = r.listener[k].at
                  /\ v.listener[k].buffer # r.listener[k].buffer => k = t
        <3>1. CASE k = t
            BY <2>1, <2>2, <2>6, <3>1 DEF ListenerStates
        <3>2. CASE k # t
            BY <2>1, <2>2, <2>6, <3>2
        <3> QED
            BY <3>1, <3>2
    <2> QED
        BY <2>4, <2>11, <2>12, <2>13, <2>14 DEF v, t
<1> QED
    BY <1>1, <1>2

-----------------------------------------------------------------------------
(* What validation as a whole makes of memory.                             *)

\* Memory v came from r by work on one address: registrations were made for
\* that address, with numbers of their own, and none was released.
Grown(r, v, a) ==
    /\ \A b \in Addresses \ {a} : v.iface[b] = r.iface[b]
    /\ r.used.notes <= v.used.notes
    /\ r.notes \subseteq v.notes
    /\ \A n \in v.notes \ r.notes :
          n.ref = a /\ r.used.notes < n.n /\ n.n <= v.used.notes
    /\ \A n, k \in v.notes \ r.notes : n.n = k.n => n = k

LEMMA GrownTwice ==
    ASSUME NEW r, NEW w, NEW v, NEW a, IsMemory(r), IsMemory(w), IsMemory(v),
           Grown(r, w, a), Grown(w, v, a)
    PROVE  Grown(r, v, a)
<1>1. /\ r.used.notes \in Nat /\ w.used.notes \in Nat /\ v.used.notes \in Nat
      /\ \A n \in v.notes : n.n \in Nat
    BY DEF IsMemory, Uses, Notes
<1>2. \A b \in Addresses \ {a} : v.iface[b] = r.iface[b]
    BY DEF Grown
<1>3. r.used.notes <= v.used.notes /\ r.notes \subseteq v.notes
    BY <1>1 DEF Grown
<1>4. \A n \in v.notes \ r.notes :
         n.ref = a /\ r.used.notes < n.n /\ n.n <= v.used.notes
    BY <1>1 DEF Grown
<1>5. \A n, k \in v.notes \ r.notes : n.n = k.n => n = k
    BY <1>1 DEF Grown
<1> QED
    BY <1>2, <1>3, <1>4, <1>5 DEF Grown

LEMMA RegisteredGrows ==
    ASSUME NEW r, IsMemory(r), NEW a \in Addresses, r.iface[a] \in Structures,
           NEW s \in Services, NEW level \in Levels
    PROVE  LET v == Registered(r, a, s, level)
           IN  /\ IsMemory(v) /\ Grown(r, v, a)
               /\ v.used.listeners = r.used.listeners /\ v.listener = r.listener
               /\ v.iface[a] \in Structures
               /\ v.iface[a].buffer = r.iface[a].buffer
               /\ \E n \in v.notes : /\ n.ref = a /\ n.n = v.iface[a].note
                                     /\ r.used.notes < n.n
                                     /\ n.level = level /\ n.service = s
<1> DEFINE v == Registered(r, a, s, level)
           m == r.used.notes + 1
           note == [n |-> m, service |-> s, level |-> level, ref |-> a]
<1>1. /\ IsMemory(v)
      /\ v.notes = r.notes \cup {note}
      /\ v.used = [r.used EXCEPT !.notes = m]
      /\ v.listener = r.listener
      /\ v.iface = [r.iface EXCEPT ![a] = [r.iface[a] EXCEPT !.note = m]]
      /\ v.iface[a] \in Structures
    BY RegisteredEffect
<1>2. r.used \in Uses /\ r.used.notes \in Nat /\ m \in Nat
      /\ r.iface \in [Addresses -> Structures \cup {None}]
    BY DEF IsMemory, Uses
<1>3. note.n = m /\ note.service = s /\ note.level = level /\ note.ref = a
    OBVIOUS
<1>4. r.used.notes < m /\ m <= m
    BY <1>2
<1> HIDE DEF v, note, m
<1>5. v.used.notes = m /\ v.used.listeners = r.used.listeners
    BY <1>1, <1>2 DEF Uses
<1>6. /\ \A b \in Addresses \ {a} : v.iface[b] = r.iface[b]
      /\ v.iface[a] = [r.iface[a] EXCEPT !.note = m]
    BY <1>1, <1>2
<1>7. v.iface[a].note = m /\ v.iface[a].buffer = r.iface[a].buffer
    BY <1>6 DEF Structures
<1>8. Grown(r, v, a)
    BY <1>1, <1>2, <1>3, <1>4, <1>5, <1>6 DEF Grown
<1>9. \E n \in v.notes : /\ n.ref = a /\ n.n = v.iface[a].note /\ r.used.notes < n.n
                         /\ n.level = level /\ n.service = s
    BY <1>1, <1>3, <1>4, <1>7
<1> QED
    BY <1>1, <1>5, <1>7, <1>8, <1>9 DEF v

LEMMA FreedGrows ==
    ASSUME NEW r, IsMemory(r), NEW a \in Addresses
    PROVE  LET v == Freed(r, a)
           IN  /\ IsMemory(v) /\ Grown(r, v, a)
               /\ v.used = r.used /\ v.listener = r.listener /\ v.iface[a] = None
<1> DEFINE v == Freed(r, a)
<1>1. /\ IsMemory(v)
      /\ v.notes = r.notes /\ v.used = r.used /\ v.listener = r.listener
      /\ v.iface = [r.iface EXCEPT ![a] = None]
    BY FreedEffect
<1>2. r.used.notes \in Nat /\ r.iface \in [Addresses -> Structures \cup {None}]
    BY DEF IsMemory, Uses
<1> HIDE DEF v
<1>3. Grown(r, v, a) /\ v.iface[a] = None
    BY <1>1, <1>2 DEF Grown
<1> QED
    BY <1>1, <1>3 DEF v

LEMMA StartedGrows ==
    ASSUME NEW r, IsMemory(r), NEW a \in Addresses, r.iface[a] \in Structures,
           r.used.listeners < MaxListeners
    PROVE  LET v == Started(r, a)
               t == r.used.listeners + 1
           IN  /\ IsMemory(v) /\ Grown(r, v, a)
               /\ v.notes = r.notes
               /\ v.iface[a] \in Structures
               /\ v.iface[a].buffer = r.iface[a].buffer
               /\ v.iface[a].note = r.iface[a].note
               /\ v.iface[a].listener = t /\ v.used.listeners = t /\ t \in Listeners
               /\ \A k \in Listeners \ {t} : v.listener[k] = r.listener[k]
               /\ v.listener[t].at = a /\ v.listener[t].buffer = "none"
<1> DEFINE v == Started(r, a)
           t == r.used.listeners + 1
           thread == [NoListener EXCEPT !.pc = "start", !.at = a, !.struct = r.iface[a].struct]
<1>1. /\ IsMemory(v)
      /\ v.notes = r.notes
      /\ v.used = [r.used EXCEPT !.listeners = t]
      /\ t \in Listeners
      /\ v.listener = [r.listener EXCEPT ![t] = thread]
      /\ v.iface = [r.iface EXCEPT ![a] = [r.iface[a] EXCEPT !.listener = t]]
      /\ v.iface[a] \in Structures
    BY StartedEffect
<1>2. r.used \in Uses /\ r.used.notes \in Nat
      /\ r.iface \in [Addresses -> Structures \cup {None}]
      /\ r.listener \in [Listeners -> ListenerStates]
    BY DEF IsMemory, Uses
<1>3. thread.at = a /\ thread.buffer = "none"
    BY DEF NoListener
<1> HIDE DEF v, thread, t
<1>4. v.used.listeners = t /\ v.used.notes = r.used.notes
    BY <1>1, <1>2 DEF Uses
<1>5. /\ \A b \in Addresses \ {a} : v.iface[b] = r.iface[b]
      /\ v.iface[a] = [r.iface[a] EXCEPT !.listener = t]
    BY <1>1, <1>2
<1>6. v.iface[a].buffer = r.iface[a].buffer /\ v.iface[a].note = r.iface[a].note
      /\ v.iface[a].listener = t
    BY <1>5 DEF Structures
<1>7. /\ \A k \in Listeners \ {t} : v.listener[k] = r.listener[k]
      /\ v.listener[t] = thread
    BY <1>1, <1>2
<1>8. Grown(r, v, a)
    BY <1>1, <1>2, <1>4, <1>5 DEF Grown
<1> QED
    BY <1>1, <1>3, <1>4, <1>6, <1>7, <1>8 DEF v, t

\* A structure that is kept remembers a registration that validation made; a
\* listener is started only with the latest registration at the controller.
LEMMA ValidatedEffect ==
    ASSUME NEW r, IsMemory(r), NEW a \in Addresses, r.iface[a] \in Structures,
           NEW s \in Services, NEW outcome \in Outcomes, r.used.listeners < MaxListeners
    PROVE  LET v == Validated(r, a, s, outcome)
           IN  /\ IsMemory(v) /\ Grown(r, v, a)
               /\ v.iface[a] # None =>
                     /\ v.iface[a].buffer = r.iface[a].buffer
                     /\ \E n \in v.notes : /\ n.ref = a /\ n.n = v.iface[a].note
                                           /\ r.used.notes < n.n
               /\ outcome # "ok" =>
                     v.listener = r.listener /\ v.used.listeners = r.used.listeners
               /\ outcome = "ok" =>
                     LET t == r.used.listeners + 1
                     IN  /\ t \in Listeners /\ v.used.listeners = t
                         /\ \A k \in Listeners \ {t} : v.listener[k] = r.listener[k]
                         /\ v.listener[t].at = a /\ v.listener[t].buffer = "none"
                         /\ v.iface[a] # None /\ v.iface[a].listener = t
                         /\ \E n \in v.notes : /\ n.ref = a /\ n.n = v.iface[a].note
                                               /\ n.level = "controller" /\ n.service = s
<1> DEFINE v == Validated(r, a, s, outcome)
           w == Registered(r, a, s, "interface")
           both == Registered(w, a, s, "controller")
           first == Registered(r, a, s, "controller")
           second == Registered(first, a, s, "interface")
<1>1. outcome \in Rejected \cup {"link down", "not up", "ok"} /\ None \notin Structures
    BY LifecycleAssumption
<1>2. "interface" \in Levels /\ "controller" \in Levels
    BY DEF Levels
<1>3. /\ IsMemory(w) /\ Grown(r, w, a)
      /\ w.used.listeners = r.used.listeners /\ w.listener = r.listener
      /\ w.iface[a] \in Structures
      /\ w.iface[a].buffer = r.iface[a].buffer
      /\ \E n \in w.notes : /\ n.ref = a /\ n.n = w.iface[a].note /\ r.used.notes < n.n
                            /\ n.level = "interface" /\ n.service = s
    BY <1>2, RegisteredGrows
<1>4. /\ IsMemory(first) /\ Grown(r, first, a)
      /\ first.used.listeners = r.used.listeners /\ first.listener = r.listener
      /\ first.iface[a] \in Structures
      /\ first.iface[a].buffer = r.iface[a].buffer
    BY <1>2, RegisteredGrows
<1> HIDE DEF w, first
<1>5. /\ IsMemory(both) /\ Grown(w, both, a)
      /\ both.used.listeners = w.used.listeners /\ both.listener = w.listener
      /\ both.iface[a] \in Structures
      /\ both.iface[a].buffer = w.iface[a].buffer
      /\ \E n \in both.notes : /\ n.ref = a /\ n.n = both.iface[a].note
                               /\ w.used.notes < n.n
                               /\ n.level = "controller" /\ n.service = s
    BY <1>2, <1>3, RegisteredGrows
<1>6. /\ IsMemory(second) /\ Grown(first, second, a)
      /\ second.used.listeners = first.used.listeners /\ second.listener = first.listener
      /\ second.iface[a] \in Structures
      /\ second.iface[a].buffer = first.iface[a].buffer
      /\ \E n \in second.notes : /\ n.ref = a /\ n.n = second.iface[a].note
                                 /\ first.used.notes < n.n
                                 /\ n.level = "interface" /\ n.service = s
    BY <1>2, <1>4, RegisteredGrows
<1> HIDE DEF both, second
<1>7. Grown(r, both, a) /\ Grown(r, second, a)
    BY <1>3, <1>4, <1>5, <1>6, GrownTwice
<1>8. /\ r.used.notes \in Nat /\ w.used.notes \in Nat /\ first.used.notes \in Nat
      /\ r.used.notes <= w.used.notes /\ r.used.notes <= first.used.notes
      /\ \A n \in both.notes \cup second.notes : n.n \in Nat
    BY <1>3, <1>4, <1>5, <1>6 DEF IsMemory, Uses, Notes, Grown
<1>9. CASE outcome = "unreadable"
    <2>1. v = Freed(r, a)
        BY <1>9 DEF Validated
    <2> QED
        BY <1>9, <2>1, FreedGrows
<1>10. CASE outcome = "controller refused"
    <2>1. v = Freed(w, a)
        BY <1>10 DEF Validated, w
    <2> HIDE DEF v
    <2>2. /\ IsMemory(v) /\ Grown(w, v, a)
          /\ v.used = w.used /\ v.listener = w.listener /\ v.iface[a] = None
        BY <1>3, <2>1, FreedGrows
    <2>3. Grown(r, v, a)
        BY <1>3, <2>2, GrownTwice
    <2> QED
        BY <1>3, <1>10, <2>2, <2>3 DEF v
<1>11. CASE outcome = "no thread"
    <2>1. v = Freed(both, a)
        BY <1>11 DEF Validated, w, both
    <2> HIDE DEF v
    <2>2. /\ IsMemory(v) /\ Grown(both, v, a)
          /\ v.used = both.used /\ v.listener = both.listener /\ v.iface[a] = None
        BY <1>5, <2>1, FreedGrows
    <2>3. Grown(r, v, a)
        BY <1>5, <1>7, <2>2, GrownTwice
    <2> QED
        BY <1>3, <1>5, <1>11, <2>2, <2>3 DEF v
<1>12. CASE outcome = "link down"
    <2>1. v = second
        BY <1>12 DEF Validated, first, second
    <2> HIDE DEF v
    <2>2. \E n \in v.notes : n.ref = a /\ n.n = v.iface[a].note /\ r.used.notes < n.n
        BY <1>6, <1>8, <2>1
    <2> QED
        BY <1>4, <1>6, <1>7, <1>12, <2>1, <2>2 DEF v
<1>13. CASE outcome = "not up"
    <2>1. v = w
        BY <1>13 DEF Validated, w
    <2> HIDE DEF v
    <2> QED
        BY <1>3, <1>13, <2>1 DEF v
<1>14. CASE outcome = "ok"
    <2> DEFINE t == r.used.listeners + 1
    <2>1. v = Started(both, a)
        BY <1>14 DEF Validated, w, both
    <2> HIDE DEF v
    <2>2. both.used.listeners = r.used.listeners /\ both.listener = r.listener
        BY <1>3, <1>5
    <2>3. /\ IsMemory(v) /\ Grown(both, v, a)
          /\ v.notes = both.notes
          /\ v.iface[a] \in Structures
          /\ v.iface[a].buffer = both.iface[a].buffer
          /\ v.iface[a].note = both.iface[a].note
          /\ v.iface[a].listener = t /\ v.used.listeners = t /\ t \in Listeners
          /\ \A k \in Listeners \ {t} : v.listener[k] = both.listener[k]
          /\ v.listener[t].at = a /\ v.listener[t].buffer = "none"
        BY <1>5, <2>1, <2>2, StartedGrows
    <2> HIDE DEF t
    <2>4. Grown(r, v, a)
        BY <1>5, <1>7, <2>3, GrownTwice
    <2>5. \E n \in v.notes : /\ n.ref = a /\ n.n = v.iface[a].note /\ r.used.notes < n.n
                             /\ n.level = "controller" /\ n.service = s
        BY <1>5, <1>8, <2>3
    <2>6. v.iface[a] # None /\ v.iface[a].buffer = r.iface[a].buffer
        BY <1>1, <1>3, <1>5, <2>3
    <2> QED
        BY <1>14, <2>2, <2>3, <2>4, <2>5, <2>6 DEF v, t
<1> QED
    BY <1>1, <1>9, <1>10, <1>11, <1>12, <1>13, <1>14 DEF Rejected

-----------------------------------------------------------------------------
(* Steps that work on the structure at one address: validation and         *)
(* freeing, of a structure whose listeners have been told to stop.         *)

Remade(a) ==
    /\ IsMemory(Memory') /\ present' \in [Services -> Presences]
    /\ mail' = mail /\ main' = Idle /\ main.op # "power off"
    /\ \A s \in Services : present'[s] = "off" => present[s] = "off"
    /\ ~Unremembered(a) => Silent(a)
    \* The other structures stay as they are.
    /\ \A b \in Addresses \ {a} : iface'[b] = iface[b]
    \* The one registration that may be released is what the structure remembered.
    /\ \A n \in notes \ notes' : iface[a] # None /\ n.n = iface[a].note
    \* What was registered has numbers of its own.
    /\ used.notes <= used'.notes
    /\ \A n \in notes' \ notes : n.ref = a /\ used.notes < n.n /\ n.n <= used'.notes
    /\ \A n, k \in notes' \ notes : n.n = k.n => n = k
    \* What is kept remembers a new registration, and no buffer but its own.
    /\ iface'[a] # None =>
          /\ \E n \in notes' : n.ref = a /\ n.n = iface'[a].note /\ used.notes < n.n
          /\ iface'[a].buffer # None => iface[a] # None /\ iface'[a].buffer = iface[a].buffer
    \* The listeners that were there are not told apart from before.
    /\ used.listeners <= used'.listeners
    /\ \A t \in Listeners : t <= used.listeners \/ t > used'.listeners =>
          /\ listener'[t].pc = listener[t].pc
          /\ listener'[t].cancelled = listener[t].cancelled
          /\ listener'[t].at = listener[t].at
          /\ listener'[t].buffer # listener[t].buffer => listener[t].at = a
    \* A new one runs on the structure, whose controller is awake and remembered.
    /\ \A t \in Listeners : used.listeners < t /\ t <= used'.listeners =>
          /\ listener'[t].at = a /\ listener'[t].buffer = "none"
          /\ iface'[a] # None /\ iface'[a].listener = t
          /\ \E n \in notes' : /\ n.ref = a /\ n.n = iface'[a].note
                               /\ n.level = "controller" /\ present'[n.service] # "off"

\* A forgotten registration stays forgotten.
LEMMA StaysForgotten ==
    ASSUME TypeOK, Numbered, Remembered, NEW a \in Addresses, Remade(a),
           NEW b \in Addresses, Unremembered(b)
    PROVE  Unremembered(b)'
<1>1. PICK n \in notes : /\ n.ref = b /\ n.level = "controller"
                         /\ iface[b] = None \/ n.n # iface[b].note
    BY DEF Unremembered
<1>2. n \in Notes /\ n.n \in Nat /\ n.n <= used.notes /\ used.notes \in Nat
    BY DEF TypeOK, IsMemory, Memory, Notes, Uses, Numbered
<1>3. n \in notes'
    <2>1. SUFFICES ASSUME n \notin notes' PROVE FALSE
        OBVIOUS
    <2>2. iface[a] # None /\ n.n = iface[a].note
        BY <2>1 DEF Remade
    <2>3. PICK k \in notes : k.ref = a /\ k.n = iface[a].note
        BY <2>2 DEF Remembered
    <2>4. k = n
        BY <2>2, <2>3 DEF Numbered
    <2>5. a = b
        BY <1>1, <2>3, <2>4
    <2> QED
        BY <1>1, <2>2, <2>5
<1>4. CASE b # a
    <2>1. iface'[b] = iface[b]
        BY <1>4 DEF Remade
    <2> QED
        BY <1>1, <1>3, <2>1 DEF Unremembered
<1>5. CASE b = a /\ iface'[a] # None
    <2>1. PICK k \in notes' : k.n = iface'[a].note /\ used.notes < k.n
        BY <1>5 DEF Remade
    <2>2. k.n \in Nat
        BY DEF Remade, IsMemory, Memory, Notes
    <2>3. n.n # iface'[a].note
        BY <1>2, <2>1, <2>2
    <2> QED
        BY <1>1, <1>3, <1>5, <2>3 DEF Unremembered
<1>6. CASE b = a /\ iface'[a] = None
    BY <1>1, <1>3, <1>6 DEF Unremembered
<1> QED
    BY <1>4, <1>5, <1>6

LEMMA RemadePreserves ==
    ASSUME Inv, NEW a \in Addresses, Remade(a)
    PROVE  Inv'
<1>0. TypeOK /\ Numbered /\ Remembered /\ Buffers /\ Created
      /\ LatestOnly /\ WatchedWhileAwake /\ SilentBeforeStart
    BY DEF Inv
<1>1. /\ used.notes \in Nat /\ used.listeners \in 0 .. MaxListeners
      /\ used'.notes \in Nat /\ used'.listeners \in 0 .. MaxListeners
      /\ used.notes <= used'.notes /\ used.listeners <= used'.listeners
      /\ \A n \in notes : n.n \in Nat
      /\ \A n \in notes' : n.n \in Nat
      /\ MaxListeners \in Nat
    <2>1. IsMemory(Memory) /\ IsMemory(Memory')
        BY <1>0 DEF TypeOK, Remade
    <2>2. used.notes \in Nat /\ used.listeners \in 0 .. MaxListeners
          /\ \A n \in notes : n.n \in Nat
        BY <2>1, MemoryTypes DEF Memory
    <2>3. used'.notes \in Nat /\ used'.listeners \in 0 .. MaxListeners
          /\ \A n \in notes' : n.n \in Nat
        BY <2>1, MemoryTypes DEF Memory
    <2>4. used.notes <= used'.notes /\ used.listeners <= used'.listeners
        BY DEF Remade
    <2> QED
        BY <2>2, <2>3, <2>4, LifecycleAssumption
<1>2. main' = Idle /\ mail' = mail /\ main'.op = "idle"
    BY DEF Remade, Idle
\* A listener is an old one, as it was, or a new one.
<1>3. ASSUME NEW t \in Listeners
      PROVE  \/ /\ t <= used.listeners \/ t > used'.listeners
                /\ listener'[t].pc = listener[t].pc
                /\ listener'[t].cancelled = listener[t].cancelled
                /\ listener'[t].at = listener[t].at
             \/ used.listeners < t /\ t <= used'.listeners /\ listener'[t].at = a
    <2>1. t \in Nat /\ used.listeners \in Nat /\ used'.listeners \in Nat
        BY <1>1 DEF Listeners
    <2>2. t <= used.listeners \/ t > used'.listeners =>
            /\ listener'[t].pc = listener[t].pc
            /\ listener'[t].cancelled = listener[t].cancelled
            /\ listener'[t].at = listener[t].at
        BY DEF Remade
    <2>3. used.listeners < t /\ t <= used'.listeners => listener'[t].at = a
        BY DEF Remade
    <2> QED
        BY <2>1, <2>2, <2>3
<1>4. ASSUME NEW b \in Addresses, ~Unremembered(b)'
      PROVE  ~Unremembered(b)
    BY <1>0, <1>4, StaysForgotten
\* The registration that another structure remembers stays.
<1>5. ASSUME NEW b \in Addresses \ {a}, NEW n \in notes, n.ref = b
      PROVE  n \in notes'
    <2>1. SUFFICES ASSUME n \notin notes' PROVE FALSE
        OBVIOUS
    <2>2. iface[a] # None /\ n.n = iface[a].note
        BY <2>1 DEF Remade
    <2>3. PICK k \in notes : k.ref = a /\ k.n = iface[a].note
        BY <1>0, <2>2 DEF Remembered
    <2>4. k = n
        BY <1>0, <2>2, <2>3 DEF Numbered
    <2> QED
        BY <1>5, <2>3, <2>4
<1>6. TypeOK'
    <2>1. IsMemory(Memory)' /\ present' \in [Services -> Presences]
        BY DEF Remade
    <2>2. \A t \in Listeners : Alive(t)' => listener'[t].at \in Addresses
        BY <1>0, <1>3 DEF TypeOK, Alive
    <2> QED
        BY <1>0, <1>2, <2>1, <2>2 DEF TypeOK
<1>7. Numbered'
    <2>0. \A n \in notes' \ notes : used.notes < n.n /\ n.n <= used'.notes
        BY DEF Remade
    <2>1. \A n \in notes' : n \in notes \/ (used.notes < n.n /\ n.n <= used'.notes)
        BY <2>0
    <2>2. ASSUME NEW n \in notes'
          PROVE  n.n <= used'.notes /\ (n \in notes => n.n <= used.notes)
        <3>1. n.n \in Nat
            BY <1>1
        <3>2. n \in notes => n.n <= used.notes
            BY <1>0 DEF Numbered
        <3>3. n \in notes \/ n.n <= used'.notes
            BY <2>1
        <3> QED
            BY <1>1, <3>1, <3>2, <3>3
    <2>3. ASSUME NEW n \in notes', NEW k \in notes', n.n = k.n
          PROVE  n = k
        <3>1. n.n \in Nat /\ k.n \in Nat
            BY <1>1
        <3>2. CASE n \in notes /\ k \in notes
            BY <1>0, <2>3, <3>2 DEF Numbered
        <3>3. CASE n \notin notes /\ k \notin notes
            BY <2>3, <3>3 DEF Remade
        <3>4. CASE n \in notes /\ k \notin notes
            <4>1. n.n <= used.notes /\ used.notes < k.n
                BY <2>0, <2>2, <3>4
            <4> QED
                BY <1>1, <2>3, <3>1, <4>1
        <3>5. CASE n \notin notes /\ k \in notes
            <4>1. k.n <= used.notes /\ used.notes < n.n
                BY <2>0, <2>2, <3>5
            <4> QED
                BY <1>1, <2>3, <3>1, <4>1
        <3> QED
            BY <3>2, <3>3, <3>4, <3>5
    <2>4. ASSUME NEW m \in mail
          PROVE  m.n \in 0 .. used.notes /\ m.n \in 0 .. used'.notes
        <3>1. m.n \in 0 .. used.notes
            BY <1>0 DEF Numbered
        <3> QED
            BY <1>1, <3>1
    <2>5. ASSUME NEW n \in notes', Message(n, "power on") \in mail
          PROVE  n.level = "controller"
        <3>1. n.n \in 0 .. used.notes /\ n.n \in Nat
            BY <1>1, <2>4, <2>5 DEF Message
        <3>2. n \in notes
            BY <1>1, <2>1, <3>1
        <3> QED
            BY <1>0, <2>5, <3>2 DEF Numbered
    <2> QED
        BY <1>0, <1>2, <2>2, <2>3, <2>4, <2>5 DEF Numbered, Message
<1>8. ASSUME NEW b \in Addresses \ {a}, Silent(b)
      PROVE  Silent(b)'
    <2>1. SUFFICES ASSUME NEW t \in Listeners, Alive(t)', listener'[t].at = b
                   PROVE  listener'[t].cancelled
        BY DEF Silent
    <2>2. /\ listener'[t].pc = listener[t].pc
          /\ listener'[t].cancelled = listener[t].cancelled
          /\ listener'[t].at = listener[t].at
        BY <1>3, <2>1
    <2> QED
        BY <1>8, <2>1, <2>2 DEF Silent, Alive
\* What goes on at the address is a new listener.
<1>9. ASSUME ~Unremembered(a)', NEW t \in Listeners,
             Alive(t)', listener'[t].at = a, ~listener'[t].cancelled
      PROVE  used.listeners < t /\ t <= used'.listeners
    <2>1. Silent(a)
        BY <1>4, <1>9 DEF Remade
    <2>2. CASE /\ listener'[t].pc = listener[t].pc
               /\ listener'[t].cancelled = listener[t].cancelled
               /\ listener'[t].at = listener[t].at
        BY <1>9, <2>1, <2>2 DEF Silent, Alive
    <2> QED
        BY <1>3, <2>2
<1>10. Remembered'
    <2>1. SUFFICES ASSUME NEW b \in Addresses, iface'[b] # None
                   PROVE  \E n \in notes' : n.ref = b /\ n.n = iface'[b].note
        BY DEF Remembered
    <2>2. CASE b = a
        BY <2>1, <2>2 DEF Remade
    <2>3. CASE b # a
        <3>1. iface'[b] = iface[b]
            BY <2>3 DEF Remade
        <3>2. PICK n \in notes : n.ref = b /\ n.n = iface[b].note
            BY <1>0, <2>1, <3>1 DEF Remembered
        <3>3. n \in notes'
            BY <1>5, <2>3, <3>2
        <3> QED
            BY <3>1, <3>2, <3>3
    <2> QED
        BY <2>2, <2>3
<1>11. Buffers'
    <2>1. SUFFICES ASSUME NEW b \in Addresses, iface'[b] # None, iface'[b].buffer # None
                   PROVE  /\ iface'[b].buffer \in 1 .. used'.listeners
                          /\ listener'[iface'[b].buffer].at = b
        BY DEF Buffers
    <2>2. iface[b] # None /\ iface'[b].buffer = iface[b].buffer
        <3>1. CASE b = a
            BY <2>1, <3>1 DEF Remade
        <3>2. CASE b # a
            BY <2>1, <3>2 DEF Remade
        <3> QED
            BY <3>1, <3>2
    <2> DEFINE t == iface[b].buffer
    <2>3. t \in 1 .. used.listeners /\ listener[t].at = b
        BY <1>0, <2>1, <2>2 DEF Buffers
    <2> HIDE DEF t
    <2>4. t \in 1 .. used'.listeners /\ t \in Listeners /\ t <= used.listeners
        BY <1>1, <2>3 DEF Listeners
    <2>5. listener'[t].at = b
        BY <2>3, <2>4 DEF Remade
    <2> QED
        BY <2>2, <2>4, <2>5 DEF t
<1>12. Created'
    <2>1. SUFFICES ASSUME NEW t \in Listeners, t > used'.listeners
                   PROVE  listener'[t].pc = "none"
        BY DEF Created
    <2>2. t > used.listeners
        BY <1>1, <2>1 DEF Listeners
    <2>3. listener'[t].pc = listener[t].pc
        BY <2>1 DEF Remade
    <2> QED
        BY <1>0, <2>2, <2>3 DEF Created
<1>13. LatestOnly'
    <2>1. SUFFICES ASSUME NEW b \in Addresses, ~Unremembered(b)', NEW t \in Listeners,
                          Alive(t)', listener'[t].at = b, ~listener'[t].cancelled
                   PROVE  iface'[b] # None /\ iface'[b].listener = t
        BY DEF LatestOnly
    <2>2. CASE b = a
        <3>1. used.listeners < t /\ t <= used'.listeners
            BY <1>9, <2>1, <2>2
        <3> QED
            BY <2>2, <3>1 DEF Remade
    <2>3. CASE b # a
        <3>1. iface'[b] = iface[b]
            BY <2>3 DEF Remade
        <3>2. /\ listener'[t].pc = listener[t].pc
              /\ listener'[t].cancelled = listener[t].cancelled
              /\ listener'[t].at = listener[t].at
            BY <1>3, <2>1, <2>3
        <3>3. ~Unremembered(b)
            BY <1>4, <2>1
        <3> QED
            BY <1>0, <2>1, <3>1, <3>2, <3>3 DEF LatestOnly, Alive
    <2> QED
        BY <2>2, <2>3
<1>14. WatchedWhileAwake'
    <2>1. SUFFICES ASSUME NEW b \in Addresses, ~Unremembered(b)', ~Silent(b)'
                   PROVE  \E n \in notes' : /\ n.ref = b /\ n.n = iface'[b].note
                                            /\ n.level = "controller" /\ Awake(n)'
        BY DEF WatchedWhileAwake
    <2>2. CASE b = a
        <3>1. PICK t \in Listeners : Alive(t)' /\ listener'[t].at = a /\ ~listener'[t].cancelled
            BY <2>1, <2>2 DEF Silent
        <3>2. used.listeners < t /\ t <= used'.listeners
            BY <1>9, <2>1, <2>2, <3>1
        <3>3. PICK n \in notes' : /\ n.ref = a /\ n.n = iface'[a].note
                                  /\ n.level = "controller" /\ present'[n.service] # "off"
            BY <3>2 DEF Remade
        <3> QED
            BY <2>2, <3>3 DEF Awake
    <2>3. CASE b # a
        <3>1. iface'[b] = iface[b]
            BY <2>3 DEF Remade
        <3>2. ~Unremembered(b) /\ ~Silent(b)
            BY <1>4, <1>8, <2>1, <2>3
        <3>3. PICK n \in notes : /\ n.ref = b /\ n.n = iface[b].note
                                 /\ n.level = "controller" /\ Awake(n)
            BY <1>0, <3>2 DEF WatchedWhileAwake
        <3>4. n \in notes' /\ n.service \in Services
            <4>1. IsMemory(Memory)
                BY <1>0 DEF TypeOK
            <4> QED
                BY <1>5, <2>3, <3>3, <4>1, MemoryTypes DEF Memory
        <3>5. present[n.service] # "off" \/ Message(n, "power off") \in mail
            BY <3>3 DEF Awake, Remade
        <3>6. Awake(n)'
            BY <1>2, <3>4, <3>5 DEF Awake, Remade, Message
        <3> QED
            BY <3>1, <3>3, <3>4, <3>6
    <2> QED
        BY <2>2, <2>3
<1>15. SilentBeforeStart'
    <2>1. SUFFICES ASSUME NEW b \in Addresses, NEW n \in notes', iface'[b] # None,
                          n.n = iface'[b].note, ~Unremembered(b)',
                          Message(n, "power on") \in mail
                   PROVE  Silent(b)'
        BY <1>2 DEF SilentBeforeStart, Message
    <2>2. n.n \in 0 .. used.notes /\ n.n \in Nat
        <3>1. Message(n, "power on").n \in 0 .. used.notes
            BY <1>0, <2>1 DEF Numbered
        <3> QED
            BY <1>1, <3>1 DEF Message
    <2>3. n \in notes
        <3>1. ~(used.notes < n.n)
            BY <1>1, <2>2
        <3> QED
            BY <3>1 DEF Remade
    <2>4. b # a
        <3>1. SUFFICES ASSUME b = a PROVE FALSE
            OBVIOUS
        <3>2. PICK k \in notes' : k.n = iface'[a].note /\ used.notes < k.n
            BY <2>1, <3>1 DEF Remade
        <3>3. used.notes < n.n
            BY <2>1, <3>1, <3>2
        <3> QED
            BY <1>1, <2>2, <3>3
    <2>5. iface'[b] = iface[b]
        BY <2>4 DEF Remade
    <2>6. Silent(b)
        BY <1>0, <1>4, <2>1, <2>3, <2>5 DEF SilentBeforeStart
    <2> QED
        BY <1>8, <2>4, <2>6
<1> QED
    BY <1>6, <1>7, <1>10, <1>11, <1>12, <1>13, <1>14, <1>15 DEF Inv

\* Memory r is the daemon's, but for what was taken from the structure at an
\* address: its buffer, and the registration it remembers.
Taken(r, a) ==
    /\ IsMemory(r) /\ r.iface[a] \in Structures
    /\ \A b \in Addresses \ {a} : r.iface[b] = iface[b]
    /\ iface[a] # None => r.iface[a].note = iface[a].note
    /\ r.iface[a].buffer # None => iface[a] # None /\ r.iface[a].buffer = iface[a].buffer
    /\ r.used.notes = used.notes /\ r.used.listeners = used.listeners
    /\ r.notes \subseteq notes
    /\ \A n \in notes \ r.notes : iface[a] # None /\ n.n = iface[a].note
    /\ \A t \in Listeners :
          /\ r.listener[t].pc = listener[t].pc
          /\ r.listener[t].cancelled = listener[t].cancelled
          /\ r.listener[t].at = listener[t].at
          /\ r.listener[t].buffer # listener[t].buffer => listener[t].at = a

LEMMA ReleasedTakes ==
    ASSUME NEW r, NEW a \in Addresses, iface[a] # None, Taken(r, a)
    PROVE  Taken(Released(r, a), a)
<1> DEFINE v == Released(r, a)
<1>1. /\ IsMemory(v)
      /\ v.notes = {n \in r.notes : n.n # r.iface[a].note}
      /\ v.used = r.used /\ v.listener = r.listener /\ v.iface = r.iface
    BY ReleasedEffect DEF Taken
<1> HIDE DEF v
<1>2. v.notes \subseteq notes
    BY <1>1 DEF Taken
<1>3. \A n \in notes \ v.notes : iface[a] # None /\ n.n = iface[a].note
    BY <1>1 DEF Taken
<1>4. Taken(v, a)
    BY <1>1, <1>2, <1>3 DEF Taken
<1> QED
    BY <1>4 DEF v

LEMMA UnbufferedTakes ==
    ASSUME TypeOK, Buffers, NEW r, NEW a \in Addresses, Taken(r, a)
    PROVE  LET v == Unbuffered(r, a)
           IN  /\ Taken(v, a) /\ v.notes = r.notes /\ v.used = r.used
               /\ v.iface[a].buffer = None /\ v.iface[a].listener = r.iface[a].listener
<1> DEFINE v == Unbuffered(r, a)
<1>1. used.listeners \in 0 .. MaxListeners /\ MaxListeners \in Nat
    BY LifecycleAssumption, MemoryTypes DEF TypeOK, Memory
<1>2. r.iface[a].buffer # None =>
         r.iface[a].buffer \in Listeners /\ listener[r.iface[a].buffer].at = a
    BY <1>1 DEF Taken, Buffers, Listeners
<1>3. /\ IsMemory(v)
      /\ v.notes = r.notes /\ v.used = r.used
      /\ \A b \in Addresses \ {a} : v.iface[b] = r.iface[b]
      /\ v.iface[a] \in Structures /\ v.iface[a].buffer = None
      /\ v.iface[a].note = r.iface[a].note
      /\ v.iface[a].listener = r.iface[a].listener
      /\ \A t \in Listeners :
            /\ v.listener[t].pc = r.listener[t].pc
            /\ v.listener[t].cancelled = r.listener[t].cancelled
            /\ v.listener[t].at = r.listener[t].at
            /\ v.listener[t].buffer # r.listener[t].buffer => t = r.iface[a].buffer
    BY <1>2, UnbufferedEffect DEF Taken
<1> HIDE DEF v
<1>4. ASSUME NEW t \in Listeners
      PROVE  /\ v.listener[t].pc = listener[t].pc
             /\ v.listener[t].cancelled = listener[t].cancelled
             /\ v.listener[t].at = listener[t].at
             /\ v.listener[t].buffer # listener[t].buffer => listener[t].at = a
    <2>1. /\ r.listener[t].pc = listener[t].pc
          /\ r.listener[t].cancelled = listener[t].cancelled
          /\ r.listener[t].at = listener[t].at
          /\ r.listener[t].buffer # listener[t].buffer => listener[t].at = a
        BY DEF Taken
    <2>2. t = r.iface[a].buffer => listener[t].at = a \/ r.iface[a].buffer = None
        BY <1>2
    <2>3. t # None
        <3>1. t \in Nat
            BY <1>1 DEF Listeners
        <3>2. None \notin Nat
            BY LifecycleAssumption
        <3> QED
            BY <3>1, <3>2
    <2> QED
        BY <1>3, <2>1, <2>2, <2>3
<1>5. Taken(v, a)
    BY <1>3, <1>4 DEF Taken
<1> QED
    BY <1>3, <1>5 DEF v

\* Validation of a structure whose listeners were told to stop.
LEMMA ValidatedRemakes ==
    ASSUME NEW r, NEW a \in Addresses, Taken(r, a), NEW s \in Services,
           NEW outcome \in Outcomes, used.listeners < MaxListeners,
           Become(Validated(r, a, s, outcome)),
           mail' = mail, main' = Idle, main.op # "power off",
           present' \in [Services -> Presences],
           \A x \in Services : present'[x] = "off" => present[x] = "off",
           outcome = "ok" => present'[s] # "off",
           ~Unremembered(a) => Silent(a),
           TypeOK
    PROVE  Remade(a)
<1> DEFINE v == Validated(r, a, s, outcome)
           t == r.used.listeners + 1
<1>1. r.used.listeners = used.listeners /\ r.used.notes = used.notes
      /\ IsMemory(r) /\ r.iface[a] \in Structures
    BY DEF Taken
<1>2. /\ IsMemory(v) /\ Grown(r, v, a)
      /\ v.iface[a] # None =>
            /\ v.iface[a].buffer = r.iface[a].buffer
            /\ \E n \in v.notes : /\ n.ref = a /\ n.n = v.iface[a].note
                                  /\ r.used.notes < n.n
      /\ outcome # "ok" =>
            v.listener = r.listener /\ v.used.listeners = r.used.listeners
      /\ outcome = "ok" =>
            /\ t \in Listeners /\ v.used.listeners = t
            /\ \A k \in Listeners \ {t} : v.listener[k] = r.listener[k]
            /\ v.listener[t].at = a /\ v.listener[t].buffer = "none"
            /\ v.iface[a] # None /\ v.iface[a].listener = t
            /\ \E n \in v.notes : /\ n.ref = a /\ n.n = v.iface[a].note
                                  /\ n.level = "controller" /\ n.service = s
    <2>1. r.used.listeners < MaxListeners
        BY <1>1
    <2>2. IsMemory(r) /\ r.iface[a] \in Structures
        BY <1>1
    <2> QED
        BY ONLY <2>1, <2>2, outcome \in Outcomes, s \in Services, a \in Addresses, ValidatedEffect
<1>3. iface' = v.iface /\ notes' = v.notes /\ used' = v.used /\ listener' = v.listener
    BY DEF Become
<1> HIDE DEF v, t
<1>4. IsMemory(Memory')
    BY <1>2, <1>3 DEF IsMemory, Memory
<1>5. /\ \A b \in Addresses \ {a} : iface'[b] = iface[b]
      /\ \A n \in notes \ notes' : iface[a] # None /\ n.n = iface[a].note
      /\ used.notes <= used'.notes
      /\ \A n \in notes' \ notes : n.ref = a /\ used.notes < n.n /\ n.n <= used'.notes
      /\ \A n, k \in notes' \ notes : n.n = k.n => n = k
    <2>1. /\ \A b \in Addresses \ {a} : r.iface[b] = iface[b]
          /\ r.notes \subseteq notes
          /\ \A n \in notes \ r.notes : iface[a] # None /\ n.n = iface[a].note
        BY DEF Taken
    <2>2. /\ \A b \in Addresses \ {a} : v.iface[b] = r.iface[b]
          /\ used.notes <= v.used.notes
          /\ r.notes \subseteq v.notes
          /\ \A n \in v.notes \ r.notes :
                n.ref = a /\ used.notes < n.n /\ n.n <= v.used.notes
          /\ \A n, k \in v.notes \ r.notes : n.n = k.n => n = k
        <3>1. r.used.notes = used.notes /\ Grown(r, v, a)
            BY <1>1, <1>2
        <3> QED
            BY ONLY <3>1 DEF Grown
    <2>3. \A n \in notes' \ notes : n \in v.notes \ r.notes
        BY <1>3, <2>1
    <2>4. \A n \in notes \ notes' : n \in notes \ r.notes
        BY <1>3, <2>2
    <2>5. used.notes <= used'.notes
          /\ \A b \in Addresses \ {a} : iface'[b] = iface[b]
        BY <1>3, <2>1, <2>2
    <2>6. \A n \in notes' \ notes : n.ref = a /\ used.notes < n.n /\ n.n <= used'.notes
        BY <1>3, <2>2, <2>3
    <2> QED
        BY <2>1, <2>2, <2>3, <2>4, <2>5, <2>6
<1>6. iface'[a] # None =>
          /\ \E n \in notes' : n.ref = a /\ n.n = iface'[a].note /\ used.notes < n.n
          /\ iface'[a].buffer # None => iface[a] # None /\ iface'[a].buffer = iface[a].buffer
    <2>1. SUFFICES ASSUME iface'[a] # None
                   PROVE  /\ \E n \in notes' : n.ref = a /\ n.n = iface'[a].note /\ used.notes < n.n
                          /\ iface'[a].buffer # None =>
                                iface[a] # None /\ iface'[a].buffer = iface[a].buffer
        OBVIOUS
    <2>2. PICK n \in notes' : n.ref = a /\ n.n = iface'[a].note /\ r.used.notes < n.n
        BY <1>2, <1>3, <2>1
    <2>3. used.notes < n.n
        BY <1>1, <2>2
    <2>4. iface'[a].buffer = r.iface[a].buffer
        BY <1>2, <1>3, <2>1
    <2>5. r.iface[a].buffer # None => iface[a] # None /\ r.iface[a].buffer = iface[a].buffer
        BY DEF Taken
    <2> QED
        BY <2>2, <2>3, <2>4, <2>5
<1> DEFINE u == used.listeners
           w == used'.listeners
<1>7. u \in Nat /\ t = u + 1
    <2>1. u \in 0 .. MaxListeners /\ MaxListeners \in Nat
        BY LifecycleAssumption, MemoryTypes DEF TypeOK, Memory
    <2>2. t = u + 1
        BY <1>1 DEF t
    <2> HIDE DEF u, w
    <2> QED
        BY ONLY <2>1, <2>2
<1>8. w = u \/ (outcome = "ok" /\ w = t)
    BY <1>1, <1>2, <1>3
<1> HIDE DEF u, w
<1>9. ASSUME NEW k \in Listeners, k <= u \/ k > w
      PROVE  /\ listener'[k].pc = listener[k].pc
             /\ listener'[k].cancelled = listener[k].cancelled
             /\ listener'[k].at = listener[k].at
             /\ listener'[k].buffer # listener[k].buffer => listener[k].at = a
    <2>1. listener'[k] = r.listener[k]
        <3>0. outcome = "ok" => w = t
            BY <1>2, <1>3 DEF w
        <3>1. CASE outcome = "ok"
            <4>1. k # t
                BY ONLY <1>7, <1>8, <1>9, <3>0, <3>1 DEF Listeners
            <4> QED
                BY <1>2, <1>3, <3>1, <4>1
        <3> QED
            BY <1>2, <1>3, <3>1
    <2> QED
        BY <2>1 DEF Taken
<1>10. ASSUME NEW k \in Listeners, u < k, k <= w
       PROVE  /\ listener'[k].at = a /\ listener'[k].buffer = "none"
              /\ iface'[a] # None /\ iface'[a].listener = k
              /\ \E n \in notes' : /\ n.ref = a /\ n.n = iface'[a].note
                                   /\ n.level = "controller" /\ present'[n.service] # "off"
    <2>1. outcome = "ok"
        BY ONLY <1>7, <1>8, <1>10 DEF Listeners
    <2>2. k = t
        BY ONLY <1>7, <1>8, <1>10 DEF Listeners
    <2> QED
        BY <1>2, <1>3, <2>1, <2>2
<1>11. u <= w
    BY ONLY <1>7, <1>8
<1> QED
    BY <1>4, <1>5, <1>6, <1>9, <1>10, <1>11 DEF Remade, u, w

LEMMA HandlerTypes ==
    ASSUME TypeOK, main # Idle
    PROVE  /\ main.at \in Addresses /\ main.service \in Services
           /\ iface[main.at] \in Structures /\ iface[main.at] # None
<1>1. main.at \in Addresses /\ main.service \in Services /\ iface[main.at] # None
    BY DEF TypeOK
<1>2. iface \in [Addresses -> Structures \cup {None}]
    BY MemoryTypes DEF TypeOK, Memory
<1> QED
    BY <1>1, <1>2

LEMMA MemoryTaken ==
    ASSUME TypeOK, NEW a \in Addresses, iface[a] \in Structures
    PROVE  Taken(Memory, a)
<1>1. IsMemory(Memory)
    BY DEF TypeOK
<1>2. iface[a] # None
    BY LifecycleAssumption
<1> QED
    BY <1>1, <1>2 DEF Taken, Memory

\* deviceAppeared, from the memory with the new structure in it.
LEMMA AppearRemakes ==
    ASSUME Inv, NEW s \in Services, NEW a \in Addresses, NEW outcome \in Outcomes,
           Appear(s, a, outcome)
    PROVE  Remade(a)
<1> DEFINE fresh == [struct |-> used.structs + 1, listener |-> None, buffer |-> None,
                     note |-> None, named |-> TRUE]
           r == [Memory EXCEPT !.iface[a] = fresh, !.used.structs = @ + 1]
<1>1. /\ TypeOK /\ LatestOnly
      /\ iface[a] = None /\ used.listeners < MaxListeners /\ main = Idle
      /\ present' = [present EXCEPT ![s] = "on"] /\ mail' = mail /\ main' = main
      /\ Become(Validated(r, a, s, outcome))
    BY DEF Inv, Appear, RoomToValidate
<1>2. /\ iface \in [Addresses -> Structures \cup {None}]
      /\ notes \subseteq Notes /\ used \in Uses /\ used.structs \in Nat
      /\ listener \in [Listeners -> ListenerStates]
    BY <1>1, MemoryTypes DEF TypeOK, Memory
<1>3. fresh \in Structures /\ fresh.buffer = None
    BY <1>2 DEF Structures
<1>4. /\ DOMAIN r = {"iface", "notes", "used", "listener"}
      /\ r.iface = [iface EXCEPT ![a] = fresh]
      /\ r.used = [used EXCEPT !.structs = used.structs + 1]
      /\ r.notes = notes /\ r.listener = listener
    BY DEF Memory
<1> HIDE DEF r, fresh
<1>5. /\ r.iface \in [Addresses -> Structures \cup {None}]
      /\ r.iface[a] \in Structures /\ r.iface[a].buffer = None
      /\ \A b \in Addresses \ {a} : r.iface[b] = iface[b]
    BY <1>2, <1>3, <1>4
<1>6. /\ r.used \in Uses
      /\ r.used.notes = used.notes /\ r.used.listeners = used.listeners
    BY <1>2, <1>4 DEF Uses
<1>7. Taken(r, a)
    BY <1>1, <1>2, <1>4, <1>5, <1>6 DEF Taken, IsMemory
<1>8. ~Unremembered(a) => Silent(a)
    BY <1>1 DEF LatestOnly, Silent, Unremembered
<1>9. /\ present \in [Services -> Presences]
      /\ present' \in [Services -> Presences] /\ present'[s] # "off"
      /\ \A x \in Services : present'[x] = "off" => present[x] = "off"
    BY <1>1 DEF TypeOK, Presences
<1>10. main' = Idle /\ main.op # "power off"
    BY <1>1 DEF Idle
<1> QED
    BY <1>1, <1>7, <1>8, <1>9, <1>10, ValidatedRemakes

\* What follows a message: the structure is freed, or validated again.
LEMMA EndRemakes ==
    ASSUME Inv,
           \/ EndTerminated
           \/ \E outcome \in Outcomes : EndPropertyChange(outcome) \/ EndPowerOn(outcome)
    PROVE  \E a \in Addresses : Remade(a)
<1> DEFINE a == main.at
<1>1. /\ main.op \in {"terminated", "property change", "power on"}
      /\ mail' = mail /\ main' = Idle /\ present' = present
    BY DEF EndTerminated, EndPropertyChange, EndPowerOn, Ends
<1>2. main # Idle /\ main.op # "power off"
    <2>1. Idle.op = "idle"
        BY DEF Idle
    <2> QED
        BY <1>1, <2>1
<1>3. TypeOK /\ Buffers /\ SilentBeforeStart
    BY DEF Inv
<1>4. /\ a \in Addresses /\ main.service \in Services
      /\ iface[a] \in Structures /\ iface[a] # None
    BY <1>2, <1>3, HandlerTypes
<1>5. ~Unremembered(a) => Silent(a)
    BY <1>1, <1>3 DEF SilentBeforeStart
<1>6. /\ present' \in [Services -> Presences]
      /\ \A x \in Services : present'[x] = "off" => present[x] = "off"
    BY <1>1, <1>3 DEF TypeOK
<1> HIDE DEF a
<1>7. Taken(Memory, a)
    BY <1>3, <1>4, MemoryTaken
<1>8. Taken(Released(Memory, a), a)
    BY <1>4, <1>7, ReleasedTakes
<1>9. CASE EndTerminated
    <2> DEFINE r == Unbuffered(Released(Memory, a), a)
               v == Freed(r, a)
    <2>1. Taken(r, a)
        BY <1>3, <1>4, <1>8, UnbufferedTakes
    <2>2. iface' = v.iface /\ notes' = v.notes /\ used' = v.used /\ listener' = v.listener
        BY <1>9 DEF EndTerminated, Become, a
    <2> HIDE DEF r
    <2>3. /\ IsMemory(v) /\ Grown(r, v, a)
          /\ v.used = r.used /\ v.listener = r.listener /\ v.iface[a] = None
          /\ v.notes = r.notes
        BY <1>4, <2>1, FreedGrows, FreedEffect DEF Taken
    <2> HIDE DEF v
    <2>4. IsMemory(Memory')
        BY <2>2, <2>3 DEF IsMemory, Memory
    <2>5. /\ \A b \in Addresses \ {a} : iface'[b] = iface[b]
          /\ iface'[a] = None
        BY <2>1, <2>2, <2>3 DEF Taken, Grown
    <2>6. /\ \A n \in notes \ notes' : iface[a] # None /\ n.n = iface[a].note
          /\ notes' \subseteq notes
          /\ used'.notes = used.notes /\ used'.listeners = used.listeners
        BY <2>1, <2>2, <2>3 DEF Taken
    <2>7. ASSUME NEW t \in Listeners
          PROVE  /\ listener'[t].pc = listener[t].pc
                 /\ listener'[t].cancelled = listener[t].cancelled
                 /\ listener'[t].at = listener[t].at
                 /\ listener'[t].buffer # listener[t].buffer => listener[t].at = a
        BY <2>1, <2>2, <2>3 DEF Taken
    <2>8. /\ used.notes <= used'.notes /\ used.listeners <= used'.listeners
          /\ \A t \in Listeners : ~(used.listeners < t /\ t <= used'.listeners)
        <3> DEFINE u == used.listeners
                   m == used.notes
        <3>1. u \in 0 .. MaxListeners /\ m \in Nat /\ MaxListeners \in Nat
            BY <1>3, LifecycleAssumption, MemoryTypes DEF TypeOK, Memory
        <3> HIDE DEF u, m
        <3>2. m <= m /\ u <= u /\ \A t \in Listeners : ~(u < t /\ t <= u)
            BY ONLY <3>1 DEF Listeners
        <3>3. used'.notes = m /\ used'.listeners = u
            BY <2>6 DEF u, m
        <3> QED
            BY <3>2, <3>3 DEF u, m
    <2>9. Remade(a)
        BY <1>1, <1>2, <1>5, <1>6, <2>4, <2>5, <2>6, <2>7, <2>8 DEF Remade
    <2> QED
        BY <1>4, <2>9
<1>10. ASSUME NEW outcome \in Outcomes, EndPropertyChange(outcome) \/ EndPowerOn(outcome)
       PROVE  Remade(a)
    <2>1. used.listeners < MaxListeners
        BY <1>10 DEF EndPropertyChange, EndPowerOn, RoomToValidate
    <2>2. outcome = "ok" => present'[main.service] # "off"
        BY <1>1, <1>10 DEF EndPropertyChange, EndPowerOn, Found
    <2>3. PICK r : Taken(r, a) /\ Become(Validated(r, a, main.service, outcome))
        <3>1. CASE EndPowerOn(outcome)
            BY <1>8, <3>1 DEF EndPowerOn, a
        <3>2. CASE EndPropertyChange(outcome)
            <4>1. Taken(Unbuffered(Memory, a), a)
                BY <1>3, <1>4, <1>7, UnbufferedTakes
            <4>2. Taken(Released(Unbuffered(Memory, a), a), a)
                BY <1>4, <4>1, ReleasedTakes
            <4> QED
                BY <3>2, <4>2 DEF EndPropertyChange, a
        <3> QED
            BY <1>10, <3>1, <3>2
    <2> QED
        BY <1>1, <1>2, <1>3, <1>4, <1>5, <1>6, <2>1, <2>2, <2>3, ValidatedRemakes
<1> QED
    BY <1>4, <1>9, <1>10

-----------------------------------------------------------------------------
(* Steps that start no listener and register nothing: the listeners' own,  *)
(* and what a handler does when its message arrives.                       *)

Quiets ==
    /\ IsMemory(Memory') /\ UNCHANGED <<present, used, notes>>
    /\ mail' \subseteq mail
    /\ main' = Idle \/ /\ main'.op \in Handling /\ main'.at \in Addresses
                       /\ main'.service \in Services /\ iface'[main'.at] # None
    \* Structures stay; a buffer is taken away, or put there by a listener.
    /\ \A a \in Addresses :
          /\ iface'[a] = None <=> iface[a] = None
          /\ iface[a] # None => /\ iface'[a].note = iface[a].note
                                /\ iface'[a].listener = iface[a].listener
          /\ \/ iface'[a].buffer \in {None, iface[a].buffer}
             \/ iface'[a].buffer \in {t \in Listeners : Alive(t) /\ listener[t].at = a}
    \* Listeners end, or are told to.
    /\ \A t \in Listeners :
          /\ Alive(t)' => Alive(t)
          /\ listener[t].pc = "none" => listener'[t].pc = "none"
          /\ listener'[t].at = listener[t].at
          /\ listener[t].cancelled => listener'[t].cancelled
          /\ listener[t].buffer = "live" /\ listener'[t].buffer = "freed"
                => main'.op = "power off"
    \* What ends while a controller goes to sleep has silenced its listeners.
    /\ \A n \in notes : Awake(n) => Awake(n)' \/ Unremembered(n.ref) \/ Silent(n.ref)'
    /\ main'.op \in {"terminated", "property change", "power on"} /\ ~Unremembered(main.at)'
          => Silent(main.at)'

LEMMA QuietsPreserves ==
    ASSUME Inv, Quiets
    PROVE  Inv'
<1>0. TypeOK /\ Numbered /\ Remembered /\ Buffers /\ Created
      /\ LatestOnly /\ WatchedWhileAwake /\ SilentBeforeStart
    BY DEF Inv
<1>1. /\ notes' = notes /\ used' = used /\ present' = present
      /\ \A m \in mail' : m \in mail
    BY DEF Quiets
<1>2. ASSUME NEW t \in Listeners
      PROVE  /\ Alive(t)' => Alive(t)
             /\ listener[t].pc = "none" => listener'[t].pc = "none"
             /\ listener'[t].at = listener[t].at
             /\ listener[t].cancelled => listener'[t].cancelled
    BY DEF Quiets
<1>3. ASSUME NEW a \in Addresses
      PROVE  /\ iface'[a] = None <=> iface[a] = None
             /\ iface[a] # None => /\ iface'[a].note = iface[a].note
                                   /\ iface'[a].listener = iface[a].listener
    BY DEF Quiets
<1>4. ASSUME NEW a \in Addresses
      PROVE  Unremembered(a)' <=> Unremembered(a)
    BY <1>1, <1>3 DEF Unremembered
<1>5. ASSUME NEW a \in Addresses, Silent(a)
      PROVE  Silent(a)'
    <2>1. SUFFICES ASSUME NEW t \in Listeners, Alive(t)', listener'[t].at = a
                   PROVE  listener'[t].cancelled
        BY DEF Silent
    <2> QED
        BY <1>2, <1>5, <2>1 DEF Silent
<1>6. TypeOK'
    <2>1. IsMemory(Memory)'
        BY DEF Quiets
    <2>2. \A t \in Listeners : Alive(t)' => listener'[t].at \in Addresses
        BY <1>0, <1>2 DEF TypeOK
    <2>3. main' = Idle \/ /\ main'.op \in Handling /\ main'.at \in Addresses
                          /\ main'.service \in Services /\ iface'[main'.at] # None
        BY DEF Quiets
    <2>4. present' \in [Services -> Presences]
        BY <1>0, <1>1 DEF TypeOK
    <2> QED
        BY <2>1, <2>2, <2>3, <2>4 DEF TypeOK
<1>7. Numbered'
    BY <1>0, <1>1 DEF Numbered, Message
<1>8. Remembered'
    BY <1>0, <1>1, <1>3 DEF Remembered
<1>9. Buffers'
    <2>1. SUFFICES ASSUME NEW a \in Addresses, iface'[a] # None, iface'[a].buffer # None
                   PROVE  /\ iface'[a].buffer \in 1 .. used.listeners
                          /\ listener'[iface'[a].buffer].at = a
        BY <1>1 DEF Buffers
    <2> DEFINE t == iface'[a].buffer
               u == used.listeners
    <2>2. u \in 0 .. MaxListeners /\ MaxListeners \in Nat
        BY <1>0, LifecycleAssumption, MemoryTypes DEF TypeOK, Memory
    <2>3. t \in 1 .. u /\ listener[t].at = a
        <3>1. CASE t = iface[a].buffer
            BY <1>0, <1>3, <2>1, <3>1 DEF Buffers
        <3>2. CASE t \in Listeners /\ Alive(t) /\ listener[t].at = a
            <4>1. ~(t > u)
                BY <1>0, <3>2 DEF Created, Alive
            <4> HIDE DEF t, u
            <4>2. t \in 1 .. u
                BY <2>2, <3>2, <4>1 DEF Listeners
            <4> QED
                BY <3>2, <4>2
        <3> QED
            BY <2>1, <3>1, <3>2 DEF Quiets
    <2> HIDE DEF t, u
    <2>4. t \in Listeners
        BY <2>2, <2>3 DEF Listeners
    <2> QED
        BY <1>2, <2>3, <2>4 DEF t, u
<1>10. Created'
    BY <1>0, <1>1, <1>2 DEF Created
<1>11. LatestOnly'
    <2>1. SUFFICES ASSUME NEW a \in Addresses, ~Unremembered(a)', NEW t \in Listeners,
                          Alive(t)', listener'[t].at = a, ~listener'[t].cancelled
                   PROVE  iface'[a] # None /\ iface'[a].listener = t
        BY DEF LatestOnly
    <2>2. Alive(t) /\ listener[t].at = a /\ ~listener[t].cancelled /\ ~Unremembered(a)
        BY <1>2, <1>4, <2>1
    <2>3. iface[a] # None /\ iface[a].listener = t
        BY <1>0, <2>2 DEF LatestOnly
    <2> QED
        BY <1>3, <2>3
<1>12. WatchedWhileAwake'
    <2>1. SUFFICES ASSUME NEW a \in Addresses, ~Unremembered(a)', ~Silent(a)'
                   PROVE  \E n \in notes' : /\ n.ref = a /\ n.n = iface'[a].note
                                            /\ n.level = "controller" /\ Awake(n)'
        BY DEF WatchedWhileAwake
    <2>2. ~Unremembered(a) /\ ~Silent(a)
        BY <1>4, <1>5, <2>1
    <2>3. PICK n \in notes : /\ n.ref = a /\ n.n = iface[a].note
                             /\ n.level = "controller" /\ Awake(n)
        BY <1>0, <2>2 DEF WatchedWhileAwake
    <2>4. Awake(n)'
        BY <2>1, <2>2, <2>3 DEF Quiets
    <2>5. iface[a] # None
        <3>1. PICK t \in Listeners : Alive(t) /\ listener[t].at = a /\ ~listener[t].cancelled
            BY <2>2 DEF Silent
        <3> QED
            BY <1>0, <2>2, <3>1 DEF LatestOnly
    <2> QED
        BY <1>1, <1>3, <2>3, <2>4, <2>5
<1>13. SilentBeforeStart'
    <2>1. ASSUME NEW a \in Addresses, NEW n \in notes', iface'[a] # None,
                 n.n = iface'[a].note, ~Unremembered(a)', Message(n, "power on")' \in mail'
          PROVE  Silent(a)'
        <3>1. iface[a] # None /\ n.n = iface[a].note /\ ~Unremembered(a) /\ n \in notes
              /\ Message(n, "power on") \in mail
            BY <1>1, <1>3, <1>4, <2>1 DEF Message
        <3>2. Silent(a)
            BY <1>0, <3>1 DEF SilentBeforeStart
        <3> QED
            BY <1>5, <3>2
    <2>2. main'.op \in {"terminated", "property change", "power on"} /\ ~Unremembered(main.at)'
             => Silent(main.at)'
        BY DEF Quiets
    <2> QED
        BY <2>1, <2>2 DEF SilentBeforeStart
<1> QED
    BY <1>6, <1>7, <1>8, <1>9, <1>10, <1>11, <1>12, <1>13 DEF Inv

LEMMA CancelledEffect ==
    ASSUME TypeOK, NEW a \in Addresses
    PROVE  /\ Cancelled(a) \in [Listeners -> ListenerStates]
           /\ \A t \in Listeners :
                 /\ Cancelled(a)[t].pc = listener[t].pc
                 /\ Cancelled(a)[t].at = listener[t].at
                 /\ Cancelled(a)[t].buffer = listener[t].buffer
                 /\ listener[t].cancelled => Cancelled(a)[t].cancelled
                 /\ Alive(t) /\ t = iface[a].listener => Cancelled(a)[t].cancelled
<1>1. listener \in [Listeners -> ListenerStates]
    BY MemoryTypes DEF TypeOK, Memory
<1>2. ASSUME NEW t \in Listeners
      PROVE  /\ Cancelled(a)[t] \in ListenerStates
             /\ Cancelled(a)[t].pc = listener[t].pc
             /\ Cancelled(a)[t].at = listener[t].at
             /\ Cancelled(a)[t].buffer = listener[t].buffer
             /\ listener[t].cancelled => Cancelled(a)[t].cancelled
             /\ Alive(t) /\ t = iface[a].listener => Cancelled(a)[t].cancelled
    <2>1. listener[t] \in ListenerStates
        BY <1>1
    <2>2. CASE t = iface[a].listener /\ listener[t].pc # "dead"
        <3>1. Cancelled(a)[t] = [listener[t] EXCEPT !.cancelled = TRUE]
            BY <2>2 DEF Cancelled
        <3> QED
            BY <2>1, <3>1 DEF ListenerStates
    <2>3. CASE ~(t = iface[a].listener /\ listener[t].pc # "dead")
        <3>1. Cancelled(a)[t] = listener[t]
            BY <2>3 DEF Cancelled
        <3> QED
            BY <2>1, <2>3, <3>1 DEF Alive
    <2> QED
        BY <2>2, <2>3
<1>3. Cancelled(a) \in [Listeners -> ListenerStates]
    <2>1. Cancelled(a) = [t \in Listeners |-> Cancelled(a)[t]]
        BY DEF Cancelled
    <2> QED
        BY <1>2, <2>1
<1> QED
    BY <1>2, <1>3

\* What was told to stop was what went on.
LEMMA CancelledSilences ==
    ASSUME TypeOK, LatestOnly, NEW a \in Addresses, ~Unremembered(a),
           listener' = Cancelled(a)
    PROVE  Silent(a)'
<1>1. SUFFICES ASSUME NEW t \in Listeners, Alive(t)', listener'[t].at = a
               PROVE  listener'[t].cancelled
    BY DEF Silent
<1>2. /\ listener'[t].pc = listener[t].pc /\ listener'[t].at = listener[t].at
      /\ listener[t].cancelled => listener'[t].cancelled
      /\ Alive(t) /\ t = iface[a].listener => listener'[t].cancelled
    BY CancelledEffect
<1>3. Alive(t)
    BY <1>1, <1>2 DEF Alive
<1>4. listener[t].cancelled \/ t = iface[a].listener
    BY <1>1, <1>2, <1>3 DEF LatestOnly
<1> QED
    BY <1>2, <1>3, <1>4

\* Telling the latest listener to stop, with nothing else done to memory.
LEMMA CancelQuiets ==
    ASSUME Inv, NEW a \in Addresses, listener' = Cancelled(a),
           UNCHANGED <<present, iface, used, notes>>, mail' \subseteq mail,
           main' = Idle \/ /\ main'.op \in Handling /\ main'.at \in Addresses
                           /\ main'.service \in Services /\ iface[main'.at] # None,
           main' # Idle => main'.at = a,
           \A n \in notes : Awake(n) => Awake(n)' \/ n.ref = a
    PROVE  Quiets
<1>1. TypeOK /\ LatestOnly
    BY DEF Inv
<1>2. /\ listener' \in [Listeners -> ListenerStates]
      /\ \A t \in Listeners :
            /\ listener'[t].pc = listener[t].pc
            /\ listener'[t].at = listener[t].at
            /\ listener'[t].buffer = listener[t].buffer
            /\ listener[t].cancelled => listener'[t].cancelled
    BY <1>1, CancelledEffect
<1>3. IsMemory(Memory')
    BY <1>1, <1>2 DEF TypeOK, IsMemory, Memory
<1>4. ~Unremembered(a) => Silent(a)'
    BY <1>1, CancelledSilences
<1>5. ~Unremembered(a)' => ~Unremembered(a)
    BY DEF Unremembered
<1>6. \A n \in notes : Awake(n) => Awake(n)' \/ Unremembered(n.ref) \/ Silent(n.ref)'
    <2>1. SUFFICES ASSUME NEW n \in notes, Awake(n)
                   PROVE  Awake(n)' \/ Unremembered(n.ref) \/ Silent(n.ref)'
        OBVIOUS
    <2> QED
        BY <1>4, <2>1
<1>7. main'.op \in {"terminated", "property change", "power on"} /\ ~Unremembered(main.at)'
          => Silent(main.at)'
    <2>1. SUFFICES ASSUME main'.op \in {"terminated", "property change", "power on"},
                          ~Unremembered(main.at)'
                   PROVE  Silent(main.at)'
        OBVIOUS
    <2>2. main' # Idle
        <3>1. Idle.op = "idle"
            BY DEF Idle
        <3> QED
            BY <2>1, <3>1
    <2>3. main'.at = a
        BY <2>2
    <2>4. ~Unremembered(a)
        BY <2>1, <2>3 DEF Unremembered
    <2>5. \A t \in Listeners : Alive(t)' /\ listener'[t].at = a => listener'[t].cancelled
        BY <1>4, <2>4 DEF Silent
    <2> QED
        BY <2>3, <2>5 DEF Silent
<1>8. ASSUME NEW t \in Listeners
      PROVE  Alive(t)' => Alive(t)
    BY <1>2 DEF Alive
<1> QED
    BY <1>2, <1>3, <1>6, <1>7, <1>8 DEF Quiets

\* What a handler that starts has been told, and of which structure.
LEMMA ReceivesFacts ==
    ASSUME Inv, NEW n \in notes, NEW op \in Handling, Receives(n, op)
    PROVE  /\ n.ref \in Addresses /\ n.service \in Services /\ n \in notes
           /\ iface[n.ref] \in Structures /\ iface[n.ref] # None
           /\ main = Idle /\ mail' = mail \ {Message(n, op)} /\ mail' \subseteq mail
           /\ main'.op = op /\ main'.at = n.ref /\ main'.service = n.service
           /\ \A k \in notes : /\ Awake(k)
                               /\ op = "power off" => k # n
                               => Message(k, "power off") \in mail' \/ present[k.service] # "off"
<1>1. TypeOK /\ Numbered
    BY DEF Inv
<1>2. n.ref \in Addresses /\ n.service \in Services
      /\ iface \in [Addresses -> Structures \cup {None}]
    BY <1>1, MemoryTypes DEF TypeOK, Memory
<1>3. /\ main = Idle /\ mail' = mail \ {Message(n, op)} /\ iface[n.ref] # None
      /\ main' = [op |-> op, at |-> n.ref, service |-> n.service]
    BY DEF Receives
<1>4. main'.op = op /\ main'.at = n.ref /\ main'.service = n.service
    BY <1>3
<1>5. ASSUME NEW k \in notes, Awake(k), op = "power off" => k # n
      PROVE  Message(k, "power off") \in mail' \/ present[k.service] # "off"
    <2>1. main.op # "power off"
        BY <1>3 DEF Idle
    <2>2. Message(k, "power off") \in mail \/ present[k.service] # "off"
        BY <1>5, <2>1 DEF Awake
    <2>3. Message(k, "power off") # Message(n, op)
        <3>1. CASE op = "power off"
            <4>1. k.n # n.n
                BY <1>1, <1>5, <3>1 DEF Numbered
            <4> QED
                BY <4>1 DEF Message
        <3>2. CASE op # "power off"
            BY <3>2 DEF Message
        <3> QED
            BY <3>1, <3>2
    <2> QED
        BY <1>3, <2>2, <2>3
<1> QED
    BY <1>2, <1>3, <1>4, <1>5

LEMMA CancelHandlersQuiet ==
    ASSUME Inv, NEW n \in notes, Terminated(n) \/ PropertyChange(n)
    PROVE  Quiets
<1>1. PICK op \in {"terminated", "property change"} : Receives(n, op)
    BY DEF Terminated, PropertyChange
<1>2. listener' = Cancelled(n.ref) /\ UNCHANGED <<present, iface, used, notes>>
    BY DEF Terminated, PropertyChange
<1>3. op \in Handling /\ op # "power off"
    BY DEF Handling
<1>4. /\ n.ref \in Addresses /\ n.service \in Services /\ iface[n.ref] # None
      /\ mail' \subseteq mail
      /\ main'.op = op /\ main'.at = n.ref /\ main'.service = n.service
      /\ \A k \in notes : Awake(k) => Message(k, "power off") \in mail'
                                         \/ present[k.service] # "off"
    BY <1>1, <1>3, ReceivesFacts
<1>5. \A k \in notes : Awake(k) => Awake(k)'
    BY <1>2, <1>4 DEF Awake, Message
<1> QED
    BY <1>2, <1>3, <1>4, <1>5, CancelQuiets

LEMMA EndPowerOffQuiets ==
    ASSUME Inv, EndPowerOff
    PROVE  Quiets
<1>1. /\ main.op = "power off" /\ listener' = Cancelled(main.at)
      /\ UNCHANGED <<present, iface, used, notes>> /\ mail' = mail /\ main' = Idle
    BY DEF EndPowerOff, Ends
<1>2. TypeOK /\ main # Idle
    <2>1. Idle.op = "idle"
        BY DEF Idle
    <2> QED
        BY <1>1, <2>1 DEF Inv
<1>3. main.at \in Addresses
    BY <1>2, HandlerTypes
<1>4. \A n \in notes : Awake(n) => Awake(n)' \/ n.ref = main.at
    BY <1>1 DEF Awake, Message
<1> QED
    BY <1>1, <1>3, <1>4, CancelQuiets

\* A step that leaves the listeners that go on, and what structures remember,
\* as they were.
LEMMA SteadyQuiets ==
    ASSUME Inv, IsMemory(Memory'), UNCHANGED <<present, used, notes>>, mail' \subseteq mail,
           \A a \in Addresses :
              /\ iface'[a] = None <=> iface[a] = None
              /\ iface[a] # None => /\ iface'[a].note = iface[a].note
                                    /\ iface'[a].listener = iface[a].listener
              /\ \/ iface'[a].buffer \in {None, iface[a].buffer}
                 \/ iface'[a].buffer \in {t \in Listeners : Alive(t) /\ listener[t].at = a},
           \A t \in Listeners :
              /\ Alive(t)' => Alive(t)
              /\ listener[t].pc = "none" => listener'[t].pc = "none"
              /\ listener'[t].at = listener[t].at
              /\ listener[t].cancelled => listener'[t].cancelled
              /\ listener[t].buffer = "live" /\ listener'[t].buffer = "freed"
                    => main'.op = "power off",
           main' = Idle \/ /\ main'.op \in Handling /\ main'.at \in Addresses
                           /\ main'.service \in Services /\ iface[main'.at] # None,
           \A n \in notes : Awake(n) => Awake(n)',
           \A a \in Addresses :
              main'.op \in {"terminated", "property change", "power on"} /\ main'.at = a
                 => Unremembered(a) \/ Silent(a)
    PROVE  Quiets
<1>1. ASSUME NEW a \in Addresses, Silent(a)
      PROVE  Silent(a)'
    <2>1. SUFFICES ASSUME NEW t \in Listeners, Alive(t)', listener'[t].at = a
                   PROVE  listener'[t].cancelled
        BY DEF Silent
    <2> QED
        BY <1>1, <2>1 DEF Silent
<1>2. ASSUME NEW a \in Addresses
      PROVE  Unremembered(a)' <=> Unremembered(a)
    BY DEF Unremembered
<1>3. main'.op \in {"terminated", "property change", "power on"} /\ ~Unremembered(main.at)'
          => Silent(main.at)'
    <2>1. SUFFICES ASSUME main'.op \in {"terminated", "property change", "power on"},
                          ~Unremembered(main.at)'
                   PROVE  Silent(main.at)'
        OBVIOUS
    <2>2. main' # Idle
        <3>1. Idle.op = "idle"
            BY DEF Idle
        <3> QED
            BY <2>1, <3>1
    <2>3. PICK a \in Addresses : main'.at = a
        BY <2>2
    <2>4. ~Unremembered(a)
        BY <1>2, <2>1, <2>3 DEF Unremembered
    <2>5. Silent(a)'
        BY <1>1, <2>1, <2>3, <2>4
    <2>6. \A t \in Listeners : Alive(t)' /\ listener'[t].at = a => listener'[t].cancelled
        BY <2>5 DEF Silent
    <2> QED
        BY <2>3, <2>6 DEF Silent
<1>4. main' = Idle \/ /\ main'.op \in Handling /\ main'.at \in Addresses
                      /\ main'.service \in Services /\ iface'[main'.at] # None
    OBVIOUS
<1> QED
    BY <1>3, <1>4 DEF Quiets

LEMMA PowerOffQuiets ==
    ASSUME Inv, NEW n \in notes, PowerOff(n)
    PROVE  Quiets
<1> DEFINE a == n.ref
           v == Unbuffered(Memory, a)
<1>1. Receives(n, "power off") /\ Become(v) /\ present' = present
    BY DEF PowerOff
<1>2. "power off" \in Handling
    BY DEF Handling
<1>3. /\ a \in Addresses /\ n.service \in Services
      /\ iface[a] \in Structures /\ iface[a] # None /\ mail' \subseteq mail
      /\ main'.op = "power off" /\ main'.at = a /\ main'.service = n.service
      /\ \A k \in notes : Awake(k) /\ k # n => Message(k, "power off") \in mail'
                                                  \/ present[k.service] # "off"
    BY <1>1, <1>2, ReceivesFacts
<1>4. TypeOK /\ Buffers
    BY DEF Inv
<1> HIDE DEF a
<1>5. Taken(Memory, a)
    BY <1>3, <1>4, MemoryTaken
<1>6. /\ Taken(v, a) /\ v.notes = notes /\ v.used = used
      /\ v.iface[a].buffer = None /\ v.iface[a].listener = iface[a].listener
    BY <1>3, <1>4, <1>5, UnbufferedTakes DEF Memory
<1>7. iface' = v.iface /\ notes' = v.notes /\ used' = v.used /\ listener' = v.listener
    BY <1>1 DEF Become
<1> HIDE DEF v
<1>8. IsMemory(Memory')
    BY <1>6, <1>7 DEF Taken, IsMemory, Memory
<1>9. None \notin Structures
    BY LifecycleAssumption
<1>10. ASSUME NEW b \in Addresses
       PROVE  /\ iface'[b] = None <=> iface[b] = None
              /\ iface[b] # None => /\ iface'[b].note = iface[b].note
                                    /\ iface'[b].listener = iface[b].listener
              /\ iface'[b].buffer \in {None, iface[b].buffer}
    <2>1. CASE b = a
        BY <1>3, <1>6, <1>7, <1>9, <2>1 DEF Taken
    <2>2. CASE b # a
        BY <1>6, <1>7, <2>2 DEF Taken
    <2> QED
        BY <2>1, <2>2
<1>11. ASSUME NEW t \in Listeners
       PROVE  /\ Alive(t)' => Alive(t)
              /\ listener[t].pc = "none" => listener'[t].pc = "none"
              /\ listener'[t].at = listener[t].at
              /\ listener[t].cancelled => listener'[t].cancelled
    BY <1>6, <1>7 DEF Taken, Alive
<1>12. ASSUME NEW k \in notes, Awake(k)
       PROVE  Awake(k)'
    <2>1. CASE k = n
        BY <1>3, <2>1 DEF Awake, a
    <2>2. CASE k # n
        BY <1>1, <1>3, <1>12, <2>2 DEF Awake, Message
    <2> QED
        BY <2>1, <2>2
<1>13. main'.op \in Handling /\ main'.at \in Addresses
       /\ main'.service \in Services /\ iface[main'.at] # None
    BY <1>2, <1>3
<1>14. main'.op \notin {"terminated", "property change", "power on"}
    BY <1>3
<1> QED
    BY <1>1, <1>3, <1>6, <1>7, <1>8, <1>10, <1>11, <1>12, <1>13, <1>14, SteadyQuiets

LEMMA PowerOnQuiets ==
    ASSUME Inv, NEW n \in notes, PowerOn(n)
    PROVE  Quiets
<1> DEFINE a == n.ref
<1>1. /\ Receives(n, "power on")
      /\ iface' = [iface EXCEPT ![a].named = FALSE]
      /\ UNCHANGED <<present, used, notes, listener>>
    BY DEF PowerOn
<1>2. "power on" \in Handling
    BY DEF Handling
<1>3. /\ a \in Addresses /\ n.service \in Services
      /\ iface[a] \in Structures /\ iface[a] # None
      /\ mail' \subseteq mail
      /\ main'.op = "power on" /\ main'.at = a /\ main'.service = n.service
      /\ \A k \in notes : Awake(k) => Message(k, "power off") \in mail'
                                         \/ present[k.service] # "off"
    BY <1>1, <1>2, ReceivesFacts
<1>4. TypeOK /\ Numbered /\ SilentBeforeStart
    BY DEF Inv
<1>5. Message(n, "power on") \in mail
    BY <1>1 DEF Receives
<1>6. Unremembered(a) \/ Silent(a)
    <2>1. n.level = "controller"
        BY <1>4, <1>5 DEF Numbered
    <2>2. Unremembered(a) \/ n.n = iface[a].note
        BY <2>1 DEF Unremembered
    <2> QED
        BY <1>3, <1>4, <1>5, <2>2 DEF SilentBeforeStart
<1> HIDE DEF a
<1>7. /\ iface \in [Addresses -> Structures \cup {None}] /\ None \notin Structures
      /\ IsMemory(Memory)
    BY <1>4, LifecycleAssumption, MemoryTypes DEF TypeOK, Memory
<1>8. /\ iface' = [iface EXCEPT ![a] = [iface[a] EXCEPT !.named = FALSE]]
      /\ [iface[a] EXCEPT !.named = FALSE] \in Structures
    BY <1>1, <1>3 DEF Structures
<1>9. iface' \in [Addresses -> Structures \cup {None}]
    BY <1>7, <1>8
<1>10. IsMemory(Memory')
    BY <1>1, <1>7, <1>9 DEF IsMemory, Memory
<1>11. ASSUME NEW b \in Addresses
       PROVE  /\ iface'[b] = None <=> iface[b] = None
              /\ iface[b] # None => /\ iface'[b].note = iface[b].note
                                    /\ iface'[b].listener = iface[b].listener
              /\ iface'[b].buffer \in {None, iface[b].buffer}
    <2>1. CASE b = a
        <3>1. iface'[b] = [iface[a] EXCEPT !.named = FALSE]
            BY <1>7, <1>8, <2>1
        <3>2. iface'[b] # None
            BY <1>7, <1>8, <3>1
        <3> QED
            BY <1>3, <2>1, <3>1, <3>2 DEF Structures
    <2>2. CASE b # a
        BY <1>7, <1>8, <2>2
    <2> QED
        BY <2>1, <2>2
<1>12. ASSUME NEW t \in Listeners
       PROVE  /\ Alive(t)' => Alive(t)
              /\ listener[t].pc = "none" => listener'[t].pc = "none"
              /\ listener'[t].at = listener[t].at
              /\ listener[t].cancelled => listener'[t].cancelled
              /\ ~(listener[t].buffer = "live" /\ listener'[t].buffer = "freed")
    <2>1. listener' = listener
        BY <1>1
    <2>2. "live" # "freed"
        OBVIOUS
    <2> QED
        BY <2>1, <2>2 DEF Alive
<1>13. \A k \in notes : Awake(k) => Awake(k)'
    BY <1>1, <1>3 DEF Awake, Message
<1>14. main'.op \in Handling /\ main'.at \in Addresses
       /\ main'.service \in Services /\ iface[main'.at] # None
    BY <1>2, <1>3
<1> QED
    BY <1>1, <1>3, <1>6, <1>10, <1>11, <1>12, <1>13, <1>14, SteadyQuiets

\* A listener's step changes that listener, and the buffer of its structure.
LEMMA ThreadSteady ==
    ASSUME Inv, NEW t \in Listeners, Alive(t),
           UNCHANGED <<present, mail, used, notes, main>>,
           NEW x \in ListenerStates, listener' = [listener EXCEPT ![t] = x],
           x.at = listener[t].at, x.cancelled = listener[t].cancelled,
           x.buffer \in {"live", listener[t].buffer},
           iface' \in [Addresses -> Structures \cup {None}],
           \A a \in Addresses :
              /\ iface'[a] = None <=> iface[a] = None
              /\ iface[a] # None => /\ iface'[a].note = iface[a].note
                                    /\ iface'[a].listener = iface[a].listener
              /\ \/ iface'[a].buffer = iface[a].buffer
                 \/ iface'[a].buffer = t /\ listener[t].at = a
    PROVE  Quiets
<1>1. TypeOK /\ SilentBeforeStart
    BY DEF Inv
<1>2. listener \in [Listeners -> ListenerStates] /\ IsMemory(Memory)
    BY <1>1, MemoryTypes DEF TypeOK, Memory
<1>3. IsMemory(Memory')
    BY <1>2 DEF IsMemory, Memory
<1>4. ASSUME NEW k \in Listeners
      PROVE  /\ Alive(k)' => Alive(k)
             /\ listener[k].pc = "none" => listener'[k].pc = "none"
             /\ listener'[k].at = listener[k].at
             /\ listener[k].cancelled => listener'[k].cancelled
             /\ ~(listener[k].buffer = "live" /\ listener'[k].buffer = "freed")
    <2>1. CASE k = t
        <3>1. listener'[k] = x
            BY <1>2, <2>1
        <3>2. listener[k].pc # "none"
            BY <2>1 DEF Alive
        <3> QED
            BY <2>1, <3>1, <3>2
    <2>2. CASE k # t
        <3>1. listener'[k] = listener[k]
            BY <1>2, <2>2
        <3> QED
            BY <3>1 DEF Alive
    <2> QED
        BY <2>1, <2>2
<1>5. ASSUME NEW a \in Addresses
      PROVE  /\ iface'[a] = None <=> iface[a] = None
             /\ iface[a] # None => /\ iface'[a].note = iface[a].note
                                   /\ iface'[a].listener = iface[a].listener
             /\ \/ iface'[a].buffer \in {None, iface[a].buffer}
                \/ iface'[a].buffer \in {k \in Listeners : Alive(k) /\ listener[k].at = a}
    OBVIOUS
<1>6. main' = Idle \/ /\ main'.op \in Handling /\ main'.at \in Addresses
                      /\ main'.service \in Services /\ iface[main'.at] # None
    BY <1>1 DEF TypeOK
<1>7. \A n \in notes : Awake(n) => Awake(n)'
    BY DEF Awake, Message
<1>8. \A a \in Addresses :
         main'.op \in {"terminated", "property change", "power on"} /\ main'.at = a
            => Unremembered(a) \/ Silent(a)
    BY <1>1 DEF SilentBeforeStart
<1> QED
    BY <1>3, <1>4, <1>5, <1>6, <1>7, <1>8, SteadyQuiets

LEMMA ThreadQuiets ==
    ASSUME Inv, NEW t \in Listeners, Thread(t)
    PROVE  Quiets
<1>1. TypeOK
    BY DEF Inv
<1>2. /\ listener \in [Listeners -> ListenerStates] /\ listener[t] \in ListenerStates
      /\ iface \in [Addresses -> Structures \cup {None}]
    BY <1>1, MemoryTypes DEF TypeOK, Memory
<1>3. Alive(t) /\ UNCHANGED <<present, mail, used, notes, main>>
    BY DEF Thread, Start, Frame, Handled, Stop, Steps, Alive
<1>4. ASSUME NEW pc \in {"receive", "handle", "dead"}, Goto(t, pc), UNCHANGED iface
      PROVE  Quiets
    <2> DEFINE x == [listener[t] EXCEPT !.pc = pc]
    <2>1. listener' = [listener EXCEPT ![t] = x]
        BY <1>4 DEF Goto
    <2>2. x \in ListenerStates /\ x.at = listener[t].at
          /\ x.cancelled = listener[t].cancelled /\ x.buffer = listener[t].buffer
        BY <1>2 DEF ListenerStates
    <2> HIDE DEF x
    <2> QED
        BY <1>2, <1>3, <1>4, <2>1, <2>2, ThreadSteady
<1>5. CASE Start(t, TRUE)
    <2> DEFINE x == [listener[t] EXCEPT !.pc = "receive", !.buffer = "live"]
    <2>1. /\ listener' = [listener EXCEPT ![t].pc = "receive", ![t].buffer = "live"]
          /\ iface' = [a \in Addresses |->
                          IF a = listener[t].at /\ iface[a] # None
                            THEN [iface[a] EXCEPT !.buffer = t] ELSE iface[a]]
        BY <1>5 DEF Start
    <2>2. listener' = [listener EXCEPT ![t] = x]
        BY <1>2, <2>1 DEF ListenerStates
    <2>3. x \in ListenerStates /\ x.at = listener[t].at
          /\ x.cancelled = listener[t].cancelled /\ x.buffer = "live"
        BY <1>2 DEF ListenerStates
    <2> HIDE DEF x
    <2>4. t \in Nat /\ None \notin Structures
        <3>1. MaxListeners \in Nat /\ None \notin Structures
            BY LifecycleAssumption
        <3> QED
            BY <3>1 DEF Listeners
    <2>5. ASSUME NEW a \in Addresses
          PROVE  /\ iface'[a] \in Structures \cup {None}
                 /\ iface'[a] = None <=> iface[a] = None
                 /\ iface[a] # None => /\ iface'[a].note = iface[a].note
                                       /\ iface'[a].listener = iface[a].listener
                 /\ \/ iface'[a].buffer = iface[a].buffer
                    \/ iface'[a].buffer = t /\ listener[t].at = a
        <3>1. CASE a = listener[t].at /\ iface[a] # None
            <4>1. iface[a] \in Structures
                BY <1>2, <3>1
            <4>2. iface'[a] = [iface[a] EXCEPT !.buffer = t]
                BY <2>1, <3>1
            <4>3. iface'[a] \in Structures /\ iface'[a].buffer = t
                  /\ iface'[a].note = iface[a].note /\ iface'[a].listener = iface[a].listener
                BY <2>4, <4>1, <4>2 DEF Structures
            <4> QED
                BY <2>4, <3>1, <4>3
        <3>2. CASE ~(a = listener[t].at /\ iface[a] # None)
            <4>1. iface'[a] = iface[a]
                BY <2>1, <3>2
            <4> QED
                BY <1>2, <4>1
        <3> QED
            BY <3>1, <3>2
    <2>6. iface' \in [Addresses -> Structures \cup {None}]
        BY <2>1, <2>5
    <2> QED
        BY <1>3, <2>2, <2>3, <2>5, <2>6, ThreadSteady
<1>6. CASE Start(t, FALSE)
    BY <1>4, <1>6 DEF Start
<1>7. CASE Frame(t)
    BY <1>4, <1>7 DEF Frame
<1>8. CASE Handled(t)
    BY <1>4, <1>8 DEF Handled
<1>9. CASE Stop(t)
    BY <1>4, <1>9 DEF Stop
<1> QED
    BY <1>5, <1>6, <1>7, <1>8, <1>9 DEF Thread

-----------------------------------------------------------------------------
(* I/O Kit and launchd.                                                    *)

\* Something happens to a service: the only power-on messages are those of a
\* controller that was asleep, so no listener goes on where they arrive.
LEMMA HappensPreserves ==
    ASSUME Inv, NEW s \in Services, NEW levels \in SUBSET Levels,
           NEW op \in Handling, Happens(s, levels, op),
           NEW p \in Presences, present' = [present EXCEPT ![s] = p],
           op = "power on" => present[s] = "off" /\ levels = {"controller"},
           p = "off" => present[s] = "off" \/ (op = "power off" /\ levels = {"controller"})
    PROVE  Inv'
<1>0. TypeOK /\ Numbered /\ Remembered /\ Buffers /\ Created
      /\ LatestOnly /\ WatchedWhileAwake /\ SilentBeforeStart
    BY DEF Inv
<1>1. /\ UNCHANGED <<iface, used, notes, listener, main>>
      /\ main = Idle
      /\ ~\E n \in notes, m \in mail : n.service = s /\ m.n = n.n
      /\ mail' = mail \cup {Message(n, op) : n \in {k \in NotesOf(s) : k.level \in levels}}
    BY DEF Happens, NotesOf
<1>2. main.op = "idle"
    BY <1>1 DEF Idle
\* A message is an old one, or goes to a registration of the service.
<1>3. ASSUME NEW m \in mail'
      PROVE  m \in mail \/ \E n \in notes : /\ n.service = s /\ n.level \in levels
                                            /\ m = Message(n, op)
    BY <1>1 DEF NotesOf
<1>4. /\ present \in [Services -> Presences]
      /\ present'[s] = p
      /\ \A x \in Services \ {s} : present'[x] = present[x]
    BY <1>0 DEF TypeOK
<1>5. TypeOK'
    <2>1. IsMemory(Memory)'
        BY <1>0, <1>1 DEF TypeOK, Memory
    <2>2. present' \in [Services -> Presences]
        BY <1>4
    <2>3. \A t \in Listeners : Alive(t)' => listener'[t].at \in Addresses
        BY <1>0, <1>1 DEF TypeOK, Alive
    <2> QED
        BY <1>1, <2>1, <2>2, <2>3 DEF TypeOK
<1>6. Numbered'
    <2>1. ASSUME NEW m \in mail'
          PROVE  m.n \in 0 .. used.notes
        <3>1. CASE m \in mail
            BY <1>0, <3>1 DEF Numbered
        <3>2. ASSUME NEW n \in notes, m = Message(n, op)
              PROVE  m.n \in 0 .. used.notes
            <4>1. m.n = n.n
                BY <3>2 DEF Message
            <4>2. n.n \in Nat /\ used.notes \in Nat
                BY <1>0, MemoryTypes DEF TypeOK, Memory
            <4>3. n.n <= used.notes
                BY <1>0 DEF Numbered
            <4>4. n.n \in 0 .. used.notes
                <5> DEFINE i == n.n
                           u == used.notes
                <5>1. i \in Nat /\ u \in Nat /\ i <= u
                    BY <4>2, <4>3
                <5> HIDE DEF i, u
                <5>2. i \in 0 .. u
                    BY ONLY <5>1
                <5> QED
                    BY <5>2 DEF i, u
            <4> QED
                BY <4>1, <4>4
        <3> QED
            BY <1>3, <3>1, <3>2
    <2>2. ASSUME NEW n \in notes, Message(n, "power on") \in mail'
          PROVE  n.level = "controller"
        <3>1. CASE Message(n, "power on") \in mail
            BY <1>0, <3>1 DEF Numbered
        <3>2. ASSUME NEW k \in notes, k.level \in levels, Message(n, "power on") = Message(k, op)
              PROVE  n.level = "controller"
            <4>1. op = "power on" /\ n.n = k.n
                BY <3>2 DEF Message
            <4>2. n = k
                BY <1>0, <4>1 DEF Numbered
            <4> QED
                BY <3>2, <4>1, <4>2
        <3> QED
            BY <1>3, <2>2, <3>1, <3>2
    <2> QED
        BY <1>0, <1>1, <2>1, <2>2 DEF Numbered, Message
<1>7. Remembered' /\ Buffers' /\ Created'
    BY <1>0, <1>1 DEF Remembered, Buffers, Created
<1>8. ASSUME NEW a
      PROVE  (Unremembered(a)' <=> Unremembered(a)) /\ (Silent(a)' <=> Silent(a))
    BY <1>1 DEF Unremembered, Silent, Alive
<1>9. LatestOnly'
    BY <1>0, <1>1, <1>8 DEF LatestOnly, Alive
<1>10. ASSUME NEW n \in notes, Awake(n), n.level = "controller"
       PROVE  Awake(n)'
    <2>1. present[n.service] # "off" \/ Message(n, "power off") \in mail
        BY <1>2, <1>10 DEF Awake
    <2>2. n.service \in Services
        BY <1>0, MemoryTypes DEF TypeOK, Memory
    <2>3. CASE Message(n, "power off") \in mail
        BY <1>1, <2>3 DEF Awake, Message
    <2>4. CASE n.service # s /\ present[n.service] # "off"
        BY <1>4, <2>2, <2>4 DEF Awake
    <2>5. CASE n.service = s /\ present[s] # "off"
        <3>1. CASE p = "off"
            <4>1. Message(n, "power off") \in mail'
                BY <1>1, <1>10, <2>5, <3>1 DEF NotesOf
            <4> QED
                BY <4>1 DEF Awake, Message
        <3>2. CASE p # "off"
            BY <1>4, <2>5, <3>2 DEF Awake
        <3> QED
            BY <3>1, <3>2
    <2> QED
        BY <2>1, <2>3, <2>4, <2>5
<1>11. WatchedWhileAwake'
    <2>1. SUFFICES ASSUME NEW a \in Addresses, ~Unremembered(a)', ~Silent(a)'
                   PROVE  \E n \in notes' : /\ n.ref = a /\ n.n = iface'[a].note
                                            /\ n.level = "controller" /\ Awake(n)'
        BY DEF WatchedWhileAwake
    <2>2. PICK n \in notes : /\ n.ref = a /\ n.n = iface[a].note
                             /\ n.level = "controller" /\ Awake(n)
        BY <1>0, <1>8, <2>1 DEF WatchedWhileAwake
    <2> QED
        BY <1>1, <1>10, <2>2
<1>12. SilentBeforeStart'
    <2>1. SUFFICES ASSUME NEW a \in Addresses, NEW n \in notes, iface[a] # None,
                          n.n = iface[a].note, ~Unremembered(a),
                          Message(n, "power on") \in mail'
                   PROVE  Silent(a)
        <3>1. main'.op \notin {"terminated", "property change", "power on"}
            BY <1>1, <1>2
        <3> QED
            BY <1>1, <1>8, <3>1 DEF SilentBeforeStart, Message
    <2>2. CASE Message(n, "power on") \in mail
        BY <1>0, <2>1, <2>2 DEF SilentBeforeStart
    <2>3. ASSUME NEW k \in notes, k.service = s, Message(n, "power on") = Message(k, op)
          PROVE  Silent(a)
        <3>1. op = "power on" /\ n.n = k.n
            BY <2>3 DEF Message
        <3>2. n = k /\ present[n.service] = "off"
            BY <1>0, <2>3, <3>1 DEF Numbered
        <3>3. SUFFICES ASSUME ~Silent(a) PROVE FALSE
            OBVIOUS
        <3>4. PICK x \in notes : x.n = iface[a].note /\ Awake(x)
            BY <1>0, <2>1, <3>3 DEF WatchedWhileAwake
        <3>5. x = n
            BY <1>0, <2>1, <3>4 DEF Numbered
        <3>6. Message(n, "power off") \in mail
            BY <1>2, <3>2, <3>4, <3>5 DEF Awake
        <3>7. Message(n, "power off").n = n.n
            BY DEF Message
        <3> QED
            BY <1>1, <2>3, <3>2, <3>6, <3>7
    <2> QED
        BY <1>3, <2>1, <2>2, <2>3
<1> QED
    BY <1>5, <1>6, <1>7, <1>9, <1>11, <1>12 DEF Inv

\* A process that starts has no structure to forget and no listener to stop.
LEMMA FreshInv == present \in [Services -> Presences] /\ FreshProcess => Inv
<1>1. SUFFICES ASSUME present \in [Services -> Presences], FreshProcess
               PROVE  Inv
    OBVIOUS
<1>2. /\ iface = [a \in Addresses |-> None]
      /\ used = [structs |-> 0, listeners |-> 0, notes |-> 0]
      /\ notes = {} /\ mail = {}
      /\ listener = [t \in Listeners |-> NoListener]
      /\ main = Idle /\ main.op = "idle"
    BY <1>1 DEF FreshProcess, Idle
<1>3. MaxListeners \in Nat
    BY LifecycleAssumption
<1>4. NoListener \in ListenerStates /\ NoListener.pc = "none"
    BY DEF NoListener, ListenerStates
<1>5. /\ \A t \in Listeners : listener[t].pc = "none"
      /\ listener \in [Listeners -> ListenerStates]
    BY <1>2, <1>4
<1>6. \A t \in Listeners : ~Alive(t)
    BY <1>5 DEF Alive
<1>7. TypeOK
    <2>1. used \in Uses
        BY <1>2, <1>3 DEF Uses
    <2>2. IsMemory(Memory)
        BY <1>2, <1>5, <2>1 DEF IsMemory, Memory
    <2> QED
        BY <1>1, <1>2, <1>6, <2>2 DEF TypeOK
<1>8. Numbered
    BY <1>2 DEF Numbered
<1>9. Remembered /\ Buffers
    BY <1>2 DEF Remembered, Buffers
<1>10. Created
    BY <1>5 DEF Created
<1>11. LatestOnly /\ WatchedWhileAwake
    BY <1>6 DEF LatestOnly, WatchedWhileAwake, Silent
<1>12. SilentBeforeStart
    BY <1>2 DEF SilentBeforeStart
<1> QED
    BY <1>7, <1>8, <1>9, <1>10, <1>11, <1>12 DEF Inv

LEMMA InitInv == Init => Inv
<1>1. Init => present \in [Services -> Presences] /\ FreshProcess
    BY DEF Init, Presences
<1> QED
    BY <1>1, FreshInv

LEMMA WorldPreserves ==
    ASSUME Inv, World
    PROVE  Inv'
<1>1. present \in [Services -> Presences]
    BY DEF Inv, TypeOK
<1>2. {"interface", "controller"} \in SUBSET Levels /\ {"controller"} \in SUBSET Levels
    BY DEF Levels
<1>3. /\ {"terminated", "property change", "power off", "power on"} \subseteq Handling
      /\ {"on", "off", "gone"} \subseteq Presences
    BY DEF Handling, Presences
<1>4. ASSUME NEW s \in Services, Unplug(s)
      PROVE  Inv'
    <2>1. /\ Happens(s, {"interface", "controller"}, "terminated")
          /\ present' = [present EXCEPT ![s] = "gone"]
        BY <1>4 DEF Unplug
    <2> QED
        BY <1>2, <1>3, <2>1, HappensPreserves
<1>5. ASSUME NEW s \in Services, Sleep(s)
      PROVE  Inv'
    <2>1. /\ Happens(s, {"controller"}, "power off")
          /\ present' = [present EXCEPT ![s] = "off"]
        BY <1>5 DEF Sleep
    <2> QED
        BY <1>2, <1>3, <2>1, HappensPreserves
<1>6. ASSUME NEW s \in Services, Wake(s)
      PROVE  Inv'
    <2>1. /\ Happens(s, {"controller"}, "power on") /\ present[s] = "off"
          /\ present' = [present EXCEPT ![s] = "on"]
        BY <1>6 DEF Wake
    <2> QED
        BY <1>2, <1>3, <2>1, HappensPreserves
<1>7. ASSUME NEW s \in Services, NEW level \in {"interface", "controller"}, Change(s, level)
      PROVE  Inv'
    <2>1. Happens(s, {level}, "property change") /\ {level} \in SUBSET Levels
        BY <1>7 DEF Change, Levels
    <2>2. present[s] \in Presences /\ present' = [present EXCEPT ![s] = present[s]]
        BY <1>1, <1>7 DEF Change
    <2> QED
        BY <1>3, <2>1, <2>2, HappensPreserves
<1>8. CASE Restart
    <2>1. (present \in [Services -> Presences])'
        BY <1>8 DEF Restart, Presences
    <2>2. FreshProcess'
        BY <1>8 DEF Restart, FreshProcess
    <2> QED
        BY <2>1, <2>2, FreshInv, PTL
<1> QED
    BY <1>4, <1>5, <1>6, <1>7, <1>8 DEF World

-----------------------------------------------------------------------------
(* Every step remakes a structure, quiets, is the world's or stutters.     *)

LEMMA StepKinds ==
    ASSUME Inv, [Next]_vars
    PROVE  \/ \E a \in Addresses : Remade(a)
           \/ Quiets
           \/ World
           \/ UNCHANGED <<present, mail, iface, used, notes, listener, main>>
<1>1. CASE UNCHANGED vars \/ UseAfterFree
    BY <1>1 DEF vars, UseAfterFree
<1>2. ASSUME NEW s \in Services, NEW a \in Addresses, NEW outcome \in Outcomes,
             Appear(s, a, outcome)
      PROVE  \E b \in Addresses : Remade(b)
    BY <1>2, AppearRemakes
<1>3. ASSUME \/ EndTerminated
             \/ \E outcome \in Outcomes : EndPropertyChange(outcome) \/ EndPowerOn(outcome)
      PROVE  \E a \in Addresses : Remade(a)
    BY <1>3, EndRemakes
<1>4. ASSUME NEW n \in notes,
             Terminated(n) \/ PropertyChange(n) \/ PowerOff(n) \/ PowerOn(n)
      PROVE  Quiets
    BY <1>4, CancelHandlersQuiet, PowerOffQuiets, PowerOnQuiets
<1>5. CASE EndPowerOff
    BY <1>5, EndPowerOffQuiets
<1>6. ASSUME NEW t \in Listeners, Thread(t)
      PROVE  Quiets
    BY <1>6, ThreadQuiets
<1> QED
    BY <1>1, <1>2, <1>3, <1>4, <1>5, <1>6 DEF Next, Main

LEMMA StillPreserves ==
    ASSUME Inv, UNCHANGED <<present, mail, iface, used, notes, listener, main>>
    PROVE  Inv'
<1>1. TypeOK'
    BY DEF Inv, TypeOK, Memory, Alive
<1>2. Numbered' /\ Remembered' /\ Buffers' /\ Created'
    BY DEF Inv, Numbered, Remembered, Buffers, Created, Message
<1>3. ASSUME NEW a
      PROVE  (Unremembered(a)' <=> Unremembered(a)) /\ (Silent(a)' <=> Silent(a))
    BY DEF Unremembered, Silent, Alive
<1>4. LatestOnly'
    BY <1>3 DEF Inv, LatestOnly, Alive
<1>5. \A n \in notes : Awake(n)' <=> Awake(n)
    BY DEF Awake, Message
<1>6. WatchedWhileAwake'
    BY <1>3, <1>5 DEF Inv, WatchedWhileAwake
<1>7. SilentBeforeStart'
    <2>1. Unremembered(main.at)' <=> Unremembered(main.at)
        BY DEF Unremembered
    <2>2. Silent(main.at)' <=> Silent(main.at)
        BY DEF Silent, Alive
    <2> QED
        BY <1>3, <2>1, <2>2 DEF Inv, SilentBeforeStart, Message
<1> QED
    BY <1>1, <1>2, <1>4, <1>6, <1>7 DEF Inv

LEMMA InvInductive == Inv /\ [Next]_vars => Inv'
<1> SUFFICES ASSUME Inv, [Next]_vars PROVE Inv'
    OBVIOUS
<1> QED
    BY StepKinds, RemadePreserves, QuietsPreserves, WorldPreserves, StillPreserves

LEMMA SpecInv == Spec => []Inv
<1> QED
    BY InitInv, InvInductive, PTL DEF Spec

-----------------------------------------------------------------------------
(* What follows from it.                                                   *)

\* An interface that is kept is never forgotten: deviceAppeared and the
\* handlers of messages leave every structure with a registration that names it.
THEOREM InterfacesRemembered == Spec => []NeverForgotten
<1>1. Inv => NeverForgotten
    BY DEF Inv, Remembered, NeverForgotten
<1> QED
    BY <1>1, SpecInv, PTL

\* Two listeners run on one structure only where a controller registration was
\* forgotten: wherever it was not, property changes, sleep and wake-up start a
\* listener on a structure only when the one before was told to stop.
THEOREM OneListenerEach == Spec => []OneListener
<1>1. Inv => OneListener
    <2>1. SUFFICES ASSUME Inv, NEW a \in Addresses, ~Unremembered(a)
                   PROVE  Cardinality(Running(a)) <= 1
        BY DEF OneListener
    <2> DEFINE latest == iface[a].listener
    <2>2. Running(a) \subseteq {latest}
        BY <2>1 DEF Inv, LatestOnly, Running
    <2>3. IsFiniteSet({latest}) /\ Cardinality({latest}) = 1
        BY FS_Singleton
    <2> HIDE DEF latest
    <2>4. Cardinality(Running(a)) <= Cardinality({latest})
        BY <2>2, <2>3, FS_Subset
    <2> QED
        BY <2>3, <2>4
<1> QED
    BY <1>1, SpecInv, PTL

\* A listener is told to stop before its structure or its buffer goes, but for
\* power-off, which tells it next, and for structures of which a controller
\* registration was forgotten.
THEOREM CancelledBeforeFreed == Spec => CancelledFirst
<1> DEFINE Told == \A t \in Listeners :
                      Loses(t) => \/ listener[t].cancelled
                                  \/ main'.op = "power off"
                                  \/ Unremembered(listener[t].at)
<1>1. Inv /\ [Next]_vars => [Told]_vars
    <2>1. SUFFICES ASSUME Inv, [Next]_vars, NEW t \in Listeners, Loses(t)
                   PROVE  \/ listener[t].cancelled
                          \/ main'.op = "power off"
                          \/ Unremembered(listener[t].at)
        BY DEF Told
    <2>2. ~crashed /\ Alive(t) /\ listener[t].at \in Addresses
        BY <2>1 DEF Loses, Inv, TypeOK
    <2>3. ASSUME NEW a \in Addresses, Remade(a)
          PROVE  listener[t].cancelled \/ Unremembered(listener[t].at)
        <3>1. listener[t].at = a
            <4>1. CASE iface[listener[t].at] # None /\ iface'[listener[t].at] = None
                BY <2>2, <2>3, <4>1 DEF Remade
            <4>2. CASE listener[t].buffer = "live" /\ listener'[t].buffer = "freed"
                <5> DEFINE u == used.listeners
                           w == used'.listeners
                <5>1. u \in 0 .. MaxListeners /\ w \in 0 .. MaxListeners
                      /\ MaxListeners \in Nat
                    BY <2>1, <2>3, LifecycleAssumption, MemoryTypes
                       DEF Inv, TypeOK, Remade, Memory
                <5>2. \/ t <= u \/ t > w
                      \/ u < t /\ t <= w
                    <6> HIDE DEF u, w
                    <6> QED
                        BY ONLY t \in Listeners, <5>1 DEF Listeners
                <5>3. CASE t <= u \/ t > w
                    BY <2>3, <4>2, <5>3 DEF Remade
                <5>4. CASE u < t /\ t <= w
                    <6>1. listener'[t].buffer = "none"
                        BY <2>3, <5>4 DEF Remade
                    <6> QED
                        BY <4>2, <6>1
                <5> QED
                    BY <5>2, <5>3, <5>4
            <4> QED
                BY <2>1, <4>1, <4>2 DEF Loses
        <3>2. Silent(a) \/ Unremembered(a)
            BY <2>3 DEF Remade
        <3> QED
            BY <2>2, <3>1, <3>2 DEF Silent
    <2>4. CASE Quiets
        <3>1. ~(iface[listener[t].at] # None /\ iface'[listener[t].at] = None)
            BY <2>2, <2>4 DEF Quiets
        <3> QED
            BY <2>1, <2>4, <3>1 DEF Loses, Quiets
    <2>5. CASE World \/ UNCHANGED <<present, mail, iface, used, notes, listener, main>>
        <3>1. ~Restart
            BY <2>2 DEF Restart
        <3>2. UNCHANGED <<iface, listener>>
            BY <2>5, <3>1 DEF World, Unplug, Sleep, Wake, Change, Happens
        <3>3. "live" # "freed"
            OBVIOUS
        <3> QED
            BY <2>1, <3>2, <3>3 DEF Loses
    <2> QED
        BY <2>1, <2>3, <2>4, <2>5, StepKinds
<1> QED
    BY <1>1, SpecInv, PTL DEF Spec, CancelledFirst
=============================================================================
