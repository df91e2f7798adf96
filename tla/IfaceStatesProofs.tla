-------------------------- MODULE IfaceStatesProofs --------------------------
(***************************************************************************)
(* Proofs about IfaceStates: its types, and that a thread only ever finds  *)
(* a node it allocated itself.                                             *)
(***************************************************************************)
EXTENDS IfaceStates, TLAPS

Writes(t, n) == \E s \in stores[t] : s.loc = <<"ctx", n>>

Owns(t, n) == ctx[n] = t \/ Writes(t, n)

\* The stores of a thread name itself as an owner, and nodes as nodes.
StoresTyped ==
    \A t \in Threads : \A s \in stores[t] :
        \/ s.loc = <<"head">> /\ s.value \in Nodes
        \/ \E n \in Nodes : s.loc = <<"ctx", n>> /\ s.value = t
        \/ \E n \in Nodes : s.loc = <<"next", n>> /\ s.value \in Nodes \cup {Null}

\* Until the store of its owner is visible, a node has no other owner.
OneOwner ==
    \A t \in Threads, n \in Nodes :
        Writes(t, n) => /\ ctx[n] = Null
                        /\ \A u \in Threads : Writes(u, n) => u = t

\* What a thread holds is its own.
HeldIsOwn ==
    \A t \in Threads :
        /\ found[t] # Null => Owns(t, found[t])
        /\ node[t] # Null => Owns(t, node[t])
        /\ pc[t] \in {"link", "publish"} => node[t] # Null

IInv == ListTypeOK /\ StoresTyped /\ OneOwner /\ HeldIsOwn

-----------------------------------------------------------------------------
LEMMA OwnedReadsOwn ==
    ASSUME StoresTyped, NEW t \in Threads, NEW n \in Nodes
    PROVE  Owns(t, n) <=> Read(t, <<"ctx", n>>) = t
<1>1. CASE Writes(t, n)
  <2> DEFINE s == CHOOSE s \in stores[t] : s.loc = <<"ctx", n>>
  <2>1. s \in stores[t] /\ s.loc = <<"ctx", n>>
    BY <1>1 DEF Writes
  <2>2. s.value = t
    BY <2>1, SMT DEF StoresTyped
  <2> QED
    BY <1>1, <2>2 DEF Read, Owns, Writes
<1>2. CASE ~Writes(t, n)
  <2>1. Read(t, <<"ctx", n>>) = ctx[n]
    BY <1>2 DEF Writes, Read, InMemory
  <2> QED
    BY <1>2, <2>1 DEF Owns
<1> QED
  BY <1>1, <1>2

LEMMA ReadHead ==
    ASSUME ListTypeOK, StoresTyped, NEW t \in Threads
    PROVE  Read(t, <<"head">>) \in Nodes \cup {Null}
<1>1. CASE \E s \in stores[t] : s.loc = <<"head">>
  <2> DEFINE s == CHOOSE s \in stores[t] : s.loc = <<"head">>
  <2>1. s \in stores[t] /\ s.loc = <<"head">>
    BY <1>1
  <2>2. s.value \in Nodes
    BY <2>1, SMT DEF StoresTyped
  <2> QED
    BY <1>1, <2>2 DEF Read
<1>2. CASE ~\E s \in stores[t] : s.loc = <<"head">>
  BY <1>2 DEF Read, InMemory, ListTypeOK
<1> QED
  BY <1>1, <1>2

LEMMA ReadNext ==
    ASSUME ListTypeOK, StoresTyped, NEW t \in Threads, NEW n \in Nodes
    PROVE  Read(t, <<"next", n>>) \in Nodes \cup {Null}
<1>1. CASE \E s \in stores[t] : s.loc = <<"next", n>>
  <2> DEFINE s == CHOOSE s \in stores[t] : s.loc = <<"next", n>>
  <2>1. s \in stores[t] /\ s.loc = <<"next", n>>
    BY <1>1
  <2>2. s.value \in Nodes \cup {Null}
    BY <2>1, SMT DEF StoresTyped
  <2> QED
    BY <1>1, <2>2 DEF Read
<1>2. CASE ~\E s \in stores[t] : s.loc = <<"next", n>>
  <2>1. Read(t, <<"next", n>>) = next[n]
    BY <1>2 DEF Read, InMemory
  <2> QED
    BY <2>1 DEF ListTypeOK
<1> QED
  BY <1>1, <1>2

LEMMA InitIInv == ListInit => IInv
<1> SUFFICES ASSUME ListInit
             PROVE  IInv
  OBVIOUS
<1>1. ListTypeOK
  BY DEF ListInit, ListTypeOK
<1>2. StoresTyped /\ OneOwner
  BY DEF ListInit, StoresTyped, OneOwner, Writes
<1>3. HeldIsOwn
  BY DEF ListInit, HeldIsOwn
<1> QED
  BY <1>1, <1>2, <1>3 DEF IInv

\* A step that only looks.
LEMMA LookingKeepsOwners ==
    ASSUME IInv, UNCHANGED <<head, ctx, next, stores>>
    PROVE  /\ StoresTyped' /\ OneOwner'
           /\ \A t \in Threads, n \in Nodes : Owns(t, n)' <=> Owns(t, n)
BY DEF IInv, StoresTyped, OneOwner, Owns, Writes

LEMMA BeginKeeps ==
    ASSUME IInv, NEW t \in Threads, Begin(t)
    PROVE  IInv'
<1>1. ListTypeOK'
  BY ReadHead DEF IInv, Begin, Goto, ListTypeOK
<1>2. HeldIsOwn'
  BY LookingKeepsOwners DEF IInv, Begin, Goto, ListTypeOK, HeldIsOwn, Owns, Writes
<1> QED
  BY <1>1, <1>2, LookingKeepsOwners DEF IInv, Begin

LEMMA AdvanceKeeps ==
    ASSUME IInv, NEW t \in Threads, Advance(t)
    PROVE  IInv'
<1>1. ListTypeOK'
  <2>1. cur[t] \in Nodes
    BY DEF IInv, Advance, ListTypeOK
  <2>2. Read(t, <<"next", cur[t]>>) \in Nodes \cup {Null}
    BY <2>1, ReadNext DEF IInv
  <2> QED
    BY <2>2 DEF IInv, Advance, ListTypeOK
<1>2. HeldIsOwn'
  BY LookingKeepsOwners DEF IInv, Advance, ListTypeOK, HeldIsOwn, Owns, Writes
<1> QED
  BY <1>1, <1>2, LookingKeepsOwners DEF IInv, Advance

LEMMA HitKeeps ==
    ASSUME IInv, NEW t \in Threads, Hit(t)
    PROVE  IInv'
<1>1. ListTypeOK'
  BY DEF IInv, Hit, Goto, ListTypeOK
<1>2. Owns(t, cur[t])
  <2>1. cur[t] \in Nodes
    BY DEF IInv, Hit, ListTypeOK
  <2> QED
    BY <2>1, OwnedReadsOwn DEF IInv, Hit
<1>3. HeldIsOwn'
  BY <1>2 DEF IInv, Hit, Goto, ListTypeOK, HeldIsOwn, Owns, Writes
<1> QED
  BY <1>1, <1>3, LookingKeepsOwners DEF IInv, Hit

LEMMA OutOfMemoryKeeps ==
    ASSUME IInv, NEW t \in Threads, OutOfMemory(t)
    PROVE  IInv'
<1>1. ListTypeOK'
  BY DEF IInv, OutOfMemory, Goto, ListTypeOK
<1>2. HeldIsOwn'
  BY DEF IInv, OutOfMemory, Goto, ListTypeOK, HeldIsOwn, Owns, Writes
<1> QED
  BY <1>1, <1>2, LookingKeepsOwners DEF IInv, OutOfMemory

LEMMA AllocateKeeps ==
    ASSUME IInv, NEW t \in Threads, Allocate(t)
    PROVE  IInv'
<1>1. PICK n \in Nodes \ Allocated :
          /\ node' = [node EXCEPT ![t] = n]
          /\ stores' = [stores EXCEPT ![t] = @ \cup {[loc |-> <<"ctx", n>>, value |-> t]}]
  BY DEF Allocate
<1>2. /\ UNCHANGED <<head, ctx, next, cur, found>>
      /\ pc' = [pc EXCEPT ![t] = "link"]
  BY DEF Allocate, Goto
<1>3. ctx[n] = Null /\ \A u \in Threads : ~Writes(u, n)
  BY <1>1 DEF Allocated, Writes
<1>4. ListTypeOK'
  <2>1. [loc |-> <<"ctx", n>>, value |-> t]
            \in [loc : Locations, value : Threads \cup Nodes \cup {Null}]
    BY DEF Locations
  <2>2. stores' \in [Threads -> SUBSET [loc : Locations, value : Threads \cup Nodes \cup {Null}]]
    BY <1>1, <2>1 DEF IInv, ListTypeOK
  <2> QED
    BY <1>1, <1>2, <2>2 DEF IInv, ListTypeOK
<1>5. StoresTyped'
  BY <1>1, <1>2 DEF IInv, ListTypeOK, StoresTyped
<1>6. \A u \in Threads, m \in Nodes : Writes(u, m)' <=> Writes(u, m) \/ (u = t /\ m = n)
  <2> SUFFICES ASSUME NEW u \in Threads, NEW m \in Nodes
               PROVE  Writes(u, m)' <=> Writes(u, m) \/ (u = t /\ m = n)
    OBVIOUS
  <2>1. stores'[u] = IF u = t THEN stores[t] \cup {[loc |-> <<"ctx", n>>, value |-> t]}
                     ELSE stores[u]
    BY <1>1 DEF IInv, ListTypeOK
  <2>2. [loc |-> <<"ctx", n>>, value |-> t].loc = <<"ctx", n>>
    OBVIOUS
  <2>3. <<"ctx", n>> = <<"ctx", m>> <=> n = m
    OBVIOUS
  <2> QED
    BY <2>1, <2>2, <2>3, Zenon DEF Writes
<1>7. OneOwner'
  BY <1>2, <1>3, <1>6 DEF IInv, OneOwner
<1>8. HeldIsOwn'
  <2> SUFFICES ASSUME NEW u \in Threads
               PROVE  /\ (found[u] # Null => Owns(u, found[u]))'
                      /\ (node[u] # Null => Owns(u, node[u]))'
                      /\ (pc[u] \in {"link", "publish"} => node[u] # Null)'
    BY DEF HeldIsOwn
  <2>1. \A m \in Nodes : Owns(u, m) \/ (u = t /\ m = n) => Owns(u, m)'
    BY <1>2, <1>6 DEF Owns
  <2>2. (found[u] # Null => Owns(u, found[u]))'
    BY <1>2, <2>1 DEF IInv, ListTypeOK, HeldIsOwn
  <2>3. CASE u = t
    <3>1. node'[u] = n /\ n # Null
      BY <1>1, <2>3, NullAssumption DEF IInv, ListTypeOK
    <3> QED
      BY <2>1, <2>2, <2>3, <3>1
  <2>4. CASE u # t
    <3>1. node'[u] = node[u] /\ pc'[u] = pc[u]
      BY <1>1, <1>2, <2>4 DEF IInv, ListTypeOK
    <3> QED
      BY <2>1, <2>2, <3>1 DEF IInv, ListTypeOK, HeldIsOwn
  <2> QED
    BY <2>3, <2>4
<1> QED
  BY <1>4, <1>5, <1>7, <1>8 DEF IInv

\* A store to next or to the head.
LEMMA StoringKeepsOwners ==
    ASSUME IInv, NEW t \in Threads, NEW s,
           \/ s.loc = <<"head">> /\ s.value \in Nodes
           \/ \E n \in Nodes : s.loc = <<"next", n>> /\ s.value \in Nodes \cup {Null},
           s \in [loc : Locations, value : Threads \cup Nodes \cup {Null}],
           stores' = [stores EXCEPT ![t] = @ \cup {s}],
           UNCHANGED ctx
    PROVE  /\ StoresTyped' /\ OneOwner'
           /\ stores' \in [Threads -> SUBSET [loc : Locations,
                                             value : Threads \cup Nodes \cup {Null}]]
           /\ \A u \in Threads, n \in Nodes : Owns(u, n)' <=> Owns(u, n)
<1>1. \A u \in Threads : stores'[u] = IF u = t THEN stores[t] \cup {s} ELSE stores[u]
  BY DEF IInv, ListTypeOK
<1>2. \A u \in Threads, n \in Nodes : Writes(u, n)' <=> Writes(u, n)
  BY <1>1 DEF Writes
<1>3. StoresTyped'
  BY <1>1 DEF IInv, StoresTyped
<1>4. OneOwner'
  BY <1>2 DEF IInv, OneOwner
<1>5. stores' \in [Threads -> SUBSET [loc : Locations, value : Threads \cup Nodes \cup {Null}]]
  BY DEF IInv, ListTypeOK
<1> QED
  BY <1>2, <1>3, <1>4, <1>5 DEF Owns

LEMMA LinkKeeps ==
    ASSUME IInv, NEW t \in Threads, Link(t)
    PROVE  IInv'
<1> DEFINE s == [loc |-> <<"next", node[t]>>, value |-> Read(t, <<"head">>)]
<1>1. node[t] \in Nodes
  BY DEF IInv, Link, ListTypeOK, HeldIsOwn
<1>2. s.value \in Nodes \cup {Null}
  BY ReadHead DEF IInv
<1>3. s \in [loc : Locations, value : Threads \cup Nodes \cup {Null}]
  BY <1>1, <1>2 DEF Locations
<1>4. /\ StoresTyped' /\ OneOwner'
      /\ stores' \in [Threads -> SUBSET [loc : Locations,
                                        value : Threads \cup Nodes \cup {Null}]]
      /\ \A u \in Threads, n \in Nodes : Owns(u, n)' <=> Owns(u, n)
  <2>1. \E n \in Nodes : s.loc = <<"next", n>> /\ s.value \in Nodes \cup {Null}
    BY <1>1, <1>2
  <2>2. stores' = [stores EXCEPT ![t] = @ \cup {s}] /\ UNCHANGED ctx
    BY DEF Link
  <2> HIDE DEF s
  <2> QED
    BY <1>3, <2>1, <2>2, StoringKeepsOwners
<1>5. /\ UNCHANGED <<head, ctx, next, cur, node, found>>
      /\ pc' = [pc EXCEPT ![t] = "publish"]
  BY DEF Link, Goto
<1>6. ListTypeOK'
  BY <1>4, <1>5 DEF IInv, ListTypeOK
<1>7. HeldIsOwn'
  <2> SUFFICES ASSUME NEW u \in Threads
               PROVE  /\ found[u] # Null => Owns(u, found[u])'
                      /\ node[u] # Null => Owns(u, node[u])'
                      /\ pc'[u] \in {"link", "publish"} => node[u] # Null
    BY <1>5 DEF HeldIsOwn
  <2>1. found[u] # Null => Owns(u, found[u])'
    BY <1>4, <1>5 DEF IInv, ListTypeOK, HeldIsOwn
  <2>2. node[u] # Null => Owns(u, node[u])'
    BY <1>4, <1>5 DEF IInv, ListTypeOK, HeldIsOwn
  <2>3. pc'[u] \in {"link", "publish"} => node[u] # Null
    BY <1>1, <1>5, NullAssumption DEF IInv, ListTypeOK, HeldIsOwn
  <2> QED
    BY <2>1, <2>2, <2>3
<1> QED
  BY <1>4, <1>6, <1>7 DEF IInv

LEMMA PublishKeeps ==
    ASSUME IInv, NEW t \in Threads, Publish(t)
    PROVE  IInv'
<1> DEFINE s == [loc |-> <<"head">>, value |-> node[t]]
<1>1. node[t] \in Nodes
  BY DEF IInv, Publish, ListTypeOK, HeldIsOwn
<1>2. s \in [loc : Locations, value : Threads \cup Nodes \cup {Null}]
  BY <1>1 DEF Locations
<1>3. /\ StoresTyped' /\ OneOwner'
      /\ stores' \in [Threads -> SUBSET [loc : Locations,
                                        value : Threads \cup Nodes \cup {Null}]]
      /\ \A u \in Threads, n \in Nodes : Owns(u, n)' <=> Owns(u, n)
  <2>1. s.loc = <<"head">> /\ s.value \in Nodes
    BY <1>1
  <2>2. stores' = [stores EXCEPT ![t] = @ \cup {s}] /\ UNCHANGED ctx
    BY DEF Publish
  <2> HIDE DEF s
  <2> QED
    BY <1>2, <2>1, <2>2, StoringKeepsOwners
<1>4. /\ UNCHANGED <<head, ctx, next, cur, node>>
      /\ found' = [found EXCEPT ![t] = node[t]]
      /\ pc' = [pc EXCEPT ![t] = "idle"]
  BY DEF Publish, Goto
<1>5. ListTypeOK'
  BY <1>1, <1>3, <1>4 DEF IInv, ListTypeOK
<1>6. \A u \in Threads : node[u] # Null => Owns(u, node[u])'
  BY <1>3, <1>4 DEF IInv, ListTypeOK, HeldIsOwn
<1>7. HeldIsOwn'
  <2> SUFFICES ASSUME NEW u \in Threads
               PROVE  /\ (found[u] # Null => Owns(u, found[u]))'
                      /\ (node[u] # Null => Owns(u, node[u]))'
                      /\ (pc[u] \in {"link", "publish"} => node[u] # Null)'
    BY DEF HeldIsOwn
  <2>1. (node[u] # Null => Owns(u, node[u]))'
    BY <1>4, <1>6
  <2>2. CASE u = t
    <3>1. found'[u] = node[u] /\ pc'[u] = "idle"
      BY <1>4, <2>2 DEF IInv, ListTypeOK
    <3> QED
      BY <1>4, <2>1, <3>1
  <2>3. CASE u # t
    <3>1. found'[u] = found[u] /\ pc'[u] = pc[u]
      BY <1>4, <2>3 DEF IInv, ListTypeOK
    <3> QED
      BY <1>3, <1>4, <2>1, <3>1 DEF IInv, ListTypeOK, HeldIsOwn
  <2> QED
    BY <2>2, <2>3
<1> QED
  BY <1>3, <1>5, <1>7 DEF IInv

LEMMA DrainKeeps ==
    ASSUME IInv, NEW t \in Threads, Drain(t)
    PROVE  IInv'
<1>1. PICK s \in stores[t] :
        /\ stores' = [stores EXCEPT ![t] = @ \ {s}]
        /\ head' = IF s.loc[1] = "head" THEN s.value ELSE head
        /\ ctx' = IF s.loc[1] = "ctx" THEN [ctx EXCEPT ![s.loc[2]] = s.value] ELSE ctx
        /\ next' = IF s.loc[1] = "next" THEN [next EXCEPT ![s.loc[2]] = s.value] ELSE next
        /\ UNCHANGED <<pc, cur, node, found>>
  BY DEF Drain
<1>2. \A u \in Threads : stores'[u] = IF u = t THEN stores[t] \ {s} ELSE stores[u]
  BY <1>1 DEF IInv, ListTypeOK
<1>3. stores' \in [Threads -> SUBSET [loc : Locations, value : Threads \cup Nodes \cup {Null}]]
  BY <1>1 DEF IInv, ListTypeOK
<1>4. StoresTyped'
  BY <1>2 DEF IInv, StoresTyped
<1>5. \A u \in Threads, n \in Nodes : Writes(u, n)' => Writes(u, n)
  BY <1>2 DEF Writes
<1>6. CASE \E n \in Nodes : s.loc = <<"ctx", n>> /\ s.value = t
  <2>1. PICK n \in Nodes : s.loc = <<"ctx", n>> /\ s.value = t
    BY <1>6
  <2>2. head' = head /\ next' = next /\ ctx' = [ctx EXCEPT ![n] = t]
    BY <1>1, <2>1
  <2>3. ListTypeOK'
    BY <1>1, <1>3, <2>2 DEF IInv, ListTypeOK
  <2>4. Writes(t, n)
    BY <2>1 DEF Writes
  <2>5. \A u \in Threads : ~Writes(u, n)'
    <3>1. \A u \in Threads : Writes(u, n) => u = t
      BY <2>4 DEF IInv, OneOwner
    <3>2. \A r \in stores[t] : r.loc = <<"ctx", n>> => r = s
      <4> SUFFICES ASSUME NEW r \in stores[t], r.loc = <<"ctx", n>>
                   PROVE  r = s
        OBVIOUS
      <4>1. r.value = t
        BY SMT DEF IInv, StoresTyped
      <4>2. /\ r \in [loc : Locations, value : Threads \cup Nodes \cup {Null}]
            /\ s \in [loc : Locations, value : Threads \cup Nodes \cup {Null}]
        BY DEF IInv, ListTypeOK
      <4> QED
        BY <2>1, <4>1, <4>2
    <3>3. ~Writes(t, n)'
      BY <1>2, <3>2 DEF Writes
    <3> QED
      BY <1>5, <3>1, <3>3
  <2>6. \A u \in Threads, m \in Nodes : m # n => (Writes(u, m)' <=> Writes(u, m))
    <3> SUFFICES ASSUME NEW u \in Threads, NEW m \in Nodes, m # n
                 PROVE  Writes(u, m) => Writes(u, m)'
      BY <1>5
    <3>1. s.loc # <<"ctx", m>>
      BY <2>1
    <3> QED
      BY <1>2, <3>1 DEF Writes
  <2>7. OneOwner'
    BY <2>2, <2>5, <2>6 DEF IInv, ListTypeOK, OneOwner
  <2>8. \A u \in Threads, m \in Nodes : Owns(u, m) => Owns(u, m)'
    <3> SUFFICES ASSUME NEW u \in Threads, NEW m \in Nodes, Owns(u, m)
                 PROVE  Owns(u, m)'
      OBVIOUS
    <3>1. CASE m = n
      <4>1. ctx[n] = Null /\ ctx'[n] = t
        BY <2>2, <2>4 DEF IInv, OneOwner, ListTypeOK
      <4>2. u = t
        BY <2>4, <3>1, <4>1, NullAssumption DEF IInv, OneOwner, Owns
      <4> QED
        BY <3>1, <4>1, <4>2 DEF Owns
    <3>2. CASE m # n
      <4>1. ctx'[m] = ctx[m]
        BY <2>2, <3>2 DEF IInv, ListTypeOK
      <4> QED
        BY <2>6, <3>2, <4>1 DEF Owns
    <3> QED
      BY <3>1, <3>2
  <2>9. HeldIsOwn'
    BY <1>1, <2>8 DEF IInv, ListTypeOK, HeldIsOwn
  <2> QED
    BY <1>4, <2>3, <2>7, <2>9 DEF IInv
<1>7. CASE \/ s.loc = <<"head">> /\ s.value \in Nodes
           \/ \E n \in Nodes : s.loc = <<"next", n>> /\ s.value \in Nodes \cup {Null}
  <2>1. ctx' = ctx
    BY <1>1, <1>7
  <2>2. \A n \in Nodes : s.loc # <<"ctx", n>>
    BY <1>7
  <2>3. \A u \in Threads, n \in Nodes : Writes(u, n)' <=> Writes(u, n)
    BY <1>2, <2>2 DEF Writes
  <2>4. ListTypeOK'
    <3>1. head' \in Nodes \cup {Null}
      BY <1>1, <1>7 DEF IInv, ListTypeOK
    <3>2. next' \in [Nodes -> Nodes \cup {Null}]
      BY <1>1, <1>7 DEF IInv, ListTypeOK
    <3> QED
      BY <1>1, <1>3, <2>1, <3>1, <3>2 DEF IInv, ListTypeOK
  <2>5. OneOwner'
    BY <2>1, <2>3 DEF IInv, OneOwner
  <2>6. \A u \in Threads, n \in Nodes : Owns(u, n)' <=> Owns(u, n)
    BY <2>1, <2>3 DEF Owns
  <2>7. HeldIsOwn'
    BY <1>1, <2>6 DEF IInv, ListTypeOK, HeldIsOwn
  <2> QED
    BY <1>4, <2>4, <2>5, <2>7 DEF IInv
<1> QED
  BY <1>1, <1>6, <1>7 DEF IInv, StoresTyped

LEMMA StutterKeeps ==
    ASSUME IInv, UNCHANGED vars
    PROVE  IInv'
BY DEF IInv, vars, ListTypeOK, StoresTyped, OneOwner, HeldIsOwn, Owns, Writes

\* The invariant: whatever order the stores of the threads become visible
\* in, a node has one owner from its allocation on.
THEOREM Invariant == ListSpec => []IInv
<1>1. IInv /\ [ListNext]_vars => IInv'
  BY BeginKeeps, AdvanceKeeps, HitKeeps, AllocateKeeps, OutOfMemoryKeeps,
     LinkKeeps, PublishKeeps, DrainKeeps, StutterKeeps DEF ListNext, Lookup
<1> QED
  BY InitIInv, <1>1, PTL DEF ListSpec

\* The list is made of nodes and every pending store is one the code makes.
THEOREM TypeCorrect == ListSpec => []ListTypeOK
BY Invariant, PTL DEF IInv

\* lltd_state_for_iface never hands a listener the state of another
\* interface: no number of listeners, and no order in which their plain
\* stores reach each other, changes whose node it is.
THEOREM LookupsAreOwn == ListSpec => []FoundIsOwn
<1>1. IInv => FoundIsOwn
  <2> SUFFICES ASSUME IInv, NEW t \in Threads, found[t] # Null
               PROVE  Read(t, <<"ctx", found[t]>>) = t
    BY DEF FoundIsOwn
  <2>1. found[t] \in Nodes /\ Owns(t, found[t])
    BY DEF IInv, ListTypeOK, HeldIsOwn
  <2> QED
    BY <2>1, OwnedReadsOwn DEF IInv
<1> QED
  BY Invariant, <1>1, PTL
=============================================================================
