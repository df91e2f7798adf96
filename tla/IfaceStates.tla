----------------------------- MODULE IfaceStates -----------------------------
(***************************************************************************)
(* The list g_iface_states of lltdResponder/lltdBlock.c, in which the      *)
(* listener threads find the frame-handling state of their interface.      *)
(* Every thread of a daemon shares it, without a lock.                     *)
(*                                                                         *)
(* A thread looks its interface up for every frame.  Not found, it fills a *)
(* new node and puts it in front.  The three stores (ctx, next, the head)  *)
(* are plain: they become visible to other threads in any order, and until *)
(* then others read the zeros of memset or the old head.  Loads are taken  *)
(* to be ordered, as the loads of a pointer chase are.                     *)
(***************************************************************************)
EXTENDS Integers, FiniteSets

CONSTANTS
    Threads,    \* one listener per interface; a thread stands for its iface_ctx
    Nodes,      \* bound: nodes that may be allocated
    Null

ASSUME NullAssumption == Null \notin Nodes /\ Null \notin Threads

VARIABLES
    head,     \* g_iface_states in memory
    ctx,      \* iface_ctx of each node in memory
    next,     \* next of each node in memory
    stores,   \* stores of each thread not yet visible to the others
    pc,       \* where each thread is in lltd_state_for_iface
    cur,      \* its cursor
    node,     \* the node it allocated last
    found     \* what its last lookup returned

vars == <<head, ctx, next, stores, pc, cur, node, found>>

ListInit ==
    /\ head = Null
    /\ ctx = [n \in Nodes |-> Null]
    /\ next = [n \in Nodes |-> Null]
    /\ stores = [t \in Threads |-> {}]
    /\ pc = [t \in Threads |-> "idle"]
    /\ cur = [t \in Threads |-> Null]
    /\ node = [t \in Threads |-> Null]
    /\ found = [t \in Threads |-> Null]

-----------------------------------------------------------------------------
\* A location is <<"head">>, <<"ctx", n>> or <<"next", n>>.
InMemory(loc) == CASE loc[1] = "head" -> head
                   [] loc[1] = "ctx"  -> ctx[loc[2]]
                   [] loc[1] = "next" -> next[loc[2]]

\* A thread reads its own stores before memory.
Read(t, loc) ==
    IF \E s \in stores[t] : s.loc = loc THEN (CHOOSE s \in stores[t] : s.loc = loc).value
    ELSE InMemory(loc)

Allocated ==
    {n \in Nodes : ctx[n] # Null \/ \E t \in Threads : \E s \in stores[t] : s.loc = <<"ctx", n>>}

Goto(t, label) == pc' = [pc EXCEPT ![t] = label]

\* A frame has arrived: the loop starts at the head.
Begin(t) ==
    /\ pc[t] = "idle"
    /\ cur' = [cur EXCEPT ![t] = Read(t, <<"head">>)]
    /\ Goto(t, "search")
    /\ UNCHANGED <<head, ctx, next, stores, node, found>>

\* Mutant: the cursor follows the wrong field.
Advance_WrongField(t) ==
    /\ pc[t] = "search" /\ cur[t] # Null /\ Read(t, <<"ctx", cur[t]>>) # t
    /\ cur' = [cur EXCEPT ![t] = Read(t, <<"ctx", cur[t]>>)]
    /\ UNCHANGED <<head, ctx, next, stores, pc, node, found>>

Advance(t) ==
    /\ pc[t] = "search" /\ cur[t] # Null /\ Read(t, <<"ctx", cur[t]>>) # t
    /\ cur' = [cur EXCEPT ![t] = Read(t, <<"next", cur[t]>>)]
    /\ UNCHANGED <<head, ctx, next, stores, pc, node, found>>

\* Mutant: a node whose owner reads as zero is taken for a free one.
Hit_TakesZeroed(t) ==
    /\ pc[t] = "search" /\ cur[t] # Null /\ Read(t, <<"ctx", cur[t]>>) \in {t, Null}
    /\ found' = [found EXCEPT ![t] = cur[t]]
    /\ Goto(t, "idle")
    /\ UNCHANGED <<head, ctx, next, stores, cur, node>>

Hit(t) ==
    /\ pc[t] = "search" /\ cur[t] # Null /\ Read(t, <<"ctx", cur[t]>>) = t
    /\ found' = [found EXCEPT ![t] = cur[t]]
    /\ Goto(t, "idle")
    /\ UNCHANGED <<head, ctx, next, stores, cur, node>>

\* lltd_port_malloc, memset and the first store.
Allocate(t) ==
    /\ pc[t] = "search" /\ cur[t] = Null
    /\ \E n \in Nodes \ Allocated :
          /\ node' = [node EXCEPT ![t] = n]
          /\ stores' = [stores EXCEPT ![t] = @ \cup {[loc |-> <<"ctx", n>>, value |-> t]}]
    /\ Goto(t, "link")
    /\ UNCHANGED <<head, ctx, next, cur, found>>

\* Without memory for a node the frame is dropped.
OutOfMemory(t) ==
    /\ pc[t] = "search" /\ cur[t] = Null
    /\ Goto(t, "idle")
    /\ UNCHANGED <<head, ctx, next, stores, cur, node, found>>

\* Mutant: the node is linked after it was published, to itself.
Link_AfterPublish(t) ==
    /\ pc[t] = "link"
    /\ stores' = [stores EXCEPT ![t] = @ \cup {[loc |-> <<"next", node[t]>>, value |-> node[t]]}]
    /\ Goto(t, "publish")
    /\ UNCHANGED <<head, ctx, next, cur, node, found>>

\* st->next = g_iface_states.
Link(t) ==
    /\ pc[t] = "link"
    /\ stores' = [stores EXCEPT ![t] = @ \cup
                    {[loc |-> <<"next", node[t]>>, value |-> Read(t, <<"head">>)]}]
    /\ Goto(t, "publish")
    /\ UNCHANGED <<head, ctx, next, cur, node, found>>

\* g_iface_states = st.
Publish(t) ==
    /\ pc[t] = "publish"
    /\ stores' = [stores EXCEPT ![t] = @ \cup {[loc |-> <<"head">>, value |-> node[t]]}]
    /\ found' = [found EXCEPT ![t] = node[t]]
    /\ Goto(t, "idle")
    /\ UNCHANGED <<head, ctx, next, cur, node>>

\* A store becomes visible.
Drain(t) ==
    \E s \in stores[t] :
        /\ stores' = [stores EXCEPT ![t] = @ \ {s}]
        /\ head' = IF s.loc[1] = "head" THEN s.value ELSE head
        /\ ctx' = IF s.loc[1] = "ctx" THEN [ctx EXCEPT ![s.loc[2]] = s.value] ELSE ctx
        /\ next' = IF s.loc[1] = "next" THEN [next EXCEPT ![s.loc[2]] = s.value] ELSE next
        /\ UNCHANGED <<pc, cur, node, found>>

Lookup(t) ==
    Begin(t) \/ Advance(t) \/ Hit(t)
    \/ Allocate(t) \/ OutOfMemory(t) \/ Link(t) \/ Publish(t)

ListNext == \E t \in Threads : Lookup(t) \/ Drain(t)

ListSpec == ListInit /\ [][ListNext]_vars

\* Threads are scheduled and stores become visible; frames need not come.
Fairness ==
    \A t \in Threads :
        /\ WF_vars(Advance(t) \/ Hit(t) \/ Allocate(t) \/ OutOfMemory(t) \/ Link(t) \/ Publish(t))
        /\ WF_vars(Drain(t))

-----------------------------------------------------------------------------
Locations == {<<"head">>} \cup ({"ctx", "next"} \X Nodes)

ListTypeOK ==
    /\ head \in Nodes \cup {Null}
    /\ ctx \in [Nodes -> Threads \cup {Null}]
    /\ next \in [Nodes -> Nodes \cup {Null}]
    /\ stores \in [Threads -> SUBSET [loc : Locations, value : Threads \cup Nodes \cup {Null}]]
    /\ pc \in [Threads -> {"idle", "search", "link", "publish"}]
    /\ cur \in [Threads -> Nodes \cup {Null}]
    /\ node \in [Threads -> Nodes \cup {Null}]
    /\ found \in [Threads -> Nodes \cup {Null}]

\* An interface is never given another interface's state, however the
\* insertions of two threads interleave.
FoundIsOwn ==
    \A t \in Threads : found[t] # Null => Read(t, <<"ctx", found[t]>>) = t

\* A lookup comes to an end: races may drop nodes from the list but never
\* close it into a ring.
LookupsEnd == \A t \in Threads : []<>(pc[t] = "idle")
=============================================================================
