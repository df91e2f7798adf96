------------------------------ MODULE LltdBlock ------------------------------
(***************************************************************************)
(* The frame handlers of one interface: parseFrame of                      *)
(* lltdResponder/lltdBlock.c and the state it keeps per interface, which   *)
(* is none of the automata's: the mapper being served, the generations it  *)
(* announced and the probes seen for it.                                   *)
(*                                                                         *)
(* A frame comes along a path [eth, real]: its Ethernet source and its     *)
(* LLTD source, which differ behind a bridge.  Its sequence number comes   *)
(* with it.  Frames handed to the network are records in sent, in order.   *)
(***************************************************************************)
EXTENDS Integers, Sequences, SequencesExt

CONSTANTS
    Stations,       \* addresses of the other stations
    Broadcast,      \* the Ethernet broadcast address
    Paths,          \* the paths [eth, real] on which frames reach the interface
    Generations,    \* generations a Discover may carry; 0 is "none yet"
    Seqs,           \* sequence numbers a frame may carry
    MaxDescs,       \* probe descriptors that fit in a QueryResp
    MaxEmitees,     \* bound: emitees in an Emit
    IconSizes,      \* what the platform may answer for the icon, 0 for none
    Failures        \* TRUE \in Failures: allocations and sends may fail

ASSUME BlockAssumption ==
    /\ Broadcast \notin Stations
    /\ Paths \subseteq [eth : Stations, real : Stations]
    /\ Generations \subseteq Nat /\ 0 \in Generations
    /\ Seqs \subseteq Nat /\ 0 \in Seqs
    /\ MaxDescs \in Nat /\ MaxEmitees \in Nat
    /\ IconSizes \subseteq Nat
    /\ Failures \subseteq BOOLEAN /\ FALSE \in Failures

VARIABLES
    mapper,     \* the mapper: known, its addresses on a path, its last sequence number
    gens,       \* mapper_gen_topology and mapper_gen_quick
    seen,       \* see_list, newest first
    seenCount,  \* see_list_count
    icon,       \* size of the cached icon, 0 when there is none
    sent        \* what the last handler sent

vars == <<mapper, gens, seen, seenCount, icon, sent>>

NoStation == Broadcast   \* stands for the zeroed address of a fresh state

Init ==
    /\ mapper = [known |-> FALSE, real |-> NoStation, apparent |-> NoStation, seq |-> 0]
    /\ gens = [topology |-> 0, quick |-> 0]
    /\ seen = <<>> /\ seenCount = 0
    /\ icon = 0
    /\ sent = <<>>

-----------------------------------------------------------------------------
Send(frames) == sent' = frames

\* Mutant: anyone's Discover is answered.
mapper_matches_Anyone(path) == path \in Paths

\* A Discover is answered while no mapper is served, or if it is the mapper's.
mapper_matches(path) == mapper.known => mapper.real = path.real

set_active_mapper(path) ==
    IF mapper.known THEN mapper
    ELSE [mapper EXCEPT !.known = TRUE, !.real = path.real, !.apparent = path.eth]

\* Where a response to a query goes: a station behind a bridge is answered
\* by broadcast.
ReplyTo(path) == IF path.real = path.eth THEN path.real ELSE Broadcast

\* answerHello names the Discover's own path as the mapper.
HelloFrame(path, slot, generation) ==
    [op |-> "Hello", slot |-> slot, real |-> path.real, apparent |-> path.eth,
     generation |-> generation]

\* A Discover of the mapper served, or of anyone while none is.  Its
\* generation is stored even when its type of service is never answered
\* ("qos" uses the topology slot) or there is no buffer for the Hello; its
\* sequence number only when a Hello is built, sent or not.
Discover(path, seq, generation, tos, noBuffer, sendFails) ==
    LET slot == IF tos = "quick" THEN "quick" ELSE "topology"
        built == tos # "qos" /\ ~noBuffer
    IN  IF mapper_matches(path)
          THEN /\ mapper' = [set_active_mapper(path) EXCEPT !.seq = IF built THEN seq ELSE @]
               /\ gens' = [gens EXCEPT ![slot] = generation]
               /\ Send(IF built /\ ~sendFails THEN <<HelloFrame(path, slot, gens'[slot])>>
                       ELSE <<>>)
               /\ UNCHANGED <<seen, seenCount, icon>>
          ELSE Send(<<>>) /\ UNCHANGED <<mapper, gens, seen, seenCount, icon>>

\* One emitee: its type and whether its frame is sent.  Type 1 asks for a
\* Probe, 0 for a Train, anything else for nothing.
Emitee == [type : 0..2, fails : Failures]

Emitted(e) == e.type \in {0, 1} /\ ~e.fails

ProbeFrame(e) == [op |-> IF e.type = 1 THEN "Probe" ELSE "Train", real |-> mapper'.real]

AckFrame == [op |-> "Ack", dst |-> mapper'.apparent, real |-> mapper'.real, seq |-> mapper'.seq]

\* An Emit: the emitees in order, and an Ack when the last one was sent.
Emit(path, seq, emitees, ackFails) ==
    LET acks == emitees # <<>> /\ Emitted(Last(emitees)) /\ ~ackFails
        emitted == SelectSeq(emitees, Emitted)
    IN  /\ mapper' = [set_active_mapper(path) EXCEPT !.seq = seq]
        /\ Send([i \in 1..Len(emitted) |-> ProbeFrame(emitted[i])]
                \o (IF acks THEN <<AckFrame>> ELSE <<>>))
        /\ UNCHANGED <<gens, seen, seenCount, icon>>

SameProbe(p, q) == p.src = q.src /\ p.real = q.real

\* A Probe or Train for us; one already seen on its path is not seen again,
\* whatever its kind.
Probe(path, kind, forUs, fails) ==
    LET probe == [kind |-> kind, src |-> path.eth, real |-> path.real]
        known == \E i \in DOMAIN seen : SameProbe(probe, seen[i])
    IN  /\ IF forUs /\ ~fails /\ ~known
             THEN seen' = <<probe>> \o seen /\ seenCount' = seenCount + 1
             ELSE UNCHANGED <<seen, seenCount>>
        /\ Send(<<>>)
        /\ UNCHANGED <<mapper, gens, icon>>

\* Mutant: the loop over the list stops one early.
Reported_OneShort == SubSeq(seen, 1, (IF seenCount > MaxDescs THEN MaxDescs ELSE seenCount) - 1)

\* The probes of a response: the newest ones, as many as fit.
Reported == SubSeq(seen, 1, IF seenCount > MaxDescs THEN MaxDescs ELSE seenCount)

QueryRespFrame(path) ==
    [op |-> "QueryResp", dst |-> ReplyTo(path), seq |-> mapper'.seq, probes |-> Reported]

\* Mutant: the list is emptied and its count kept.
Query_KeepsCount(path, seq, noBuffer, sendFails) ==
    /\ mapper' = [known |-> TRUE, real |-> path.real, apparent |-> path.eth, seq |-> seq]
    /\ IF noBuffer
         THEN Send(<<>>) /\ UNCHANGED seen
         ELSE /\ Send(IF sendFails THEN <<>> ELSE <<QueryRespFrame(path)>>)
              /\ seen' = <<>>
    /\ UNCHANGED <<gens, icon, seenCount>>

\* Mutant: the count goes down by what a full response holds.
Query_TakesDescs(path, seq, noBuffer, sendFails) ==
    /\ mapper' = [known |-> TRUE, real |-> path.real, apparent |-> path.eth, seq |-> seq]
    /\ IF noBuffer
         THEN Send(<<>>) /\ UNCHANGED <<seen, seenCount>>
         ELSE /\ Send(IF sendFails THEN <<>> ELSE <<QueryRespFrame(path)>>)
              /\ seen' = <<>> /\ seenCount' = seenCount - MaxDescs
    /\ UNCHANGED <<gens, icon>>

\* A Query makes its sender the mapper, whoever was; what was seen is
\* reported as far as it fits and forgotten, reported or not, received or not.
Query(path, seq, noBuffer, sendFails) ==
    /\ mapper' = [known |-> TRUE, real |-> path.real, apparent |-> path.eth, seq |-> seq]
    /\ IF noBuffer
         THEN Send(<<>>) /\ UNCHANGED <<seen, seenCount>>
         ELSE /\ Send(IF sendFails THEN <<>> ELSE <<QueryRespFrame(path)>>)
              /\ seen' = <<>> /\ seenCount' = 0
    /\ UNCHANGED <<gens, icon>>

LargeTlvFrame(path, size) ==
    [op |-> "QueryLargeTlvResp", dst |-> ReplyTo(path), seq |-> mapper'.seq, size |-> size]

\* A QueryLargeTlv: the icon is fetched once and kept, other values are
\* fetched each time.  size is what the platform answers now.
QueryLargeTlv(path, seq, isIcon, size, fails) ==
    IF seq = 0
      THEN Send(<<>>) /\ UNCHANGED <<mapper, gens, seen, seenCount, icon>>
      ELSE /\ mapper' = [set_active_mapper(path) EXCEPT !.seq = seq]
           /\ icon' = IF isIcon /\ icon = 0 THEN size ELSE icon
           /\ Send(IF fails THEN <<>>
                   ELSE <<LargeTlvFrame(path, IF isIcon THEN icon' ELSE size)>>)
           /\ UNCHANGED <<gens, seen, seenCount>>

\* A Reset, from anyone.
TopologyReset ==
    /\ mapper' = [mapper EXCEPT !.known = FALSE, !.seq = 0]
    /\ gens' = [topology |-> 0, quick |-> 0]
    /\ seen' = <<>> /\ seenCount' = 0
    /\ icon' = 0
    /\ Send(<<>>)

QuickReset ==
    /\ mapper' = [mapper EXCEPT !.known = FALSE]
    /\ gens' = [gens EXCEPT !.quick = 0]
    /\ Send(<<>>)
    /\ UNCHANGED <<seen, seenCount, icon>>

Next ==
    \/ \E path \in Paths, seq \in Seqs :
          \/ \E generation \in Generations, tos \in {"discovery", "quick", "qos"},
                noBuffer, sendFails \in Failures :
                Discover(path, seq, generation, tos, noBuffer, sendFails)
          \/ \E emitees \in BoundedSeq(Emitee, MaxEmitees), ackFails \in Failures :
                Emit(path, seq, emitees, ackFails)
          \/ \E noBuffer, sendFails \in Failures : Query(path, seq, noBuffer, sendFails)
          \/ \E isIcon \in BOOLEAN, size \in IconSizes, fails \in Failures :
                QueryLargeTlv(path, seq, isIcon, size, fails)
    \/ \E path \in Paths, kind \in {"probe", "train"}, forUs \in BOOLEAN, fails \in Failures :
          Probe(path, kind, forUs, fails)
    \/ TopologyReset
    \/ QuickReset

Spec == Init /\ [][Next]_vars

-----------------------------------------------------------------------------
ProbeSeen == [kind : {"probe", "train"}, src : Stations, real : Stations]

TypeOK ==
    /\ mapper \in [known : BOOLEAN, real : Stations \cup {NoStation},
                   apparent : Stations \cup {NoStation}, seq : Seqs]
    /\ gens \in [topology : Generations, quick : Generations]
    /\ seen \in Seq(ProbeSeen)
    /\ seenCount \in Nat
    /\ icon \in IconSizes \cup {0}
    /\ \A i \in DOMAIN sent :
          sent[i].op \in {"Hello", "Probe", "Train", "Ack", "QueryResp", "QueryLargeTlvResp"}

\* The list holds no probe twice, so that it is bounded by the number of
\* paths, and its length is the number Query trusts for what it reports.
SeenOnce ==
    /\ seenCount = Len(seen)
    /\ \A i, j \in DOMAIN seen : SameProbe(seen[i], seen[j]) => i = j

\* While a mapper is served every Hello is for it: another mapper's
\* discoveries are left unanswered, on either type of service.
ExclusiveMapper ==
    [][\A i \in DOMAIN sent' : sent'[i].op = "Hello" /\ mapper.known
                               => sent'[i].real = mapper.real]_vars

Forgotten == ToSet(seen) \ ToSet(seen')

\* No probe is lost quietly: unless a Reset comes, a probe leaves the list
\* only with a Query whose response was not sent, or was full and reports the
\* newest of the list, or reports the probe.
ProbesReported ==
    [][Forgotten # {} =>
        \/ TopologyReset
        \/ \E path \in Paths, seq \in Seqs : Query(path, seq, FALSE, TRUE)
        \/ \E i \in DOMAIN sent' :
              /\ sent'[i].op = "QueryResp"
              /\ IsPrefix(sent'[i].probes, seen)
              /\ Len(sent'[i].probes) = MaxDescs \/ Forgotten \subseteq ToSet(sent'[i].probes)]_vars
=============================================================================
