--------------------------- MODULE LltdBlockProofs ---------------------------
(***************************************************************************)
(* Proofs about LltdBlock: what an interface keeps between frames is well  *)
(* formed, its list of probes holds none twice, a mapper is not displaced  *)
(* by another's discovery, and no probe leaves the list unaccounted for.   *)
(***************************************************************************)
EXTENDS LltdBlock, SequenceTheorems, TLAPS

Ops == {"Hello", "Probe", "Train", "Ack", "QueryResp", "QueryLargeTlvResp"}

\* What is kept, without what was sent last.
Kept ==
    /\ mapper \in [known : BOOLEAN, real : Stations \cup {NoStation},
                   apparent : Stations \cup {NoStation}, seq : Seqs]
    /\ gens \in [topology : Generations, quick : Generations]
    /\ seen \in Seq(ProbeSeen)
    /\ icon \in IconSizes \cup {0}

IInv == Kept /\ SeenOnce

-----------------------------------------------------------------------------
LEMMA PathParts ==
    ASSUME NEW path \in Paths
    PROVE  path.eth \in Stations /\ path.real \in Stations
BY BlockAssumption

LEMMA SetActiveType ==
    ASSUME Kept, NEW path \in Paths
    PROVE  set_active_mapper(path) \in [known : BOOLEAN, real : Stations \cup {NoStation},
                                        apparent : Stations \cup {NoStation}, seq : Seqs]
BY PathParts DEF Kept, set_active_mapper

LEMMA DiscoverKeeps ==
    ASSUME IInv, NEW path \in Paths, NEW seq \in Seqs, NEW generation \in Generations,
           NEW tos \in {"discovery", "quick", "qos"},
           NEW noBuffer \in Failures, NEW sendFails \in Failures,
           Discover(path, seq, generation, tos, noBuffer, sendFails)
    PROVE  IInv'
<1>1. UNCHANGED <<seen, seenCount, icon>>
  BY DEF Discover
<1>2. gens' \in [topology : Generations, quick : Generations]
  BY DEF IInv, Kept, Discover
<1>3. mapper' \in [known : BOOLEAN, real : Stations \cup {NoStation},
                   apparent : Stations \cup {NoStation}, seq : Seqs]
  BY SetActiveType DEF IInv, Kept, Discover
<1> QED
  BY <1>1, <1>2, <1>3 DEF IInv, Kept, SeenOnce, SameProbe

LEMMA EmitKeeps ==
    ASSUME IInv, NEW path \in Paths, NEW seq \in Seqs, NEW emitees, NEW ackFails \in Failures,
           Emit(path, seq, emitees, ackFails)
    PROVE  IInv'
<1>1. UNCHANGED <<gens, seen, seenCount, icon>>
  BY DEF Emit
<1>2. mapper' = [set_active_mapper(path) EXCEPT !.seq = seq]
  BY DEF Emit
<1> QED
  BY <1>1, <1>2, SetActiveType DEF IInv, Kept, SeenOnce, SameProbe

LEMMA ProbeKeeps ==
    ASSUME IInv, NEW path \in Paths, NEW kind \in {"probe", "train"},
           NEW forUs \in BOOLEAN, NEW fails \in Failures,
           Probe(path, kind, forUs, fails)
    PROVE  IInv'
<1> DEFINE probe == [kind |-> kind, src |-> path.eth, real |-> path.real]
<1>1. UNCHANGED <<mapper, gens, icon>>
  BY DEF Probe
<1>2. CASE UNCHANGED <<seen, seenCount>>
  BY <1>1, <1>2 DEF IInv, Kept, SeenOnce, SameProbe
<1>3. CASE /\ seen' = <<probe>> \o seen
           /\ seenCount' = seenCount + 1
           /\ \A i \in DOMAIN seen : ~SameProbe(probe, seen[i])
  <2>1. probe \in ProbeSeen
    BY PathParts DEF ProbeSeen
  <2> HIDE DEF probe
  <2>2. seen \in Seq(ProbeSeen) /\ seenCount = Len(seen)
    BY DEF IInv, Kept, SeenOnce
  <2>3. /\ seen' \in Seq(ProbeSeen)
        /\ Len(seen') = Len(seen) + 1
        /\ DOMAIN seen' = 1 .. Len(seen) + 1
        /\ \A i \in DOMAIN seen' : seen'[i] = IF i = 1 THEN probe ELSE seen[i - 1]
    BY <1>3, <2>1, <2>2
  <2>4. seenCount' = Len(seen')
    BY <1>3, <2>2, <2>3
  <2>5. \A i, j \in DOMAIN seen' : SameProbe(seen'[i], seen'[j]) => i = j
    <3> SUFFICES ASSUME NEW i \in DOMAIN seen', NEW j \in DOMAIN seen',
                        SameProbe(seen'[i], seen'[j])
                 PROVE  i = j
      OBVIOUS
    <3>1. CASE i = 1 /\ j # 1
      <4>1. j - 1 \in DOMAIN seen /\ SameProbe(probe, seen[j - 1])
        BY <2>2, <2>3, <3>1
      <4> QED
        BY <1>3, <4>1
    <3>2. CASE i # 1 /\ j = 1
      <4>1. i - 1 \in DOMAIN seen /\ SameProbe(seen[i - 1], probe)
        BY <2>2, <2>3, <3>2
      <4>2. SameProbe(probe, seen[i - 1])
        BY <4>1 DEF SameProbe
      <4> QED
        BY <1>3, <4>1, <4>2
    <3>3. CASE i # 1 /\ j # 1
      <4>1. i - 1 \in DOMAIN seen /\ j - 1 \in DOMAIN seen
        BY <2>2, <2>3, <3>3
      <4>2. SameProbe(seen[i - 1], seen[j - 1])
        BY <2>3, <3>3
      <4>3. i - 1 = j - 1
        BY <4>1, <4>2 DEF IInv, SeenOnce
      <4> QED
        BY <2>3, <4>3
    <3> QED
      BY <3>1, <3>2, <3>3
  <2>6. SeenOnce'
    BY <2>4, <2>5 DEF SeenOnce, SameProbe
  <2> QED
    BY <1>1, <2>3, <2>6 DEF IInv, Kept
<1> QED
  BY <1>2, <1>3 DEF Probe

LEMMA QueryKeeps ==
    ASSUME IInv, NEW path \in Paths, NEW seq \in Seqs,
           NEW noBuffer \in Failures, NEW sendFails \in Failures,
           Query(path, seq, noBuffer, sendFails)
    PROVE  IInv'
<1>1. UNCHANGED <<gens, icon>>
  BY DEF Query
<1>2. mapper' \in [known : BOOLEAN, real : Stations \cup {NoStation},
                   apparent : Stations \cup {NoStation}, seq : Seqs]
  BY PathParts DEF Query
<1>3. CASE UNCHANGED <<seen, seenCount>>
  BY <1>1, <1>2, <1>3 DEF IInv, Kept, SeenOnce, SameProbe
<1>4. CASE seen' = <<>> /\ seenCount' = 0
  BY <1>1, <1>2, <1>4 DEF IInv, Kept, SeenOnce, SameProbe
<1> QED
  BY <1>3, <1>4 DEF Query

LEMMA QueryLargeTlvKeeps ==
    ASSUME IInv, NEW path \in Paths, NEW seq \in Seqs, NEW isIcon \in BOOLEAN,
           NEW size \in IconSizes, NEW fails \in Failures,
           QueryLargeTlv(path, seq, isIcon, size, fails)
    PROVE  IInv'
<1>1. UNCHANGED <<gens, seen, seenCount>>
  BY DEF QueryLargeTlv
<1>2. icon' \in IconSizes \cup {0}
  BY DEF IInv, Kept, QueryLargeTlv
<1>3. mapper' \in [known : BOOLEAN, real : Stations \cup {NoStation},
                   apparent : Stations \cup {NoStation}, seq : Seqs]
  BY SetActiveType DEF IInv, Kept, QueryLargeTlv
<1> QED
  BY <1>1, <1>2, <1>3 DEF IInv, Kept, SeenOnce, SameProbe

LEMMA ResetsKeep ==
    ASSUME IInv, TopologyReset \/ QuickReset
    PROVE  IInv'
<1>1. CASE TopologyReset
  <2>1. /\ mapper' = [mapper EXCEPT !.known = FALSE, !.seq = 0]
        /\ gens' = [topology |-> 0, quick |-> 0]
        /\ seen' = <<>> /\ seenCount' = 0 /\ icon' = 0
    BY <1>1 DEF TopologyReset
  <2>2. SeenOnce'
    BY <2>1 DEF SeenOnce
  <2>3. Kept'
    <3>1. gens' \in [topology : Generations, quick : Generations]
      BY <2>1, BlockAssumption
    <3>2. mapper' \in [known : BOOLEAN, real : Stations \cup {NoStation},
                       apparent : Stations \cup {NoStation}, seq : Seqs]
      BY <2>1, BlockAssumption DEF IInv, Kept
    <3> QED
      BY <2>1, <3>1, <3>2 DEF Kept
  <2> QED
    BY <2>2, <2>3 DEF IInv
<1>2. CASE QuickReset
  BY <1>2, BlockAssumption DEF QuickReset, IInv, Kept, SeenOnce, SameProbe
<1> QED
  BY <1>1, <1>2

\* The invariant, which the number in seenCount is part of: Query sizes its
\* response by it and not by the list.
THEOREM Invariant == Spec => []IInv
<1>1. Init => IInv
  BY BlockAssumption DEF Init, IInv, Kept, SeenOnce, SameProbe, NoStation
<1>2. IInv /\ [Next]_vars => IInv'
  <2> SUFFICES ASSUME IInv, [Next]_vars
               PROVE  IInv'
    OBVIOUS
  <2>1. CASE UNCHANGED vars
    BY <2>1 DEF vars, IInv, Kept, SeenOnce, SameProbe
  <2>2. CASE Next
    BY <2>2, DiscoverKeeps, EmitKeeps, ProbeKeeps, QueryKeeps, QueryLargeTlvKeeps,
       ResetsKeep DEF Next
  <2> QED
    BY <2>1, <2>2
<1> QED
  BY <1>1, <1>2, PTL DEF Spec

\* However Probes, Trains, Queries and Resets follow each other and whichever
\* sends fail, no path is in the list twice and the count is the list's.
THEOREM ProbesSeenOnce == Spec => []SeenOnce
BY Invariant, PTL DEF IInv

-----------------------------------------------------------------------------
\* What is sent.
FramesOK == \A i \in DOMAIN sent : sent[i].op \in Ops

\* The frames of an Emit: Probes and Trains, then perhaps an Ack.
LEMMA EmittedFrames ==
    ASSUME NEW path \in Paths, NEW seq \in Seqs, NEW emitees, NEW ackFails \in Failures,
           Emit(path, seq, emitees, ackFails)
    PROVE  \A i \in DOMAIN sent' : sent'[i].op \in {"Probe", "Train", "Ack"}
<1> DEFINE emitted == SelectSeq(emitees, Emitted)
           n == Len(emitted)
           frame(i) == ProbeFrame(emitted[i])
           frames == [i \in 1..n |-> frame(i)]
           S == {frame(i) : i \in 1..n} \cup {AckFrame}
           acks == IF emitees # <<>> /\ Emitted(Last(emitees)) /\ ~ackFails
                     THEN <<AckFrame>> ELSE <<>>
<1>1. sent' = frames \o acks
  BY DEF Emit, Send
<1>2. n \in Nat
  OBVIOUS
<1>3. \A r \in S : r.op \in {"Probe", "Train", "Ack"}
  BY DEF ProbeFrame, AckFrame
<1>4. frames \in Seq(S)
  <2>1. \A i \in 1..n : frame(i) \in S
    OBVIOUS
  <2> HIDE DEF S, n, frame
  <2> QED
    BY <1>2, <2>1, IsASeq
<1>5. acks \in Seq(S)
  <2>1. AckFrame \in S
    OBVIOUS
  <2> HIDE DEF S
  <2> QED
    BY <2>1
<1> HIDE DEF S, frames, acks
<1>6. sent' \in Seq(S)
  BY <1>1, <1>4, <1>5, ConcatProperties
<1>7. \A i \in DOMAIN sent' : sent'[i] \in S
  BY <1>6
<1> QED
  BY <1>3, <1>7

LEMMA NextFrames ==
    ASSUME Next
    PROVE  FramesOK'
<1>1. ASSUME NEW path \in Paths, NEW seq \in Seqs, NEW generation \in Generations,
             NEW tos \in {"discovery", "quick", "qos"},
             NEW noBuffer \in Failures, NEW sendFails \in Failures,
             Discover(path, seq, generation, tos, noBuffer, sendFails)
      PROVE  FramesOK'
  BY <1>1 DEF Discover, Send, HelloFrame, FramesOK, Ops
<1>2. ASSUME NEW path \in Paths, NEW seq \in Seqs, NEW emitees, NEW ackFails \in Failures,
             Emit(path, seq, emitees, ackFails)
      PROVE  FramesOK'
  BY <1>2, EmittedFrames DEF FramesOK, Ops
<1>3. ASSUME NEW path \in Paths, NEW kind \in {"probe", "train"},
             NEW forUs \in BOOLEAN, NEW fails \in Failures,
             Probe(path, kind, forUs, fails)
      PROVE  FramesOK'
  BY <1>3 DEF Probe, Send, FramesOK
<1>4. ASSUME NEW path \in Paths, NEW seq \in Seqs,
             NEW noBuffer \in Failures, NEW sendFails \in Failures,
             Query(path, seq, noBuffer, sendFails)
      PROVE  FramesOK'
  BY <1>4 DEF Query, Send, QueryRespFrame, FramesOK, Ops
<1>5. ASSUME NEW path \in Paths, NEW seq \in Seqs, NEW isIcon \in BOOLEAN,
             NEW size \in IconSizes, NEW fails \in Failures,
             QueryLargeTlv(path, seq, isIcon, size, fails)
      PROVE  FramesOK'
  BY <1>5 DEF QueryLargeTlv, Send, LargeTlvFrame, FramesOK, Ops
<1>6. TopologyReset \/ QuickReset => FramesOK'
  BY DEF TopologyReset, QuickReset, Send, FramesOK
<1> QED
  BY <1>1, <1>2, <1>3, <1>4, <1>5, <1>6 DEF Next

\* Whatever frames come, from whichever stations, along whichever paths.
THEOREM TypeCorrect == Spec => []TypeOK
<1>1. Init => FramesOK
  BY DEF Init, FramesOK
<1>2. FramesOK /\ [Next]_vars => FramesOK'
  <2>1. FramesOK /\ UNCHANGED vars => FramesOK'
    BY DEF FramesOK, vars
  <2> QED
    BY <2>1, NextFrames
<1>3. IInv /\ FramesOK => TypeOK
  <2> SUFFICES ASSUME IInv, FramesOK
               PROVE  TypeOK
    OBVIOUS
  <2>1. seenCount \in Nat
    BY DEF IInv, Kept, SeenOnce
  <2> QED
    BY <2>1 DEF IInv, Kept, FramesOK, TypeOK, Ops
<1> QED
  BY <1>1, <1>2, <1>3, Invariant, PTL DEF Spec

-----------------------------------------------------------------------------
\* A Discover of another mapper than the one served goes unanswered, for
\* every generation and type of service, whatever came between.
THEOREM MapperServedAlone == Spec => ExclusiveMapper
<1> DEFINE A == \A i \in DOMAIN sent' : sent'[i].op = "Hello" /\ mapper.known
                                        => sent'[i].real = mapper.real
<1>1. ASSUME NEW path \in Paths, NEW seq \in Seqs, NEW generation \in Generations,
             NEW tos \in {"discovery", "quick", "qos"},
             NEW noBuffer \in Failures, NEW sendFails \in Failures,
             Discover(path, seq, generation, tos, noBuffer, sendFails)
      PROVE  A
  BY <1>1 DEF Discover, Send, HelloFrame, mapper_matches
<1>2. ASSUME NEW path \in Paths, NEW seq \in Seqs, NEW emitees, NEW ackFails \in Failures,
             Emit(path, seq, emitees, ackFails)
      PROVE  A
  BY <1>2, EmittedFrames
<1>3. ASSUME NEW path \in Paths, NEW kind \in {"probe", "train"},
             NEW forUs \in BOOLEAN, NEW fails \in Failures,
             Probe(path, kind, forUs, fails)
      PROVE  A
  BY <1>3 DEF Probe, Send
<1>4. ASSUME NEW path \in Paths, NEW seq \in Seqs,
             NEW noBuffer \in Failures, NEW sendFails \in Failures,
             Query(path, seq, noBuffer, sendFails)
      PROVE  A
  BY <1>4 DEF Query, Send, QueryRespFrame
<1>5. ASSUME NEW path \in Paths, NEW seq \in Seqs, NEW isIcon \in BOOLEAN,
             NEW size \in IconSizes, NEW fails \in Failures,
             QueryLargeTlv(path, seq, isIcon, size, fails)
      PROVE  A
  BY <1>5 DEF QueryLargeTlv, Send, LargeTlvFrame
<1>6. TopologyReset \/ QuickReset => A
  BY DEF TopologyReset, QuickReset, Send
<1>7. Next => A
  <2> HIDE DEF A
  <2> QED
    BY <1>1, <1>2, <1>3, <1>4, <1>5, <1>6 DEF Next
<1>8. [Next]_vars => [A]_vars
  BY <1>7
<1> QED
  BY <1>8, PTL DEF Spec, ExclusiveMapper

-----------------------------------------------------------------------------
\* What ProbesReported allows a step that forgets probes to be.
Excused ==
    \/ TopologyReset
    \/ \E path \in Paths, seq \in Seqs : Query(path, seq, FALSE, TRUE)
    \/ \E i \in DOMAIN sent' :
          /\ sent'[i].op = "QueryResp"
          /\ IsPrefix(sent'[i].probes, seen)
          /\ Len(sent'[i].probes) = MaxDescs \/ Forgotten \subseteq ToSet(sent'[i].probes)

LEMMA QueryIsExcused ==
    ASSUME IInv, NEW path \in Paths, NEW seq \in Seqs,
           NEW noBuffer \in Failures, NEW sendFails \in Failures,
           Query(path, seq, noBuffer, sendFails)
    PROVE  Forgotten = {} \/ Excused
<1>1. CASE noBuffer
  BY <1>1 DEF Query, Forgotten
<1>2. CASE ~noBuffer /\ sendFails
  BY <1>2, BlockAssumption DEF Query, Excused
<1>3. CASE ~noBuffer /\ ~sendFails
  <2>1. sent' = <<QueryRespFrame(path)>>
    BY <1>3 DEF Query, Send
  <2>2. sent'[1].op = "QueryResp" /\ sent'[1].probes = Reported /\ 1 \in DOMAIN sent'
    BY <2>1 DEF QueryRespFrame
  <2>3. seen \in Seq(ProbeSeen) /\ seenCount = Len(seen) /\ Len(seen) \in Nat
    BY DEF IInv, Kept, SeenOnce
  <2> DEFINE m == IF seenCount > MaxDescs THEN MaxDescs ELSE seenCount
  <2>4. m \in 0 .. Len(seen) /\ m \in Nat
    BY <2>3, BlockAssumption
  <2>5. Reported = SubSeq(seen, 1, m)
    BY DEF Reported
  <2> HIDE DEF m
  <2>6. Len(Reported) = m /\ SubSeq(Reported, 1, m) = SubSeq(seen, 1, m)
    BY <2>3, <2>4, <2>5
  <2>7. IsPrefix(Reported, seen)
    BY <2>3, <2>4, <2>6 DEF IsPrefix
  <2>8. CASE seenCount > MaxDescs
    <3>1. Len(Reported) = MaxDescs
      BY <2>6, <2>8 DEF m
    <3> QED
      BY <2>2, <2>7, <3>1 DEF Excused
  <2>9. CASE ~(seenCount > MaxDescs)
    <3>1. Reported = seen
      BY <2>3, <2>5, <2>9, SubSeqFull DEF m
    <3>2. Forgotten \subseteq ToSet(Reported)
      BY <3>1 DEF Forgotten
    <3> QED
      BY <2>2, <2>7, <3>2 DEF Excused
  <2> QED
    BY <2>8, <2>9
<1> QED
  BY <1>1, <1>2, <1>3

\* Recording a probe forgets none.
LEMMA ProbeForgetsNone ==
    ASSUME IInv, NEW path \in Paths, NEW kind \in {"probe", "train"},
           NEW forUs \in BOOLEAN, NEW fails \in Failures,
           Probe(path, kind, forUs, fails)
    PROVE  Forgotten = {}
<1> DEFINE probe == [kind |-> kind, src |-> path.eth, real |-> path.real]
<1>1. CASE seen' = seen
  BY <1>1 DEF Forgotten
<1>2. CASE seen' = <<probe>> \o seen
  <2>1. probe \in ProbeSeen /\ seen \in Seq(ProbeSeen)
    BY PathParts DEF ProbeSeen, IInv, Kept
  <2> HIDE DEF probe
  <2>2. \A i \in DOMAIN seen : i + 1 \in DOMAIN seen' /\ seen'[i + 1] = seen[i]
    BY <1>2, <2>1
  <2>3. ToSet(seen) \subseteq ToSet(seen')
    BY <2>2 DEF ToSet
  <2> QED
    BY <2>3 DEF Forgotten
<1> QED
  BY <1>1, <1>2 DEF Probe

\* For lists of every length and responses of every size: what leaves the
\* list without a Reset or a failed send was reported, or did not fit.
THEOREM NoProbeLostQuietly == Spec => ProbesReported
<1>1. ASSUME IInv, Next
      PROVE  Forgotten # {} => Excused
  <2>1. ASSUME NEW path \in Paths, NEW seq \in Seqs, NEW generation \in Generations,
               NEW tos \in {"discovery", "quick", "qos"},
               NEW noBuffer \in Failures, NEW sendFails \in Failures,
               Discover(path, seq, generation, tos, noBuffer, sendFails)
        PROVE  Forgotten = {}
    BY <2>1 DEF Discover, Forgotten
  <2>2. ASSUME NEW path \in Paths, NEW seq \in Seqs, NEW emitees, NEW ackFails \in Failures,
               Emit(path, seq, emitees, ackFails)
        PROVE  Forgotten = {}
    BY <2>2 DEF Emit, Forgotten
  <2>3. ASSUME NEW path \in Paths, NEW seq \in Seqs, NEW isIcon \in BOOLEAN,
               NEW size \in IconSizes, NEW fails \in Failures,
               QueryLargeTlv(path, seq, isIcon, size, fails)
        PROVE  Forgotten = {}
    BY <2>3 DEF QueryLargeTlv, Forgotten
  <2>4. QuickReset => Forgotten = {}
    BY DEF QuickReset, Forgotten
  <2>5. TopologyReset => Excused
    BY DEF Excused
  <2> HIDE DEF Forgotten
  <2> QED
    BY <1>1, <2>1, <2>2, <2>3, <2>4, <2>5, QueryIsExcused, ProbeForgetsNone DEF Next
<1>2. IInv /\ [Next]_vars => [Forgotten # {} => Excused]_vars
  BY <1>1
<1> QED
  BY <1>2, Invariant, PTL DEF Spec, ProbesReported, Excused
=============================================================================
