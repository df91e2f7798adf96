------------------------------ MODULE HostProofs ------------------------------
(***************************************************************************)
(* What a host tells about itself, for names, icons, MTUs and links of any *)
(* size and any number of changes.  A Hello can be read and fits; a large  *)
(* property read to its end is whole and of one version, and every part    *)
(* brings a reading on.  The rate tables of Wi-Fi are those of the         *)
(* standard, the search for the parameters of a rate ends with the nearest *)
(* ones, and the maximum covers the link.                                  *)
(***************************************************************************)
EXTENDS MCHost, SequenceTheorems, TLAPS

-----------------------------------------------------------------------------
(* The invariant.                                                          *)

\* What can be read of a system: its icon and name, which have versions.
Versioned == [version : Nat \ {0}, size : Nat]

HardwareIds == {NoData, [version |-> 0, size |-> 64]}

Systems == [host : {0}, ssid : {0}, bssid : {FALSE}, mtu : Mtus,
            icon : Versioned, name : Versioned, hwid : HardwareIds]

Readings == [what : Kinds \cup {"none"}, offset : Nat, versions : SUBSET Nat,
             total : Nat, parts : Nat, settled : BOOLEAN, over : BOOLEAN]

TypeOK ==
    /\ port \in Ports
    /\ sys \in Systems
    /\ cache \in Versioned \cup {NoData}
    /\ read \in Readings
    /\ read.offset < OffsetBound

\* What the reading is a reading of.
Current == Source(read.what, cache, Answers(port, sys))

\* Without a part there is no progress; an icon read has a version; and only
\* what has begun ends.
Started ==
    /\ read.versions = {} => read.total = 0 /\ read.offset = 0
    /\ read.what = "icon" => 0 \notin read.versions
    /\ read.over => read.what # "none"

\* Before the end, a settled reading has a beginning of what there is now,
\* up to the offset asked for next.
Steady ==
    read.what # "none" /\ ~read.over /\ read.settled =>
        \/ read.versions = {}
        \/ /\ read.versions = {Current.version}
           /\ Current.size <= OffsetBound => read.offset = read.total /\ read.total < Current.size

\* After the end, it has all of what there is now, or of what there was
\* before the name changed or the cache was emptied.
Finished ==
    read.over /\ read.settled =>
        \/ read.versions = {}
        \/ \E v \in read.versions :
              /\ read.versions = {v}
              /\ \/ v = Current.version /\ (Current.size <= OffsetBound => read.total = Current.size)
                 \/ v < Current.version
                 \/ v > 0 /\ Current.version = 0

\* A Hello built from any answers can be read; the longest has 206 bytes.
Built(frame) == (frame = NoFrame \/ Readable(frame)) /\ frame.offset \in Nat /\ frame.offset <= 206

HellosBuilt == Built(hello.reply) /\ Built(hello.timed)

Inv == TypeOK /\ Started /\ Steady /\ Finished /\ HellosBuilt

-----------------------------------------------------------------------------
(* What the operators of the model return.                                 *)

LEMMA MtuRange ==
    ASSUME NEW mtu \in Mtus
    PROVE  mtu \in Nat /\ 206 <= mtu /\ mtu <= 32801
    BY HostAssumption

\* Data: some version of it, and its size.
Datum == [version : Nat, size : Nat]

LEMMA DatumTypes ==
    /\ NoData \in Datum /\ Versioned \subseteq Datum /\ HardwareIds \subseteq Datum
    /\ [version |-> 0, size |-> 14] \in Datum
<1>1. NoData \in Datum /\ [version |-> 0, size |-> 14] \in Datum
    BY DEF NoData, Datum
<1>2. [version |-> 0, size |-> 64] \in Datum
    BY DEF Datum
<1>3. Versioned \subseteq Datum
    BY DEF Versioned, Datum
<1> QED
    BY <1>1, <1>2, <1>3 DEF HardwareIds

LEMMA SystemTypes ==
    ASSUME NEW s \in Systems
    PROVE  /\ s.mtu \in Mtus /\ s.icon \in Versioned /\ s.name \in Versioned
           /\ s.hwid \in HardwareIds
    BY DEF Systems

\* A port answers with data of its own or of the system; an icon it has has
\* a version.
LEMMA AnswersTypes ==
    ASSUME NEW p \in Ports, NEW s \in Systems
    PROVE  /\ Answers(p, s).mtu \in Nat
           /\ 206 <= Answers(p, s).mtu /\ Answers(p, s).mtu <= 32801
           /\ Answers(p, s).icon \in Versioned \cup {NoData}
           /\ Answers(p, s).name \in Datum
           /\ Answers(p, s).hwid \in Datum
<1>1. CASE p = "Darwin"
    <2>1. Answers(p, s) = DarwinAnswers(s)
        BY <1>1 DEF Answers
    <2>2. /\ DarwinAnswers(s).mtu = s.mtu /\ DarwinAnswers(s).icon = s.icon
          /\ DarwinAnswers(s).name = s.name /\ DarwinAnswers(s).hwid = s.hwid
        BY DEF DarwinAnswers
    <2>3. s.mtu \in Nat /\ 206 <= s.mtu /\ s.mtu <= 32801
        <3>1. s.mtu \in Mtus
            BY SystemTypes
        <3> QED
            BY ONLY <3>1, MtuRange
    <2>4. s.icon \in Versioned /\ s.name \in Datum /\ s.hwid \in Datum
        BY SystemTypes, DatumTypes
    <2> QED
        BY <2>1, <2>2, <2>3, <2>4
<1>2. CASE p # "Darwin"
    <2>1. PICK hostname, mtu : /\ Answers(p, s) = OtherAnswers(hostname, mtu)
                               /\ mtu = s.mtu \/ mtu = 1500
        <3>1. CASE p = "Linux"
            BY <3>1 DEF Answers, LinuxAnswers
        <3>2. CASE p = "POSIX"
            BY <3>2 DEF Answers, PosixAnswers
        <3>3. CASE p = "Windows"
            BY <3>3 DEF Answers, WindowsAnswers
        <3> QED
            BY <1>2, <3>1, <3>2, <3>3 DEF Ports
    <2>2. mtu \in Nat /\ 206 <= mtu /\ mtu <= 32801
        <3>1. s.mtu \in Mtus
            BY SystemTypes
        <3>2. s.mtu \in Nat /\ 206 <= s.mtu /\ s.mtu <= 32801
            BY ONLY <3>1, MtuRange
        <3> QED
            BY <2>1, <3>2
    <2>3. /\ OtherAnswers(hostname, mtu).mtu = mtu
          /\ OtherAnswers(hostname, mtu).icon = NoData
          /\ OtherAnswers(hostname, mtu).name = [version |-> 0, size |-> 14]
          /\ OtherAnswers(hostname, mtu).hwid = NoData
        BY DEF OtherAnswers
    <2> QED
        BY <2>1, <2>2, <2>3, DatumTypes
<1> QED
    BY <1>1, <1>2

\* What a port answers of its large properties depends on the system's
\* icon, name and hardware id alone, and on its name only on Darwin.
LEMMA AnswersStay ==
    ASSUME NEW p \in Ports, NEW s \in Systems, NEW t \in Systems, t.hwid = s.hwid,
           t.name = s.name \/ p # "Darwin"
    PROVE  /\ Answers(p, t).name = Answers(p, s).name
           /\ Answers(p, t).hwid = Answers(p, s).hwid
<1>1. CASE p = "Darwin"
    BY <1>1 DEF Answers, DarwinAnswers
<1>2. CASE p # "Darwin"
    BY <1>2 DEF Answers, Ports, LinuxAnswers, PosixAnswers, WindowsAnswers, OtherAnswers
<1> QED
    BY <1>1, <1>2

\* A name that changes has a greater version; the hardware id stays.
LEMMA NameGrows ==
    ASSUME NEW p \in Ports, NEW s \in Systems, NEW t \in Systems, t.hwid = s.hwid,
           t.name = s.name \/ t.name.version > s.name.version
    PROVE  /\ \/ Answers(p, t).name = Answers(p, s).name
              \/ /\ Answers(p, s).name.version > 0
                 /\ Answers(p, t).name.version > Answers(p, s).name.version
           /\ Answers(p, t).hwid = Answers(p, s).hwid
<1>1. CASE p = "Darwin"
    <2>1. s.name.version > 0
        BY DEF Systems, Versioned
    <2> QED
        BY <1>1, <2>1 DEF Answers, DarwinAnswers
<1>2. CASE p # "Darwin"
    BY <1>2, AnswersStay
<1> QED
    BY <1>1, <1>2

\* A response always has room: no length of a buffer wraps it to nothing.
LEMMA PayloadRange ==
    ASSUME NEW mtu \in Nat, 206 <= mtu, mtu <= 32801
    PROVE  MaxPayload(mtu) \in Nat /\ 0 < MaxPayload(mtu)
    BY DEF MaxPayload

\* What a part is: the room there is and more to come, all that is left, or
\* nothing, by what is left beyond the offset.
LEMMA PartCases ==
    ASSUME NEW data, NEW size \in Nat, data.size = size,
           NEW offset \in Nat, NEW max \in Nat, 0 < max
    PROVE  \/ /\ size > offset + max
              /\ Part(data, offset, max) = [length |-> max, more |-> TRUE]
           \/ /\ size > offset /\ size <= offset + max
              /\ Part(data, offset, max) = [length |-> size - offset, more |-> FALSE]
           \/ /\ size <= offset
              /\ Part(data, offset, max) = [length |-> 0, more |-> FALSE]
<1>1. CASE size > offset + max
    <2>1. ~ (size > offset /\ size <= offset + max) /\ ~ (size <= offset)
        BY <1>1
    <2> QED
        BY <1>1, <2>1 DEF Part
<1>2. CASE size > offset /\ size <= offset + max
    <2>1. ~ (size > offset + max) /\ ~ (size <= offset)
        BY <1>2
    <2> QED
        BY <1>2, <2>1 DEF Part
<1>3. CASE size <= offset
    <2>1. ~ (size > offset + max) /\ ~ (size > offset /\ size <= offset + max)
        BY <1>3
    <2> QED
        BY <1>3, <2>1 DEF Part
<1> QED
    BY <1>1, <1>2, <1>3

\* Nothing but a port's or the cache's data is ever there for a query.
LEMMA SourceTypes ==
    ASSUME NEW p \in Ports, NEW s \in Systems, NEW what \in Kinds, NEW icon \in Datum
    PROVE  Source(what, icon, Answers(p, s)) \in Datum
    BY AnswersTypes DEF Kinds, Source

-----------------------------------------------------------------------------
(* Building a Hello.                                                       *)

\* The types of the TLVs, in the order in which they are written.
Station == {"hostId", "characteristics", "physicalMedium", "ipv4", "ipv6", "perfCounter",
            "linkSpeed", "hostname"}

Wireless == {"wireless", "bssid", "ssid", "maxRate", "rssi"}

Closing == {"qos", "icon", "friendlyName", "end"}

TlvTypes == Station \cup Wireless \cup Closing

WrittenTlvs == [type : TlvTypes, length : Nat, at : Nat]

\* A Hello under construction that can be read so far: TLVs of these types,
\* each where the length of the one before leads to, and no more than this.
Partial(frame, types, most) ==
    /\ frame.tlvs \in Seq(WrittenTlvs) /\ frame.offset \in Nat /\ frame.offset <= most
    /\ \A i \in 1 .. Len(frame.tlvs) - 1 : Follows(frame.tlvs[i]) = frame.tlvs[i + 1].at
    /\ Len(frame.tlvs) > 0 => Follows(frame.tlvs[Len(frame.tlvs)]) = frame.offset
    /\ \A i, j \in 1 .. Len(frame.tlvs) : frame.tlvs[i].type = frame.tlvs[j].type => i = j
    /\ \A i \in 1 .. Len(frame.tlvs) : frame.tlvs[i].type \in types

\* The same of a Hello to which a TLV was written.
Added(next, frame, types, tlv) ==
    /\ Len(frame.tlvs) \in Nat /\ Len(next.tlvs) = Len(frame.tlvs) + 1
    /\ next.tlvs \in Seq(WrittenTlvs) /\ next.offset = frame.offset + tlv.size
    /\ next.tlvs[Len(frame.tlvs) + 1] =
          [type |-> tlv.type, length |-> tlv.length, at |-> frame.offset]
    /\ \A i \in 1 .. Len(frame.tlvs) : Follows(next.tlvs[i]) = next.tlvs[i + 1].at
    /\ \A i, j \in 1 .. Len(frame.tlvs) + 1 : next.tlvs[i].type = next.tlvs[j].type => i = j
    /\ \A i \in 1 .. Len(frame.tlvs) + 1 : next.tlvs[i].type \in types \cup {tlv.type}

LEMMA Plus == \A f, t : (f ++ t) = Extended(f, t)
    BY DEF ++

LEMMA AppendTlv ==
    ASSUME NEW frame, NEW types, NEW most \in Nat, Partial(frame, types, most),
           NEW tlv, tlv.type \in TlvTypes \ types, tlv.length \in Nat, tlv.size # 0
    PROVE  Added(frame ++ tlv, frame, types, tlv)
<1> DEFINE next == frame ++ tlv
           tlvs == frame.tlvs
           n == Len(tlvs)
           new == [type |-> tlv.type, length |-> tlv.length, at |-> frame.offset]
<1>1. next.tlvs = Append(tlvs, new) /\ next.offset = frame.offset + tlv.size
    BY Plus DEF Extended
<1>2. new \in WrittenTlvs /\ tlvs \in Seq(WrittenTlvs)
    BY DEF WrittenTlvs, Partial
<1> HIDE DEF next
<1>3. /\ n \in Nat
      /\ next.tlvs \in Seq(WrittenTlvs) /\ Len(next.tlvs) = n + 1
      /\ \A i \in 1 .. n : next.tlvs[i] = tlvs[i]
      /\ next.tlvs[n + 1] = new
    BY <1>1, <1>2, AppendProperties, LenProperties
<1>4. /\ \A i \in 1 .. n - 1 : Follows(tlvs[i]) = tlvs[i + 1].at
      /\ n > 0 => Follows(tlvs[n]) = frame.offset
      /\ \A i, j \in 1 .. n : tlvs[i].type = tlvs[j].type => i = j
      /\ \A i \in 1 .. n : tlvs[i].type \in types
    BY DEF Partial
<1>5. new.type = tlv.type /\ new.at = frame.offset
    OBVIOUS
<1> HIDE DEF tlvs, n, new
<1>6. \A i \in 1 .. n : Follows(next.tlvs[i]) = next.tlvs[i + 1].at
    <2>1. ASSUME NEW i \in 1 .. n
          PROVE  Follows(next.tlvs[i]) = next.tlvs[i + 1].at
        <3>1. CASE i = n
            BY <3>1, <1>3, <1>4, <1>5
        <3>2. CASE i \in 1 .. n - 1
            <4>1. i + 1 \in 1 .. n
                BY <3>2, <1>3
            <4> QED
                BY <3>2, <4>1, <1>3, <1>4
        <3> QED
            BY <3>1, <3>2, <1>3
    <2> QED
        BY <2>1
<1>7. \A i \in 1 .. n + 1 : \/ i \in 1 .. n /\ next.tlvs[i] = tlvs[i]
                            \/ i = n + 1 /\ next.tlvs[i] = new
    BY <1>3
<1>8. \A i, j \in 1 .. n + 1 : next.tlvs[i].type = next.tlvs[j].type => i = j
    BY <1>4, <1>5, <1>7
<1>9. \A i \in 1 .. n + 1 : next.tlvs[i].type \in types \cup {tlv.type}
    BY <1>4, <1>5, <1>7
<1> QED
    BY <1>1, <1>3, <1>6, <1>8, <1>9 DEF Added, tlvs, n, new, next

\* A TLV whose length field is what its builder returns, headers aside, keeps
\* a Hello readable.
LEMMA AddTlv ==
    ASSUME NEW frame, NEW types, NEW most \in Nat, Partial(frame, types, most),
           NEW tlv, tlv.type \in TlvTypes \ types, tlv.length \in Nat, tlv.size = 2 + tlv.length,
           NEW limit \in Nat, most + tlv.size <= limit
    PROVE  Partial(frame ++ tlv, types \cup {tlv.type}, limit)
<1> DEFINE next == frame ++ tlv
           n == Len(frame.tlvs)
           length == tlv.length
           size == tlv.size
<1>1. size # 0 /\ length \in Nat /\ size = 2 + length /\ most + size <= limit
    OBVIOUS
<1> HIDE DEF next
<1>2. Added(next, frame, types, tlv)
    BY <1>1, AppendTlv DEF next
<1>3. frame.offset \in Nat /\ frame.offset <= most
    BY DEF Partial
<1>4. next.offset = frame.offset + size
    BY <1>2 DEF Added
<1>5. Len(next.tlvs) = n + 1 /\ n \in Nat
    BY <1>2 DEF Added
<1>6. Follows(next.tlvs[n + 1]) = frame.offset + 2 + length
    <2>1. next.tlvs[n + 1] = [type |-> tlv.type, length |-> tlv.length, at |-> frame.offset]
        BY <1>2 DEF Added
    <2> QED
        BY <2>1 DEF Follows
<1> HIDE DEF size, length
<1>7. /\ next.offset \in Nat /\ next.offset <= limit
      /\ frame.offset + 2 + length = next.offset
    BY <1>1, <1>3, <1>4
<1>8. Len(next.tlvs) - 1 = n
    BY <1>5
<1>9. Partial(next, types \cup {tlv.type}, limit)
    BY <1>2, <1>5, <1>6, <1>7, <1>8 DEF Added, Partial
<1> QED
    BY <1>9 DEF next

\* A builder that has nothing to write.
LEMMA AddNoTlv ==
    ASSUME NEW frame, NEW types, NEW most \in Nat, Partial(frame, types, most),
           NEW kinds, types \subseteq kinds, NEW limit \in Nat, most <= limit
    PROVE  Partial(frame ++ NoTlv, kinds, limit)
<1>1. frame ++ NoTlv = frame
    BY Plus DEF Extended, NoTlv, Tlv
<1>2. frame.offset \in Nat /\ frame.offset <= limit
    BY DEF Partial
<1> QED
    BY <1>1, <1>2 DEF Partial

LEMMA AtMostRange ==
    ASSUME NEW n \in Nat, NEW room \in Nat
    PROVE  AtMost(n, room) \in Nat /\ AtMost(n, room) <= room
    BY DEF AtMost

\* What the getters for the Hello answer.
HelloAnswers(a) == a.hostname \in Nat /\ a.ssid \in Nat

\* The TLVs of every Hello, those of Wi-Fi, and the last ones, as the two
\* functions write them.
StationTlvs(a) ==
    Headers ++ HostIdTlv ++ CharacteristicsTlv ++ PhysicalMediumTlv ++ IPv4Tlv
            ++ IPv6Tlv ++ PerfCounterTlv ++ LinkSpeedTlv ++ HostnameTlv(a)

WithWireless(frame, a, modeAgain) ==
    frame ++ WirelessTlv(a, modeAgain) ++ BssidTlv(a) ++ SsidTlv(a)
          ++ WifiMaxRateTlv ++ WifiRssiTlv ++ ApTlvs

WithLast(frame) == frame ++ QosTlv ++ IconTlv ++ FriendlyNameTlv ++ EndTlv

LEMMA StationPartial ==
    ASSUME NEW a, HelloAnswers(a)
    PROVE  Partial(StationTlvs(a), Station, 140)
<1> DEFINE f0 == Headers
           f1 == f0 ++ HostIdTlv
           f2 == f1 ++ CharacteristicsTlv
           f3 == f2 ++ PhysicalMediumTlv
           f4 == f3 ++ IPv4Tlv
           f5 == f4 ++ IPv6Tlv
           f6 == f5 ++ PerfCounterTlv
           f7 == f6 ++ LinkSpeedTlv
           t1 == {} \cup {"hostId"}
           t2 == t1 \cup {"characteristics"}
           t3 == t2 \cup {"physicalMedium"}
           t4 == t3 \cup {"ipv4"}
           t5 == t4 \cup {"ipv6"}
           t6 == t5 \cup {"perfCounter"}
           t7 == t6 \cup {"linkSpeed"}
<1>1. Partial(f0, {}, 46)
    <2>1. f0.tlvs = <<>> /\ f0.offset = 46
        BY DEF Headers
    <2>2. <<>> \in Seq(WrittenTlvs) /\ Len(<<>>) = 0
        BY EmptySeq
    <2> QED
        BY <2>1, <2>2 DEF Partial
<1>0. Station \subseteq TlvTypes
    BY DEF TlvTypes
<1> HIDE DEF f0
<1>2. Partial(f1, t1, 54)
    BY <1>0, <1>1, AddTlv DEF Station, Tlv, HostIdTlv
<1> HIDE DEF f1
<1>3. Partial(f2, t2, 60)
    BY <1>0, <1>2, AddTlv DEF Station, Tlv, CharacteristicsTlv
<1> HIDE DEF f2
<1>4. Partial(f3, t3, 66)
    BY <1>0, <1>3, AddTlv DEF Station, Tlv, PhysicalMediumTlv
<1> HIDE DEF f3
<1>5. Partial(f4, t4, 72)
    BY <1>0, <1>4, AddTlv DEF Station, Tlv, IPv4Tlv
<1> HIDE DEF f4
<1>6. Partial(f5, t5, 90)
    BY <1>0, <1>5, AddTlv DEF Station, Tlv, IPv6Tlv
<1> HIDE DEF f5
<1>7. Partial(f6, t6, 100)
    BY <1>0, <1>6, AddTlv DEF Station, Tlv, PerfCounterTlv
<1> HIDE DEF f6
<1>8. Partial(f7, t7, 106)
    BY <1>0, <1>7, AddTlv DEF Station, Tlv, LinkSpeedTlv
<1> HIDE DEF f7
<1>9. Partial(f7 ++ HostnameTlv(a), t7 \cup {"hostname"}, 140)
    <2> DEFINE n == AtMost(a.hostname, 32)
    <2>1. n \in Nat /\ n <= 32
        BY AtMostRange DEF HelloAnswers
    <2>2. HostnameTlv(a) = Tlv("hostname", n, 2 + n)
        BY DEF HostnameTlv
    <2> HIDE DEF n
    <2> QED
        BY <1>0, <1>8, <2>1, <2>2, AddTlv DEF Station, Tlv
<1>10. t7 \cup {"hostname"} = Station
    BY DEF Station
<1> QED
    BY <1>9, <1>10 DEF StationTlvs, f0, f1, f2, f3, f4, f5, f6, f7

LEMMA WirelessPartial ==
    ASSUME NEW a, HelloAnswers(a), NEW modeAgain,
           NEW frame, Partial(frame, Station, 140)
    PROVE  Partial(WithWireless(frame, a, modeAgain), Station \cup Wireless, 195)
<1> DEFINE f1 == frame ++ WirelessTlv(a, modeAgain)
           f2 == f1 ++ BssidTlv(a)
           f3 == f2 ++ SsidTlv(a)
           f4 == f3 ++ WifiMaxRateTlv
           f5 == f4 ++ WifiRssiTlv
           t1 == Station \cup {"wireless"}
           t2 == t1 \cup {"bssid"}
           t3 == t2 \cup {"ssid"}
           t4 == t3 \cup {"maxRate"}
           t5 == t4 \cup {"rssi"}
<1>1. /\ "wireless" \in TlvTypes \ Station /\ "bssid" \in TlvTypes \ t1
      /\ "ssid" \in TlvTypes \ t2 /\ "maxRate" \in TlvTypes \ t3 /\ "rssi" \in TlvTypes \ t4
    BY DEF TlvTypes, Station, Wireless
<1>2. Partial(f1, t1, 143)
    <2>1. CASE WirelessTlv(a, modeAgain) = Tlv("wireless", 1, 3)
        BY <1>1, <2>1, AddTlv DEF Tlv
    <2>2. CASE WirelessTlv(a, modeAgain) = NoTlv
        BY <2>2, AddNoTlv
    <2> QED
        BY <2>1, <2>2 DEF WirelessTlv
<1> HIDE DEF f1
<1>3. Partial(f2, t2, 151)
    <2>1. CASE BssidTlv(a) = Tlv("bssid", 6, 8)
        BY <1>1, <1>2, <2>1, AddTlv DEF Tlv
    <2>2. CASE BssidTlv(a) = NoTlv
        BY <1>2, <2>2, AddNoTlv
    <2> QED
        BY <2>1, <2>2 DEF BssidTlv
<1> HIDE DEF f2
<1>4. Partial(f3, t3, 185)
    <2> DEFINE n == AtMost(a.ssid, 32)
    <2>1. n \in Nat /\ n <= 32
        BY AtMostRange DEF HelloAnswers
    <2>2. SsidTlv(a) = Tlv("ssid", n, 2 + n)
        BY DEF SsidTlv
    <2> HIDE DEF n
    <2> QED
        BY <1>1, <1>3, <2>1, <2>2, AddTlv DEF Tlv
<1> HIDE DEF f3
<1>5. Partial(f4, t4, 189)
    BY <1>1, <1>4, AddTlv DEF Tlv, WifiMaxRateTlv
<1> HIDE DEF f4
<1>6. Partial(f5, t5, 195)
    BY <1>1, <1>5, AddTlv DEF Tlv, WifiRssiTlv
<1> HIDE DEF f5
<1>7. Partial(f5 ++ ApTlvs, t5, 195)
    BY <1>6, AddNoTlv DEF ApTlvs
<1>8. t5 = Station \cup Wireless
    BY DEF Wireless
<1> QED
    BY <1>7, <1>8 DEF WithWireless, f1, f2, f3, f4, f5

\* What ends a Hello: the marker, of which there is one, in its last byte.
LEMMA LastReadable ==
    ASSUME NEW frame, Partial(frame, Station \cup Wireless, 195)
    PROVE  LET whole == WithLast(frame)
           IN  Readable(whole) /\ whole.offset \in Nat /\ whole.offset <= 206
<1> DEFINE f1 == frame ++ QosTlv
           f2 == f1 ++ IconTlv
           f3 == f2 ++ FriendlyNameTlv
           f4 == f3 ++ EndTlv
           t0 == Station \cup Wireless
           t1 == t0 \cup {"qos"}
           t2 == t1 \cup {"icon"}
           t3 == t2 \cup {"friendlyName"}
           end == EndTlv
           n == Len(f3.tlvs)
<1>1. /\ "qos" \in TlvTypes \ t0 /\ "icon" \in TlvTypes \ t1
      /\ "friendlyName" \in TlvTypes \ t2 /\ "end" \in TlvTypes \ t3
    BY DEF TlvTypes, Station, Wireless, Closing
<1>2. Partial(f1, t1, 201)
    BY <1>1, AddTlv DEF Tlv, QosTlv
<1> HIDE DEF f1
<1>3. Partial(f2, t2, 203)
    BY <1>1, <1>2, AddTlv DEF Tlv, IconTlv
<1> HIDE DEF f2
<1>4. Partial(f3, t3, 205)
    BY <1>1, <1>3, AddTlv DEF Tlv, FriendlyNameTlv
<1> HIDE DEF f3, t3
<1>5. Added(f4, f3, t3, end)
    BY <1>1, <1>4, AppendTlv DEF Tlv, EndTlv
<1>6. end.type = "end" /\ end.size = 1
    BY DEF Tlv, EndTlv
<1> HIDE DEF f4, end
<1>7. /\ n \in Nat /\ Len(f4.tlvs) = n + 1 /\ f4.offset = f3.offset + 1
      /\ f4.tlvs[n + 1].type = "end" /\ f4.tlvs[n + 1].at = f3.offset
    BY <1>5, <1>6 DEF Added
<1>8. f3.offset \in Nat /\ f3.offset <= 205
    BY <1>4 DEF Partial
<1> HIDE DEF n
<1>9. Len(f4.tlvs) - 1 = n /\ n + 1 > 0
    BY <1>7
<1>10. f4.offset \in Nat /\ f4.offset <= 206 /\ f4.tlvs[n + 1].at + 1 = f4.offset
    BY <1>7, <1>8
<1>11. Readable(f4)
    BY <1>5, <1>7, <1>9, <1>10 DEF Added, Readable, n
<1> QED
    BY <1>10, <1>11 DEF WithLast, f1, f2, f3, f4, end

\* Every Hello there is can be read, and is no longer than the longest.
LEMMA HelloBuilt ==
    ASSUME NEW a, HelloAnswers(a), NEW flag \in BOOLEAN
    PROVE  Built(answerHello(a, flag)) /\ Built(sendHelloMessageEx(a, flag))
<1>1. Partial(StationTlvs(a), Station \cup Wireless, 195)
    BY StationPartial DEF Partial
<1>2. ASSUME NEW m
      PROVE  Partial(WithWireless(StationTlvs(a), a, m), Station \cup Wireless, 195)
    BY StationPartial, WirelessPartial
<1>3. answerHello(a, flag) =
         WithLast(IF a.wifi THEN WithWireless(StationTlvs(a), a, flag) ELSE StationTlvs(a))
    BY DEF answerHello, WithLast, WithWireless, StationTlvs
<1>4. sendHelloMessageEx(a, flag) =
         WithLast(IF flag THEN WithWireless(StationTlvs(a), a, TRUE) ELSE StationTlvs(a))
    BY DEF sendHelloMessageEx, WithLast, WithWireless, StationTlvs
<1> QED
    BY <1>1, <1>2, <1>3, <1>4, LastReadable DEF Built

\* What a port answers for a Hello are lengths.
LEMMA AnswersLengths ==
    ASSUME NEW p \in Ports, NEW s, s.host \in Nat, s.ssid \in Nat
    PROVE  HelloAnswers(Answers(p, s))
<1>1. /\ AtMost(s.host, 32) \in Nat /\ AtMost(s.ssid, 32) \in Nat
      /\ (IF s.host < 32 THEN s.host ELSE 0) \in Nat
    BY AtMostRange
<1>2. CASE p = "Darwin"
    BY <1>1, <1>2 DEF Answers, DarwinAnswers, HelloAnswers
<1>3. CASE p = "Linux"
    BY <1>1, <1>3 DEF Answers, LinuxAnswers, OtherAnswers, HelloAnswers
<1>4. CASE p = "POSIX"
    BY <1>1, <1>4 DEF Answers, PosixAnswers, OtherAnswers, HelloAnswers
<1>5. CASE p = "Windows"
    BY <1>1, <1>5 DEF Answers, WindowsAnswers, OtherAnswers, HelloAnswers
<1> QED
    BY <1>2, <1>3, <1>4, <1>5 DEF Ports

-----------------------------------------------------------------------------
(* The steps keep the types.                                               *)

\* What a query for a part makes of the reading, by whether it fetched the
\* data and the response got lost.
Asked(fetched, lost) ==
    LET a == Answers(port, sys)
        data == Data(a, read.what, fetched)
    IN  [IF lost THEN read ELSE Got(data, Part(data, read.offset, MaxPayload(a.mtu)))
         EXCEPT !.settled = @ /\ (fetched \/ lost \/ read.what = "icon")]

\* The data of a query is what is read, or nothing when fetching it failed;
\* the icon is what the cache holds after the query.
LEMMA DataFacts ==
    ASSUME TypeOK, read.what # "none", NEW fetched \in BOOLEAN
    PROVE  LET a == Answers(port, sys)
               data == Data(a, read.what, fetched)
           IN  /\ data \in Datum
               /\ read.what = "icon" =>
                     /\ data = Cached(a, fetched) /\ data \in Versioned \cup {NoData}
                     /\ cache.size # 0 => data = cache
               /\ read.what # "icon" =>
                     data = IF fetched THEN Source(read.what, cache, a) ELSE NoData
<1> DEFINE a == Answers(port, sys)
           data == Data(a, read.what, fetched)
<1>1. /\ a.icon \in Versioned \cup {NoData} /\ a.name \in Datum /\ a.hwid \in Datum
    BY AnswersTypes DEF TypeOK
<1>2. cache \in Versioned \cup {NoData} /\ read.what \in Kinds
    BY DEF TypeOK, Readings
<1>3. cache.size \in Nat
    BY <1>2, DatumTypes DEF Datum
<1> HIDE DEF a
<1>4. /\ Cached(a, fetched) \in Versioned \cup {NoData}
      /\ cache.size # 0 => Cached(a, fetched) = cache
    BY <1>1, <1>2, <1>3 DEF Cached
<1> DEFINE source == Source(read.what, cache, a)
<1>5. CASE read.what = "icon"
    <2>1. data = Cached(a, fetched)
        BY <1>5 DEF Data
    <2> QED
        BY <2>1, <1>4, <1>5, DatumTypes DEF a
<1>6. CASE read.what = "name"
    <2>1. data = (IF fetched THEN a.name ELSE NoData) /\ source = a.name
        BY <1>6 DEF Data, Source
    <2>2. data \in Datum
        BY <2>1, <1>1, DatumTypes
    <2> QED
        BY <2>1, <2>2, <1>6 DEF a
<1>7. CASE read.what = "hwid"
    <2>1. data = (IF fetched THEN a.hwid ELSE NoData) /\ source = a.hwid
        BY <1>7 DEF Data, Source
    <2>2. data \in Datum
        BY <2>1, <1>1, DatumTypes
    <2> QED
        BY <2>1, <2>2, <1>7 DEF a
<1> QED
    BY <1>2, <1>5, <1>6, <1>7 DEF Kinds, a

\* Arithmetic of the 16-bit offset.
LEMMA OffsetWraps ==
    ASSUME NEW n \in Nat
    PROVE  /\ n % OffsetBound \in Nat /\ n % OffsetBound < OffsetBound
           /\ n < OffsetBound => n % OffsetBound = n
    BY DEF OffsetBound

\* A reading field by field, when only whether it is settled may change.
LEMMA SettledFields ==
    ASSUME NEW r \in Readings, NEW settled \in BOOLEAN,
           NEW q, q = [r EXCEPT !.settled = settled]
    PROVE  /\ q \in Readings
           /\ q.what = r.what /\ q.offset = r.offset /\ q.versions = r.versions
           /\ q.total = r.total /\ q.parts = r.parts /\ q.settled = settled /\ q.over = r.over
    BY DEF Readings

\* What a query makes of the reading, field by field; the types are kept.
AskedFacts(fetched, lost) ==
    LET a == Answers(port, sys)
        data == Data(a, read.what, fetched)
        part == Part(data, read.offset, MaxPayload(a.mtu))
        next == Asked(fetched, lost)
    IN  /\ next \in Readings /\ next.offset < OffsetBound
        /\ next.what = read.what
        /\ next.settled = (read.settled /\ (fetched \/ lost \/ read.what = "icon"))
        /\ lost => /\ next.offset = read.offset /\ next.versions = read.versions
                   /\ next.total = read.total /\ next.parts = read.parts
                   /\ next.over = read.over
        /\ ~lost => /\ next.offset = (read.offset + part.length) % OffsetBound
                    /\ next.versions = IF part.length = 0 THEN read.versions
                                       ELSE read.versions \cup {data.version}
                    /\ next.total = read.total + part.length
                    /\ next.parts = read.parts + 1
                    /\ next.over = ~part.more

LEMMA AskedTypes ==
    ASSUME TypeOK, read.what # "none", NEW fetched \in BOOLEAN, NEW lost \in BOOLEAN
    PROVE  AskedFacts(fetched, lost)
<1> DEFINE a == Answers(port, sys)
           data == Data(a, read.what, fetched)
           part == Part(data, read.offset, MaxPayload(a.mtu))
           settled == read.settled /\ (fetched \/ lost \/ read.what = "icon")
           next == Asked(fetched, lost)
<1>0. /\ read.what \in Kinds \cup {"none"} /\ read.offset \in Nat /\ read.versions \in SUBSET Nat
      /\ read.total \in Nat /\ read.parts \in Nat /\ read.settled \in BOOLEAN
      /\ read.over \in BOOLEAN /\ read.offset < OffsetBound /\ read \in Readings
    BY DEF TypeOK, Readings
<1>1. data \in Datum
    BY DataFacts
<1>2. data.size \in Nat /\ data.version \in Nat
    BY <1>1 DEF Datum
<1>3. MaxPayload(a.mtu) \in Nat /\ 0 < MaxPayload(a.mtu)
    BY AnswersTypes, PayloadRange DEF TypeOK
<1> HIDE DEF a, data
<1>4. part.length \in Nat /\ part.more \in BOOLEAN
    <2> DEFINE size == data.size
               max == MaxPayload(a.mtu)
    <2>1. size \in Nat /\ data.size = size /\ max \in Nat /\ 0 < max
        BY <1>2, <1>3
    <2> HIDE DEF size, max
    <2>2. \/ part = [length |-> max, more |-> TRUE]
          \/ /\ size > read.offset
             /\ part = [length |-> size - read.offset, more |-> FALSE]
          \/ part = [length |-> 0, more |-> FALSE]
        BY <2>1, <1>0, PartCases DEF max
    <2> HIDE DEF part
    <2>3. CASE part = [length |-> max, more |-> TRUE]
        BY <2>1, <2>3
    <2>4. CASE size > read.offset /\ part = [length |-> size - read.offset, more |-> FALSE]
        <3>1. size - read.offset \in Nat
            BY <2>1, <2>4, <1>0
        <3> QED
            BY <2>4, <3>1
    <2>5. CASE part = [length |-> 0, more |-> FALSE]
        BY <2>5
    <2> QED
        BY <2>2, <2>3, <2>4, <2>5
<1> HIDE DEF part
<1>5. settled \in BOOLEAN
    BY <1>0
<1> HIDE DEF settled, next
<1>6. CASE lost
    <2>1. next = [read EXCEPT !.settled = settled]
        BY <1>6 DEF Asked, settled, next
    <2>2. /\ next \in Readings
          /\ next.what = read.what /\ next.offset = read.offset /\ next.versions = read.versions
          /\ next.total = read.total /\ next.parts = read.parts
          /\ next.settled = settled /\ next.over = read.over
        BY <2>1, <1>0, <1>5, SettledFields
    <2> QED
        BY <2>2, <1>0, <1>6 DEF AskedFacts, next, settled
<1>7. CASE ~lost
    <2> DEFINE versions == IF part.length = 0 THEN read.versions
                                              ELSE read.versions \cup {data.version}
               offset == (read.offset + part.length) % OffsetBound
               total == read.total + part.length
               parts == read.parts + 1
               over == ~part.more
               asked == Got(data, part)
    <2>1. versions \in SUBSET Nat
        BY <1>0, <1>2
    <2>2. read.offset + part.length \in Nat
        BY <1>0, <1>4
    <2>3. offset \in Nat /\ offset < OffsetBound
        BY <2>2, OffsetWraps
    <2>4. total \in Nat /\ parts \in Nat
        BY <1>0, <1>4
    <2>5. over \in BOOLEAN
        OBVIOUS
    <2>6. next = [asked EXCEPT !.settled = @ /\ (fetched \/ lost \/ read.what = "icon")]
        BY <1>7 DEF Asked, part, data, a, next
    <2>7. asked = [read EXCEPT !.offset = offset, !.parts = parts, !.versions = versions,
                               !.total = total, !.over = over]
        BY DEF Got
    <2> HIDE DEF versions, offset, total, parts, over, asked
    <2>8. /\ asked \in Readings /\ asked.what = read.what /\ asked.offset = offset
          /\ asked.versions = versions /\ asked.total = total /\ asked.parts = parts
          /\ asked.settled = read.settled /\ asked.over = over
        <3>1. read \in Readings
            BY <1>0
        <3> QED
            BY ONLY <3>1, <2>1, <2>3, <2>4, <2>5, <2>7 DEF Readings
    <2>9. next = [asked EXCEPT !.settled = settled]
        BY <2>6, <2>8 DEF settled
    <2>10. /\ next \in Readings /\ next.what = read.what /\ next.offset = offset
           /\ next.versions = versions /\ next.total = total /\ next.parts = parts
           /\ next.settled = settled /\ next.over = over
        BY <2>8, <2>9, <1>5, SettledFields
    <2>11. next.offset < OffsetBound
        BY <2>3, <2>10
    <2> QED
        BY <2>10, <2>11, <1>7
        DEF AskedFacts, next, settled, versions, offset, total, parts, over, part, data, a
<1> QED
    BY <1>6, <1>7

-----------------------------------------------------------------------------
(* A query.                                                                *)

\* A query as these lemmas see it.
LEMMA QueryAsks ==
    ASSUME TypeOK, Query
    PROVE  /\ read.what \in Kinds /\ ~read.over
           /\ port' = port /\ sys' = sys /\ hello' = hello
           /\ \E fetched, lost \in BOOLEAN :
                 /\ cache' = IF read.what = "icon" THEN Data(Answers(port, sys), read.what, fetched)
                                                   ELSE cache
                 /\ read' = Asked(fetched, lost)
                 /\ AskedFacts(fetched, lost)
<1>1. read.what \in Kinds /\ read.what # "none" /\ ~read.over
    BY DEF Query, TypeOK, Readings
<1>2. PICK fetched \in BOOLEAN, lost \in BOOLEAN :
         /\ cache' = IF read.what = "icon" THEN Data(Answers(port, sys), read.what, fetched)
                                           ELSE cache
         /\ read' = Asked(fetched, lost)
    BY DEF Query, Asked
<1>3. AskedFacts(fetched, lost)
    BY <1>1, AskedTypes
<1> QED
    BY <1>1, <1>2, <1>3 DEF Query

LEMMA QueryTypes ==
    ASSUME TypeOK, Query
    PROVE  TypeOK'
<1>1. PICK fetched \in BOOLEAN, lost \in BOOLEAN :
         /\ cache' = IF read.what = "icon" THEN Data(Answers(port, sys), read.what, fetched)
                                           ELSE cache
         /\ read' = Asked(fetched, lost)
         /\ AskedFacts(fetched, lost)
    BY QueryAsks
<1>2. read' \in Readings /\ read'.offset < OffsetBound
    BY <1>1 DEF AskedFacts
<1>3. read.what # "none"
    BY QueryAsks DEF Kinds
<1>4. cache' \in Versioned \cup {NoData}
    BY <1>1, <1>3, DataFacts DEF TypeOK
<1> QED
    BY <1>2, <1>4, QueryAsks DEF TypeOK

\* The steady part of a reading: one version, the one there is.
LEMMA QuerySource ==
    ASSUME TypeOK, Started, Steady, Query, read.settled, read.versions # {}
    PROVE  Current' = Current
<1>1. PICK fetched \in BOOLEAN, lost \in BOOLEAN :
         cache' = IF read.what = "icon" THEN Data(Answers(port, sys), read.what, fetched)
                                        ELSE cache
    BY QueryAsks
<1>2. read.what \in Kinds /\ read.what # "none" /\ ~read.over /\ read'.what = read.what
    <2>1. \E f, l \in BOOLEAN : read' = Asked(f, l) /\ AskedFacts(f, l)
        BY QueryAsks
    <2>2. read'.what = read.what
        BY <2>1 DEF AskedFacts
    <2> QED
        BY <2>2, QueryAsks DEF Kinds
<1>3. Current' = Source(read.what, cache', Answers(port, sys))
    BY <1>2, QueryAsks DEF Current
<1>4. CASE read.what # "icon"
    BY <1>1, <1>3, <1>4 DEF Current
<1>5. CASE read.what = "icon"
    <2>1. Current = cache
        BY <1>5 DEF Current, Source
    <2>2. cache.size \in Nat
        BY DatumTypes DEF TypeOK, Datum
    <2>3. Current.size <= OffsetBound => read.total < Current.size
        BY <1>2 DEF Steady
    <2>4. read.total \in Nat
        BY DEF TypeOK, Readings
    <2> DEFINE size == cache.size
               total == read.total
    <2>5. size # 0
        <3>1. size \in Nat /\ total \in Nat /\ (size <= OffsetBound => total < size)
            BY <2>1, <2>2, <2>3, <2>4
        <3> HIDE DEF size, total
        <3> QED
            BY ONLY <3>1 DEF OffsetBound
    <2>6. Data(Answers(port, sys), read.what, fetched) = cache
        BY <2>5, <1>2, <1>5, DataFacts
    <2>7. cache' = cache
        BY <1>1, <1>5, <2>6
    <2> QED
        BY <1>3, <2>7 DEF Current
<1> QED
    BY <1>4, <1>5

\* A query that loses its response reads nothing.
LEMMA LostQuery ==
    ASSUME TypeOK, Started, Steady, Query, NEW fetched \in BOOLEAN,
           AskedFacts(fetched, TRUE), read' = Asked(fetched, TRUE)
    PROVE  Started' /\ Steady' /\ Finished'
<1>1. /\ read'.what = read.what /\ read'.offset = read.offset
      /\ read'.versions = read.versions /\ read'.total = read.total
      /\ read'.over = read.over /\ (read'.settled => read.settled)
    BY DEF AskedFacts
<1>2. read.what \in Kinds /\ ~read.over /\ read.what # "none"
    BY QueryAsks DEF Kinds
<1>3. read.settled /\ read.versions # {} => Current' = Current
    BY QuerySource
<1>4. Started'
    BY <1>1 DEF Started
<1>5. Steady'
    <2>1. ASSUME read'.settled, read'.versions # {}
          PROVE  /\ read'.versions = {Current'.version}
                 /\ Current'.size <= OffsetBound =>
                       read'.offset = read'.total /\ read'.total < Current'.size
        BY <2>1, <1>1, <1>2, <1>3 DEF Steady
    <2> QED
        BY <2>1 DEF Steady
<1>6. Finished'
    BY <1>1, <1>2 DEF Finished
<1> QED
    BY <1>4, <1>5, <1>6

\* A query whose response arrives: a full part, the last part, or nothing.
LEMMA AnsweredQuery ==
    ASSUME TypeOK, Started, Steady, Query, NEW fetched \in BOOLEAN,
           cache' = IF read.what = "icon" THEN Data(Answers(port, sys), read.what, fetched)
                                          ELSE cache,
           AskedFacts(fetched, FALSE), read' = Asked(fetched, FALSE)
    PROVE  Started' /\ Steady' /\ Finished'
<1> DEFINE a == Answers(port, sys)
           data == Data(a, read.what, fetched)
           max == MaxPayload(a.mtu)
           part == Part(data, read.offset, max)
           size == data.size
           version == data.version
           offset == read.offset
           total == read.total
<1>1. read.what \in Kinds /\ ~read.over /\ read.what # "none" /\ port' = port /\ sys' = sys
    BY QueryAsks DEF Kinds
<1>2. /\ read'.what = read.what
      /\ read'.settled = (read.settled /\ (fetched \/ read.what = "icon"))
      /\ read'.offset = (read.offset + part.length) % OffsetBound
      /\ read'.versions = IF part.length = 0 THEN read.versions
                          ELSE read.versions \cup {data.version}
      /\ read'.total = read.total + part.length
      /\ read'.over = ~part.more
    BY DEF AskedFacts
<1>3. data \in Datum /\ (read.what = "icon" => data \in Versioned \cup {NoData})
    BY <1>1, DataFacts
<1>4. size \in Nat /\ version \in Nat
    BY <1>3 DEF Datum
<1>5. read.what = "icon" /\ size # 0 => version # 0
    BY <1>3 DEF Versioned, NoData
<1>6. read'.settled => data = Current'
    <2>1. Current' = Source(read.what, cache', a)
        BY <1>1, <1>2 DEF Current
    <2>2. CASE read.what = "icon"
        BY <2>1, <2>2 DEF Source
    <2>3. CASE read.what # "icon"
        <3>1. cache' = cache /\ (read'.settled => fetched)
            BY <2>3, <1>2
        <3>2. data = IF fetched THEN Source(read.what, cache, a) ELSE NoData
            BY <2>3, <1>1, DataFacts
        <3> QED
            BY <2>1, <3>1, <3>2
    <2> QED
        BY <2>2, <2>3
<1>7. /\ offset \in Nat /\ offset < OffsetBound /\ total \in Nat /\ read.versions \in SUBSET Nat
      /\ read.settled \in BOOLEAN
    BY DEF TypeOK, Readings
<1>8. max \in Nat /\ 0 < max
    BY AnswersTypes, PayloadRange DEF TypeOK
<1>9. read.versions = {} => total = 0 /\ offset = 0
    BY DEF Started
\* What was read before is of the data that is read now.
<1>10. ASSUME read'.settled, read.versions # {}
       PROVE  /\ read.versions = {version}
              /\ size <= OffsetBound => offset = total /\ total < size
    <2>1. read.settled
        BY <1>2, <1>10
    <2>2. Current' = Current
        BY <2>1, <1>10, QuerySource
    <2>3. data = Current
        BY <2>2, <1>6, <1>10
    <2> QED
        BY <2>1, <2>3, <1>1, <1>10 DEF Steady
<1>11. \/ /\ size > offset + max
          /\ part = [length |-> max, more |-> TRUE]
       \/ /\ size > offset /\ size <= offset + max
          /\ part = [length |-> size - offset, more |-> FALSE]
       \/ /\ size <= offset
          /\ part = [length |-> 0, more |-> FALSE]
    BY <1>4, <1>7, <1>8, PartCases
<1>12. read'.over => read'.what # "none"
    BY <1>1, <1>2
<1> DEFINE Now == /\ size = Current'.size /\ version = Current'.version
<1>13. read'.settled => Now
    BY <1>6
<1> HIDE DEF a, data, max, part, size, version, offset, total, Now
\* A full part.
<1>14. CASE size > offset + max /\ part = [length |-> max, more |-> TRUE]
    <2>1. /\ read'.offset = (offset + max) % OffsetBound
          /\ read'.versions = read.versions \cup {version}
          /\ read'.total = total + max /\ ~read'.over
        <3>1. part.length = max /\ part.more = TRUE
            BY <1>14
        <3>2. max # 0
            BY <1>8
        <3> QED
            BY <3>1, <3>2, <1>2 DEF offset, total, version
    <2>2. read.what = "icon" => version # 0
        BY <1>4, <1>5, <1>7, <1>8, <1>14
    <2>3. Started'
        BY <2>1, <2>2, <1>2, <1>12 DEF Started
    <2>4. ASSUME read'.settled
          PROVE  /\ read'.versions = {version}
                 /\ size <= OffsetBound => read'.offset = read'.total /\ read'.total < size
        <3>1. read'.versions = {version}
            BY <2>1, <2>4, <1>10
        <3>2. size <= OffsetBound => offset = total
            BY <2>4, <1>9, <1>10
        <3>3. size <= OffsetBound => offset + max < OffsetBound
            BY ONLY <1>14, <1>4, <1>7, <1>8 DEF OffsetBound
        <3>4. size <= OffsetBound => (offset + max) % OffsetBound = offset + max
            BY <3>3, <1>7, <1>8, OffsetWraps
        <3> QED
            BY <3>1, <3>2, <3>4, <2>1, <1>14
    <2>5. Steady'
        BY <2>4, <1>13 DEF Steady, Now
    <2>6. Finished'
        BY <2>1 DEF Finished
    <2> QED
        BY <2>3, <2>5, <2>6
\* The last part.
<1>15. CASE size > offset /\ size <= offset + max /\ part = [length |-> size - offset, more |-> FALSE]
    <2>1. size - offset \in Nat /\ size - offset # 0
        BY <1>4, <1>7, <1>15
    <2>2. /\ read'.versions = read.versions \cup {version}
          /\ read'.total = total + (size - offset) /\ read'.over
        BY <2>1, <1>2, <1>15 DEF offset, total, version
    <2>3. read.what = "icon" => version # 0
        BY <1>4, <1>5, <1>7, <1>15
    <2>4. Started'
        BY <2>2, <2>3, <1>2, <1>12 DEF Started
    <2>5. ASSUME read'.settled
          PROVE  /\ read'.versions = {version}
                 /\ size <= OffsetBound => read'.total = size
        <3>1. read'.versions = {version}
            BY <2>2, <2>5, <1>10
        <3>2. size <= OffsetBound => offset = total
            BY <2>5, <1>9, <1>10
        <3>3. offset = total => total + (size - offset) = size
            BY <1>4, <1>7
        <3> QED
            BY <3>1, <3>2, <3>3, <2>2
    <2>6. Finished'
        BY <2>5, <1>13 DEF Finished, Now
    <2>7. Steady'
        BY <2>2 DEF Steady
    <2> QED
        BY <2>4, <2>6, <2>7
\* Nothing beyond the offset: nothing was there from the start.
<1>16. CASE size <= offset /\ part = [length |-> 0, more |-> FALSE]
    <2>1. /\ read'.offset = (offset + 0) % OffsetBound
          /\ read'.versions = read.versions
          /\ read'.total = total + 0 /\ read'.over
        BY <1>2, <1>16 DEF offset, total
    <2>2. (offset + 0) % OffsetBound = offset /\ total + 0 = total
        <3>1. offset + 0 = offset /\ total + 0 = total
            BY <1>7
        <3> QED
            BY <3>1, <1>7, OffsetWraps
    <2>3. Started'
        BY <2>1, <2>2, <1>2, <1>9, <1>12 DEF Started, offset, total
    <2>4. read'.settled => read'.versions = {}
        <3>1. ASSUME read'.settled, read.versions # {}
              PROVE  FALSE
            <4>1. size <= OffsetBound => offset = total /\ total < size
                BY <3>1, <1>10
            <4> QED
                BY ONLY <4>1, <1>4, <1>7, <1>16 DEF OffsetBound
        <3> QED
            BY <3>1, <2>1
    <2>5. Finished'
        BY <2>4 DEF Finished
    <2>6. Steady'
        BY <2>1 DEF Steady
    <2> QED
        BY <2>3, <2>5, <2>6
<1> QED
    BY <1>11, <1>14, <1>15, <1>16

LEMMA QueryKeeps ==
    ASSUME TypeOK, Started, Steady, Query
    PROVE  Started' /\ Steady' /\ Finished'
<1>1. PICK fetched \in BOOLEAN, lost \in BOOLEAN :
         /\ cache' = IF read.what = "icon" THEN Data(Answers(port, sys), read.what, fetched)
                                           ELSE cache
         /\ read' = Asked(fetched, lost)
         /\ AskedFacts(fetched, lost)
    BY QueryAsks
<1>2. CASE lost = TRUE
    BY <1>1, <1>2, LostQuery
<1>3. CASE lost = FALSE
    BY <1>1, <1>3, AnsweredQuery
<1> QED
    BY <1>2, <1>3

-----------------------------------------------------------------------------
(* The other steps.                                                        *)

\* What is read of a system is typed, whatever is read.
LEMMA CurrentTypes ==
    ASSUME TypeOK, read.what # "none"
    PROVE  Current \in Datum
<1>1. read.what \in Kinds /\ cache \in Datum
    BY DatumTypes DEF TypeOK, Readings
<1> QED
    BY <1>1, SourceTypes DEF TypeOK, Current

\* What happens between two parts: what there is now may only change under
\* a reading that is no longer settled, or after its end to a later version
\* or, when it is the icon, to nothing.
Replaced ==
    \/ Current' = Current
    \/ Current.version > 0 /\ Current'.version > Current.version
    \/ read.what = "icon" /\ Current'.version = 0

LEMMA BetweenParts ==
    ASSUME TypeOK, Started, Steady, Finished,
           read'.what = read.what, read'.offset = read.offset,
           read'.versions = read.versions, read'.total = read.total,
           read'.over = read.over,
           read'.settled => read.settled,
           read'.settled /\ ~read.over /\ read.what # "none" => Current' = Current,
           read'.settled /\ read.over => Replaced,
           read.over => Current'.version \in Nat
    PROVE  Started' /\ Steady' /\ Finished'
<1>1. Started'
    BY DEF Started
<1>2. Steady'
    <2>1. ASSUME read'.what # "none", ~read'.over, read'.settled, read'.versions # {}
          PROVE  /\ read'.versions = {Current'.version}
                 /\ Current'.size <= OffsetBound =>
                       read'.offset = read'.total /\ read'.total < Current'.size
        <3>1. Current' = Current /\ read.settled
            BY <2>1
        <3> QED
            BY <2>1, <3>1 DEF Steady
    <2> QED
        BY <2>1 DEF Steady
<1>3. Finished'
    <2>1. SUFFICES ASSUME read'.over, read'.settled, read'.versions # {}
                   PROVE  \E v \in read'.versions :
                             /\ read'.versions = {v}
                             /\ \/ /\ v = Current'.version
                                   /\ Current'.size <= OffsetBound => read'.total = Current'.size
                                \/ v < Current'.version
                                \/ v > 0 /\ Current'.version = 0
        BY DEF Finished
    <2>2. read.over /\ read.settled /\ read.what # "none" /\ Replaced
        BY <2>1 DEF Started
    <2>3. PICK v \in read.versions :
             /\ read.versions = {v}
             /\ \/ v = Current.version /\ (Current.size <= OffsetBound => read.total = Current.size)
                \/ v < Current.version
                \/ v > 0 /\ Current.version = 0
        BY <2>1, <2>2 DEF Finished
    <2> DEFINE before == Current.version
               now == Current'.version
    <2>4. v \in Nat /\ before \in Nat /\ now \in Nat
        BY <2>2, <2>3, CurrentTypes DEF TypeOK, Readings, Datum
    <2>5. CASE Current' = Current
        BY <2>3, <2>5
    <2>6. CASE before > 0 /\ now > before
        <3>1. v <= before
            BY <2>3, <2>4, <2>6
        <3>2. v < now
            BY <3>1, <2>4, <2>6
        <3> QED
            BY <2>3, <3>2
    <2>7. CASE read.what = "icon" /\ now = 0
        <3>1. v # 0
            BY <2>3, <2>7 DEF Started
        <3>2. v > 0
            BY <3>1, <2>4
        <3> QED
            BY <2>3, <2>7, <3>2
    <2> QED
        BY <2>2, <2>5, <2>6, <2>7 DEF Replaced
<1> QED
    BY <1>1, <1>2, <1>3

LEMMA NoFrameBuilt == Built(NoFrame)
    BY DEF Built, NoFrame

LEMMA HelloHeard ==
    ASSUME TypeOK, Hello
    PROVE  HellosBuilt'
<1>1. PICK host \in NameLengths, ssid \in NameLengths, bssid \in BOOLEAN, is80211 \in BOOLEAN,
           modeAgain \in BOOLEAN :
         LET a == Answers(port, [sys EXCEPT !.host = host, !.ssid = ssid, !.bssid = bssid])
         IN  hello' = [reply |-> answerHello(a, modeAgain \/ port = "Darwin"),
                       timed |-> IF port = "Darwin" THEN sendHelloMessageEx(a, is80211) ELSE NoFrame,
                       is80211 |-> is80211]
    BY DEF Hello
<1> DEFINE s == [sys EXCEPT !.host = host, !.ssid = ssid, !.bssid = bssid]
           a == Answers(port, s)
<1>2. /\ hello'.reply = answerHello(a, modeAgain \/ port = "Darwin")
      /\ hello'.timed = IF port = "Darwin" THEN sendHelloMessageEx(a, is80211) ELSE NoFrame
      /\ hello'.is80211 = is80211
    BY <1>1
<1>3. s.host \in Nat /\ s.ssid \in Nat
    <2>1. sys \in Systems /\ host \in Nat /\ ssid \in Nat
        BY HostAssumption DEF TypeOK
    <2> QED
        BY <2>1 DEF Systems
<1> HIDE DEF s
<1>4. HelloAnswers(a)
    BY <1>3, AnswersLengths DEF TypeOK
<1> DEFINE flag == modeAgain \/ port = "Darwin"
<1> HIDE DEF a
<1>5. flag \in BOOLEAN
    OBVIOUS
<1> HIDE DEF flag
<1>6. Built(answerHello(a, flag)) /\ Built(sendHelloMessageEx(a, is80211))
    BY <1>4, <1>5, HelloBuilt
<1>7. Built(hello'.reply) /\ Built(hello'.timed)
    BY <1>2, <1>6, NoFrameBuilt DEF flag
<1> QED
    BY <1>7 DEF HellosBuilt

-----------------------------------------------------------------------------
(* The invariant holds.                                                    *)

LEMMA NoReadingTypes ==
    /\ NoReading \in Readings /\ NoReading.offset < OffsetBound
    /\ NoReading.versions = {} /\ NoReading.total = 0 /\ NoReading.offset = 0
    /\ NoReading.what = "none" /\ ~NoReading.over
    BY DEF NoReading, Readings, OffsetBound

LEMMA InitInv ==
    ASSUME Init
    PROVE  Inv
<1>1. sys \in Systems
    <2>0. IconSizes \subseteq Nat
        BY HostAssumption
    <2>1. ASSUME NEW data \in [version : {1}, size : IconSizes]
          PROVE  data \in Versioned
        <3>1. data = [version |-> 1, size |-> data.size] /\ data.size \in Nat
            BY <2>0
        <3>2. 1 \in Nat \ {0}
            OBVIOUS
        <3> QED
            BY <3>1, <3>2 DEF Versioned
    <2>2. [version : {1}, size : IconSizes \ {0}] \subseteq [version : {1}, size : IconSizes]
        OBVIOUS
    <2> QED
        BY <2>1, <2>2 DEF Init, Systems, HardwareIds
<1>2. TypeOK
    BY <1>1, NoReadingTypes DEF Init, TypeOK
<1>3. Started /\ Steady /\ Finished
    BY NoReadingTypes DEF Init, Started, Steady, Finished
<1>4. HellosBuilt
    BY NoFrameBuilt DEF Init, HellosBuilt, NoHello
<1> QED
    BY <1>2, <1>3, <1>4 DEF Inv

LEMMA BeginKeeps ==
    ASSUME Inv, Begin
    PROVE  Inv'
<1>1. PICK what \in Kinds : read' = [NoReading EXCEPT !.what = what]
    BY DEF Begin
<1>2. /\ read' \in Readings /\ read'.offset = 0 /\ read'.versions = {} /\ read'.total = 0
      /\ ~read'.over
    BY <1>1 DEF NoReading, Readings
<1>3. TypeOK'
    BY <1>2 DEF Begin, Inv, TypeOK, OffsetBound
<1>4. Started' /\ Steady' /\ Finished'
    BY <1>2 DEF Started, Steady, Finished
<1>5. HellosBuilt'
    BY NoFrameBuilt DEF Begin, HellosBuilt, NoHello
<1> QED
    BY <1>3, <1>4, <1>5 DEF Inv

LEMMA GiveUpKeeps ==
    ASSUME Inv, GiveUp
    PROVE  Inv'
<1>1. TypeOK'
    BY NoReadingTypes DEF GiveUp, Inv, TypeOK
<1>2. Started' /\ Steady' /\ Finished'
    BY NoReadingTypes DEF GiveUp, Started, Steady, Finished
<1>3. HellosBuilt'
    BY DEF GiveUp, Inv, HellosBuilt
<1> QED
    BY <1>1, <1>2, <1>3 DEF Inv

LEMMA HelloKeeps ==
    ASSUME Inv, Hello
    PROVE  Inv'
<1>1. port' = port /\ sys' = sys /\ cache' = cache /\ read' = read
    BY DEF Hello
<1>2. TypeOK' /\ Started'
    BY <1>1 DEF Inv, TypeOK, Started
<1>3. Current' = Current
    BY <1>1 DEF Current
<1>4. Steady' /\ Finished'
    BY <1>1, <1>3 DEF Inv, Steady, Finished
<1> QED
    BY <1>2, <1>4, HelloHeard DEF Inv

LEMMA QueryInv ==
    ASSUME Inv, Query
    PROVE  Inv'
<1>1. TypeOK' /\ Started' /\ Steady' /\ Finished'
    BY QueryTypes, QueryKeeps DEF Inv
<1>2. HellosBuilt'
    BY QueryAsks DEF Inv, HellosBuilt
<1> QED
    BY <1>1, <1>2 DEF Inv

\* A Reset empties the cache: an icon that is being read is settled no more.
LEMMA ResetKeeps ==
    ASSUME Inv, Reset
    PROVE  Inv'
<1> DEFINE settled == read.settled /\ (read.what # "icon" \/ read.over)
<1>1. /\ read' = [read EXCEPT !.settled = settled] /\ cache' = NoData
      /\ port' = port /\ sys' = sys /\ hello' = hello
    BY DEF Reset
<1>2. settled \in BOOLEAN /\ (settled => read.settled)
    BY DEF Inv, TypeOK, Readings
<1>3. settled /\ ~read.over => read.what # "icon"
    OBVIOUS
<1> HIDE DEF settled
<1>4. /\ read' \in Readings
      /\ read'.what = read.what /\ read'.offset = read.offset /\ read'.versions = read.versions
      /\ read'.total = read.total /\ read'.settled = settled /\ read'.over = read.over
    BY <1>1, <1>2, SettledFields DEF Inv, TypeOK
<1>5. TypeOK'
    BY <1>1, <1>4 DEF Inv, TypeOK
<1>6. read.what \in Kinds \ {"icon"} => Current' = Current
    BY <1>1, <1>4 DEF Current, Source, Kinds
<1>7. read.what = "icon" => Current' = NoData
    BY <1>1, <1>4 DEF Current, Source
<1>8. read.what \in Kinds \cup {"none"} /\ (read.over => read.what # "none")
    BY DEF Inv, TypeOK, Readings, Started
<1>9. read.over => Replaced
    BY <1>6, <1>7, <1>8 DEF Replaced, NoData
<1>10. read.over => Current'.version \in Nat
    <2>1. read.over => Current' \in Datum
        BY <1>6, <1>7, <1>8, CurrentTypes, DatumTypes DEF Inv
    <2> QED
        BY <2>1 DEF Datum
<1>11. Started' /\ Steady' /\ Finished'
    <2>1. read'.settled /\ ~read.over /\ read.what # "none" => Current' = Current
        BY <1>3, <1>4, <1>6, <1>8
    <2> QED
        BY <2>1, <1>2, <1>4, <1>9, <1>10, BetweenParts DEF Inv
<1>12. HellosBuilt'
    BY <1>1 DEF Inv, HellosBuilt
<1> QED
    BY <1>5, <1>11, <1>12 DEF Inv

\* The icon or the name changes: what is read of it is settled no more, but
\* for the icon, which is read from the cache.
LEMMA ChangedTypes ==
    ASSUME NEW data \in Versioned, NEW new \in Changed(data)
    PROVE  new \in Versioned /\ new.version > data.version
<1>1. PICK s \in IconSizes : new = [version |-> data.version + 1, size |-> s]
    BY DEF Changed
<1>2. data.version \in Nat \ {0} /\ s \in Nat
    BY HostAssumption DEF Versioned
<1>3. data.version + 1 \in Nat \ {0} /\ data.version + 1 > data.version
    BY <1>2
<1>4. new.version = data.version + 1
    BY <1>1
<1>5. new \in Versioned
    BY <1>1, <1>2, <1>3 DEF Versioned
<1> QED
    BY <1>3, <1>4, <1>5

\* Either change, as the reading sees it.
LEMMA ChangeFacts ==
    ASSUME Inv, Change
    PROVE  /\ port' = port /\ cache' = cache /\ hello' = NoHello
           /\ sys' \in Systems /\ sys'.hwid = sys.hwid
           /\ sys'.name = sys.name \/ sys'.name.version > sys.name.version
           /\ read' \in Readings
           /\ read'.what = read.what /\ read'.offset = read.offset
           /\ read'.versions = read.versions /\ read'.total = read.total
           /\ read'.over = read.over
           /\ read'.settled => read.settled
           /\ read'.settled /\ ~read.over /\ read.what = "name" =>
                 sys'.name = sys.name \/ port # "Darwin"
<1>1. sys \in Systems /\ read \in Readings /\ read.settled \in BOOLEAN
    BY DEF Inv, TypeOK, Readings
<1>2. sys.icon \in Versioned /\ sys.name \in Versioned
    BY <1>1, SystemTypes
<1>3. port' = port /\ cache' = cache /\ hello' = NoHello
    BY DEF Change
<1>4. ASSUME NEW icon \in Changed(sys.icon), sys' = [sys EXCEPT !.icon = icon], read' = read
      PROVE  /\ sys' \in Systems /\ sys'.hwid = sys.hwid /\ sys'.name = sys.name
             /\ read' \in Readings
    <2>1. icon \in Versioned
        BY <1>2, ChangedTypes
    <2> QED
        BY <2>1, <1>1, <1>4 DEF Systems
<1> DEFINE settled == read.settled /\ (read.what # "name" \/ read.over \/ port # "Darwin")
<1>5. settled \in BOOLEAN /\ (settled => read.settled)
    BY <1>1
<1>6. settled /\ ~read.over /\ read.what = "name" => port # "Darwin"
    OBVIOUS
<1> HIDE DEF settled
<1>7. ASSUME NEW name \in Changed(sys.name), sys' = [sys EXCEPT !.name = name],
             read' = [read EXCEPT !.settled = settled]
      PROVE  /\ sys' \in Systems /\ sys'.hwid = sys.hwid
             /\ sys'.name.version > sys.name.version
             /\ read' \in Readings
             /\ read'.what = read.what /\ read'.offset = read.offset
             /\ read'.versions = read.versions /\ read'.total = read.total
             /\ read'.over = read.over /\ read'.settled = settled
    <2>1. name \in Versioned /\ name.version > sys.name.version
        BY <1>2, ChangedTypes
    <2>2. sys' \in Systems /\ sys'.hwid = sys.hwid /\ sys'.name = name
        BY <2>1, <1>1, <1>7 DEF Systems
    <2> QED
        BY <2>1, <2>2, <1>1, <1>5, <1>7, SettledFields
<1>8. \/ \E icon \in Changed(sys.icon) : sys' = [sys EXCEPT !.icon = icon] /\ read' = read
      \/ \E name \in Changed(sys.name) :
            sys' = [sys EXCEPT !.name = name] /\ read' = [read EXCEPT !.settled = settled]
    BY DEF Change, settled
<1>9. CASE \E icon \in Changed(sys.icon) : sys' = [sys EXCEPT !.icon = icon] /\ read' = read
    BY <1>3, <1>4, <1>9
<1>10. CASE \E name \in Changed(sys.name) :
               sys' = [sys EXCEPT !.name = name] /\ read' = [read EXCEPT !.settled = settled]
    BY <1>3, <1>5, <1>6, <1>7, <1>10
<1> QED
    BY <1>8, <1>9, <1>10

LEMMA ChangeKeeps ==
    ASSUME Inv, Change
    PROVE  Inv'
<1>1. TypeOK'
    BY ChangeFacts DEF Inv, TypeOK
<1>2. HellosBuilt'
    BY ChangeFacts, NoFrameBuilt DEF HellosBuilt, NoHello
<1>3. /\ port \in Ports /\ sys \in Systems /\ sys' \in Systems
      /\ cache \in Datum /\ read.what \in Kinds \cup {"none"}
      /\ read.over => read.what # "none"
    BY ChangeFacts, DatumTypes DEF Inv, TypeOK, Readings, Started
<1>4. Current' = Source(read.what, cache, Answers(port, sys'))
    BY ChangeFacts DEF Current
<1>5. read.what = "icon" => Current' = Current
    BY <1>4 DEF Current, Source
<1>6. read.what = "hwid" => Current' = Current
    BY <1>3, <1>4, ChangeFacts, NameGrows DEF Current, Source
<1>7. read.what = "name" =>
         \/ Current' = Current
         \/ Current.version > 0 /\ Current'.version > Current.version
    <2>1. \/ Answers(port, sys').name = Answers(port, sys).name
          \/ /\ Answers(port, sys).name.version > 0
             /\ Answers(port, sys').name.version > Answers(port, sys).name.version
        BY <1>3, ChangeFacts, NameGrows
    <2>2. read.what = "name" =>
             Current' = Answers(port, sys').name /\ Current = Answers(port, sys).name
        BY <1>4 DEF Current, Source
    <2> QED
        BY <2>1, <2>2
<1>8. read'.settled /\ ~read.over /\ read.what # "none" => Current' = Current
    <2>1. ASSUME read'.settled, ~read.over, read.what = "name"
          PROVE  Current' = Current
        <3>1. Answers(port, sys').name = Answers(port, sys).name
            BY <1>3, <2>1, ChangeFacts, AnswersStay
        <3> QED
            BY <1>4, <2>1, <3>1 DEF Current, Source
    <2> QED
        BY <2>1, <1>3, <1>5, <1>6 DEF Kinds
<1>9. read.over => Replaced
    BY <1>3, <1>5, <1>6, <1>7 DEF Replaced, Kinds
<1>10. read.over => Current'.version \in Nat
    <2>1. read.over => Current' \in Datum
        BY <1>3, <1>4, SourceTypes
    <2> QED
        BY <2>1 DEF Datum
<1>11. Started' /\ Steady' /\ Finished'
    BY <1>8, <1>9, <1>10, ChangeFacts, BetweenParts DEF Inv
<1> QED
    BY <1>1, <1>2, <1>11 DEF Inv

LEMMA InvStep ==
    ASSUME Inv, [Next]_vars
    PROVE  Inv'
<1>1. CASE UNCHANGED vars
    <2>1. /\ port' = port /\ sys' = sys /\ hello' = hello /\ cache' = cache /\ read' = read
        BY <1>1 DEF vars
    <2>2. Current' = Current
        BY <2>1 DEF Current
    <2>3. TypeOK' /\ Started' /\ HellosBuilt'
        BY <2>1 DEF Inv, TypeOK, Started, HellosBuilt
    <2>4. Steady' /\ Finished'
        BY <2>1, <2>2 DEF Inv, Steady, Finished
    <2> QED
        BY <2>3, <2>4 DEF Inv
<1> QED
    BY <1>1, HelloKeeps, BeginKeeps, QueryInv, ResetKeeps, GiveUpKeeps, ChangeKeeps DEF Next

LEMMA InvHolds == Spec => []Inv
<1>1. Init => Inv
    BY InitInv
<1>2. Inv /\ [Next]_vars => Inv'
    BY InvStep
<1> QED
    BY <1>1, <1>2, PTL DEF Spec

-----------------------------------------------------------------------------
(* What a mapper can rely on.                                              *)

\* parseQueryLargeTlv: a large property that fits the 16 bits of the offset
\* and is read to its end, part by part and with the icon cached between two
\* queries, is whole and of one version, for icons and names of any size and
\* any MTU, unless what ReadWhole names happens meanwhile.
THEOREM PropertiesReadWhole == Spec => []ReadWhole
<1>1. Inv => ReadWhole
    <2>1. SUFFICES ASSUME Inv, read.over, read.settled, read.versions # {}
                   PROVE  \E v \in read.versions :
                             /\ read.versions = {v}
                             /\ v = Current.version /\ Current.size <= OffsetBound
                                   => read.total = Current.size
        BY DEF Inv, Started, ReadWhole, Current
    <2>2. PICK v \in read.versions :
             /\ read.versions = {v}
             /\ \/ v = Current.version /\ (Current.size <= OffsetBound => read.total = Current.size)
                \/ v < Current.version
                \/ v > 0 /\ Current.version = 0
        BY <2>1 DEF Inv, Finished
    <2> DEFINE now == Current.version
    <2>3. v \in Nat /\ now \in Nat
        BY <2>1, <2>2, CurrentTypes DEF Inv, TypeOK, Started, Readings, Datum
    <2>4. v = now => ~ (v < now) /\ ~ (v > 0 /\ now = 0)
        BY <2>3
    <2> QED
        BY <2>2, <2>4
<1> QED
    BY <1>1, InvHolds, PTL

\* sendLargeTlvResponse: a part that announces more to come is never empty,
\* whatever the MTU, and the offset after it is greater: the 16 bits neither
\* of the room nor of the offset wrap, if the property fits them.
THEOREM PartsBringOn == Spec => PartsAdvance
<1>1. ASSUME Inv, [Next]_vars, read'.parts > read.parts, ~read'.over,
             Source(read.what, cache', Answers(port, sys)).size <= OffsetBound
      PROVE  read'.offset > read.offset
    <2>1. read \in Readings /\ read.parts \in Nat /\ read.offset \in Nat
        BY <1>1 DEF Inv, TypeOK, Readings
    <2>2. CASE Query
        <3>0. TypeOK /\ read.what \in Kinds /\ read.what # "none"
            BY <1>1, <2>2, QueryAsks DEF Inv, Kinds
        <3>1. PICK fetched \in BOOLEAN, lost \in BOOLEAN :
                 /\ cache' = IF read.what = "icon" THEN Data(Answers(port, sys), read.what, fetched)
                                                   ELSE cache
                 /\ read' = Asked(fetched, lost)
                 /\ AskedFacts(fetched, lost)
            BY <3>0, <2>2, QueryAsks
        <3> DEFINE a == Answers(port, sys)
                   data == Data(a, read.what, fetched)
                   max == MaxPayload(a.mtu)
                   part == Part(data, read.offset, max)
                   size == data.size
                   offset == read.offset
        <3>2. ~lost
            <4>1. lost => read'.parts = read.parts
                BY <3>1 DEF AskedFacts
            <4> QED
                BY ONLY <1>1, <2>1, <4>1
        <3>3. /\ read'.offset = (offset + part.length) % OffsetBound
              /\ read'.over = ~part.more
            BY <3>1, <3>2 DEF AskedFacts
        <3>4. max \in Nat /\ 0 < max
            BY <3>0, AnswersTypes, PayloadRange DEF TypeOK
        <3>5. data \in Datum
            BY <3>0, DataFacts
        <3>6. size \in Nat
            BY <3>5 DEF Datum
        <3>7. offset \in Nat
            BY <2>1
        <3>8. \/ /\ size > offset + max
                 /\ part = [length |-> max, more |-> TRUE]
              \/ part.more = FALSE
            <4>1. \/ /\ size > offset + max
                     /\ part = [length |-> max, more |-> TRUE]
                  \/ part = [length |-> size - offset, more |-> FALSE]
                  \/ part = [length |-> 0, more |-> FALSE]
                BY <3>4, <3>6, <3>7, PartCases
            <4> HIDE DEF part
            <4> QED
                BY <4>1
        <3>9. data = Source(read.what, cache', a) \/ data = NoData
            <4>1. CASE read.what = "icon"
                BY <4>1, <3>1 DEF Source
            <4>2. CASE read.what # "icon"
                BY <4>2, <3>0, <3>1, DataFacts
            <4> QED
                BY <4>1, <4>2
        <3>10. NoData.size = 0
            BY DEF NoData
        <3> HIDE DEF data, max, part, size, offset
        <3>11. size > offset + max /\ part.length = max
            <4>1. part.more # FALSE
                BY <1>1, <3>3
            <4>2. size > offset + max /\ part = [length |-> max, more |-> TRUE]
                BY <3>8, <4>1
            <4> QED
                BY ONLY <4>2
        <3>12. size <= OffsetBound
            <4>1. size # 0
                BY <3>4, <3>6, <3>7, <3>11
            <4> QED
                BY <1>1, <3>9, <3>10, <4>1 DEF size
        <3>13. offset + max \in Nat /\ offset + max < OffsetBound
            BY ONLY <3>4, <3>6, <3>7, <3>11, <3>12 DEF OffsetBound
        <3>14. read'.offset = offset + max
            BY <3>3, <3>11, <3>13, OffsetWraps
        <3> QED
            BY <3>4, <3>7, <3>14 DEF offset
    <2>3. CASE ~Query
        <3>1. read'.parts = read.parts \/ read'.parts = 0
            <4>1. CASE UNCHANGED vars \/ Hello
                BY <4>1 DEF vars, Hello
            <4>2. CASE Begin
                BY <4>2 DEF Begin, NoReading
            <4>3. CASE Reset
                BY <4>3, <2>1 DEF Reset, Readings
            <4>4. CASE GiveUp
                BY <4>4 DEF GiveUp, NoReading
            <4>5. CASE Change
                BY <4>5, <2>1 DEF Change, Readings
            <4> QED
                BY <1>1, <2>3, <4>1, <4>2, <4>3, <4>4, <4>5 DEF Next
        <3> QED
            BY ONLY <1>1, <2>1, <3>1
    <2> QED
        BY <2>2, <2>3
<1> QED
    BY <1>1, InvHolds, PTL DEF Spec, PartsAdvance

\* answerHello, sendHelloMessageEx and the builders of lltdTlvOps.c: whatever
\* the port answers, every Hello can be walked by its length fields.
THEOREM HellosCanBeRead == Spec => []HelloReadable
<1>1. Inv => HelloReadable
    BY DEF Inv, HellosBuilt, Built, HelloReadable
<1> QED
    BY <1>1, InvHolds, PTL

\* The same functions, none of which looks at what is left of the buffer of
\* an MTU: the longest Hello they build fits each MTU that is assumed.
THEOREM HellosFitTheMtu == Spec => []HelloFits
<1>1. Inv => HelloFits
    <2>1. ASSUME Inv
          PROVE  HelloFits
        <3> DEFINE mtu == Answers(port, sys).mtu
                   reply == hello.reply.offset
                   timed == hello.timed.offset
        <3>1. mtu \in Nat /\ 206 <= mtu
            BY <2>1, AnswersTypes DEF Inv, TypeOK
        <3>2. reply \in Nat /\ timed \in Nat /\ reply <= 206 /\ timed <= 206
            BY <2>1 DEF Inv, HellosBuilt, Built
        <3> QED
            BY <3>1, <3>2 DEF HelloFits
    <2> QED
        BY <2>1
<1> QED
    BY <1>1, InvHolds, PTL

-----------------------------------------------------------------------------
(* The rate tables of Wi-Fi.                                               *)

\* The families whose tables the code has.
FamilyNames == {"HT", "VHT", "HE"}

Of(name) == W!Families[name]

LEMMA TheFamilies ==
    /\ DOMAIN W!Families = FamilyNames
    /\ Of("HT") = W!HT /\ Of("VHT") = W!VHT /\ Of("HE") = W!HE
    BY DEF W!Families, Of, FamilyNames

\* The entry of a table, and the columns of a family.
Cell(name, w, mcs, g) == Of(name).rates[mcs + 1][w][g]

LEMMA Columns ==
    /\ Of("HT").widths = 2 /\ Of("HT").mcs = 7 /\ DOMAIN Of("HT").gis = 1 .. 2
    /\ Of("VHT").widths = 4 /\ Of("VHT").mcs = 9 /\ DOMAIN Of("VHT").gis = 1 .. 2
    /\ Of("HE").widths = 4 /\ Of("HE").mcs = 11 /\ DOMAIN Of("HE").gis = 1 .. 3
    BY TheFamilies DEF W!HT, W!VHT, W!HE

\* The column of the shortest guard interval.
Shortest(name) == IF name = "HE" THEN 1 ELSE 2

Top(name, w) == Cell(name, w, Of(name).mcs, Shortest(name))

LEMMA TableHT ==
    ASSUME NEW w \in 1 .. 2, NEW m \in 0 .. 7, NEW g \in 1 .. 2
    PROVE  /\ Cell("HT", w, m, g) \in Nat /\ Cell("HT", w, m, g) >= 65
           /\ Cell("HT", w, m, g) <= Top("HT", w)
           /\ Cell("HT", w, m, g) = W!StandardRate_x10("HT", w, m, Of("HT").gis[g])
<1>1. Cell("HT", w, m, g) \in Nat /\ Cell("HT", w, m, g) >= 65
    BY TheFamilies DEF Cell, W!HT, W!ht_rates_x10
<1>2. Cell("HT", w, m, g) <= Top("HT", w)
    BY TheFamilies DEF Cell, Top, Shortest, W!HT, W!ht_rates_x10
<1>3. Cell("HT", w, m, g) = W!StandardRate_x10("HT", w, m, Of("HT").gis[g])
    BY TheFamilies DEF Cell, W!HT, W!ht_rates_x10, W!StandardRate_x10, W!Subcarriers,
                       W!Modulation, W!SymbolTime
<1> QED
    BY <1>1, <1>2, <1>3

\* mcs 9 does not exist at 20 MHz.
LEMMA TableVHT ==
    ASSUME NEW w \in 1 .. 4, NEW m \in 0 .. 9, NEW g \in 1 .. 2
    PROVE  /\ Cell("VHT", w, m, g) \in Nat
           /\ w # 1 => Cell("VHT", w, m, g) <= Top("VHT", w)
           /\ ~(w = 1 /\ m = 9) =>
                 /\ Cell("VHT", w, m, g) >= 65
                 /\ Cell("VHT", w, m, g) = W!StandardRate_x10("VHT", w, m, Of("VHT").gis[g])
<1>1. Cell("VHT", w, m, g) \in Nat /\ (~(w = 1 /\ m = 9) => Cell("VHT", w, m, g) >= 65)
    BY TheFamilies DEF Cell, W!VHT, W!vht_rates_1ss_x10
<1>2. w # 1 => Cell("VHT", w, m, g) <= Top("VHT", w)
    BY TheFamilies DEF Cell, Top, Shortest, W!VHT, W!vht_rates_1ss_x10
<1>3. ~(w = 1 /\ m = 9) =>
          Cell("VHT", w, m, g) = W!StandardRate_x10("VHT", w, m, Of("VHT").gis[g])
    BY TheFamilies DEF Cell, W!VHT, W!vht_rates_1ss_x10, W!StandardRate_x10, W!Subcarriers,
                       W!Modulation, W!SymbolTime
<1> QED
    BY <1>1, <1>2, <1>3

\* One entry is cut instead of rounded.
LEMMA TableHE ==
    ASSUME NEW w \in 1 .. 4, NEW m \in 0 .. 11, NEW g \in 1 .. 3
    PROVE  /\ Cell("HE", w, m, g) \in Nat /\ Cell("HE", w, m, g) >= 65
           /\ Cell("HE", w, m, g) <= Top("HE", w)
           /\ IF w = 4 /\ m = 11 /\ g = 2
                THEN /\ Cell("HE", w, m, g) = 11342 /\ Top("HE", w) = 12010
                     /\ W!StandardRate_x10("HE", w, m, Of("HE").gis[g]) = 11343
                ELSE Cell("HE", w, m, g) = W!StandardRate_x10("HE", w, m, Of("HE").gis[g])
<1>1. Cell("HE", w, m, g) \in Nat /\ Cell("HE", w, m, g) >= 65
    BY TheFamilies DEF Cell, W!HE, W!he_rates_1ss_x10
<1>2. Cell("HE", w, m, g) <= Top("HE", w)
    BY TheFamilies DEF Cell, Top, Shortest, W!HE, W!he_rates_1ss_x10
<1>3. ~(w = 4 /\ m = 11 /\ g = 2) =>
          Cell("HE", w, m, g) = W!StandardRate_x10("HE", w, m, Of("HE").gis[g])
    BY TheFamilies DEF Cell, W!HE, W!he_rates_1ss_x10, W!StandardRate_x10, W!Subcarriers,
                       W!Modulation, W!SymbolTime
<1>4. Cell("HE", 4, 11, 2) = 11342 /\ Top("HE", 4) = 12010
    BY TheFamilies DEF Cell, Top, Shortest, W!HE, W!he_rates_1ss_x10
<1>5. W!StandardRate_x10("HE", 4, 11, Of("HE").gis[2]) = 11343
    BY TheFamilies DEF W!HE, W!StandardRate_x10, W!Subcarriers, W!Modulation, W!SymbolTime
<1> QED
    BY <1>1, <1>2, <1>3, <1>4, <1>5

\* Whatever the family.
LEMMA TableRange ==
    ASSUME NEW name \in FamilyNames, NEW w \in 1 .. Of(name).widths,
           NEW m \in 0 .. Of(name).mcs, NEW g \in DOMAIN Of(name).gis
    PROVE  /\ Cell(name, w, m, g) \in Nat
           /\ ~(name = "VHT" /\ w = 1) => Cell(name, w, m, g) <= Top(name, w)
<1>1. CASE name = "HT"
    <2>1. w \in 1 .. 2 /\ m \in 0 .. 7 /\ g \in 1 .. 2
        BY <1>1, Columns
    <2> QED
        BY <1>1, <2>1, TableHT
<1>2. CASE name = "VHT"
    <2>1. w \in 1 .. 4 /\ m \in 0 .. 9 /\ g \in 1 .. 2
        BY <1>2, Columns
    <2> QED
        BY <1>2, <2>1, TableVHT
<1>3. CASE name = "HE"
    <2>1. w \in 1 .. 4 /\ m \in 0 .. 11 /\ g \in 1 .. 3
        BY <1>3, Columns
    <2> QED
        BY <1>3, <2>1, TableHE
<1> QED
    BY <1>1, <1>2, <1>3 DEF FamilyNames

LEMMA TopRange ==
    ASSUME NEW name \in FamilyNames, NEW w \in 1 .. Of(name).widths
    PROVE  Top(name, w) \in Nat
<1>1. Of(name).mcs \in 0 .. Of(name).mcs /\ Shortest(name) \in DOMAIN Of(name).gis
    BY Columns DEF Shortest, FamilyNames
<1> QED
    BY <1>1, TableRange DEF Top

-----------------------------------------------------------------------------
(* What lltd_wifi_calc_rate makes of an entry.                             *)

\* Tenths of Mbit/s of one stream, as whole Mbit/s of several.
Whole(cell, nss) == (cell * nss + 5) \div 10

LEMMA WholeRange ==
    ASSUME NEW cell \in Nat, NEW nss \in 1 .. 8
    PROVE  Whole(cell, nss) \in Nat /\ (cell >= 65 => Whole(cell, nss) # 0)
    BY DEF Whole

LEMMA WholeMonotone ==
    ASSUME NEW a \in Nat, NEW b \in Nat, a <= b, NEW nss \in 1 .. 8
    PROVE  Whole(a, nss) <= Whole(b, nss)
<1>1. a * nss <= b * nss
    OBVIOUS
<1>2. a * nss \in Nat /\ b * nss \in Nat
    OBVIOUS
<1> QED
    BY <1>1, <1>2 DEF Whole

\* The rate of a combination that exists.
LEMMA CalcRate ==
    ASSUME NEW name \in FamilyNames, NEW w \in 1 .. Of(name).widths, NEW nss \in 1 .. 8,
           NEW m \in 0 .. Of(name).mcs, NEW g \in DOMAIN Of(name).gis
    PROVE  W!calc_rate(name, W!Widths[w], nss, m, Of(name).gis[g]) = Whole(Cell(name, w, m, g), nss)
<1> DEFINE F == W!Families[name]
           ws == W!width_to_index(F, W!Widths[w])
           gs == W!gi_to_index(F, F.gis[g])
           cells == {F.rates[m + 1][x][y] : x \in ws, y \in gs}
           cell == F.rates[m + 1][w][g]
<1>1. ws = {w}
    BY DEF W!width_to_index, W!Widths, W!Families, W!HT, W!VHT, W!HE, Of, FamilyNames
<1>2. gs = {g}
    BY DEF W!gi_to_index, W!Families, W!HT, W!VHT, W!HE, Of, FamilyNames
<1> HIDE DEF ws, gs
<1>3. cells = {cell}
    BY <1>1, <1>2
<1>4. W!calc_rate(name, W!Widths[w], nss, m, F.gis[g]) =
        IF nss \in 1 .. W!MaxStreams /\ m \in 0 .. F.mcs /\ cells # {}
          THEN ((CHOOSE rate \in cells : TRUE) * nss + 5) \div 10 ELSE 0
    BY DEF W!calc_rate, ws, gs
<1> HIDE DEF cells
<1>5. (CHOOSE rate \in cells : TRUE) = cell
    BY <1>3
<1>6. nss \in 1 .. W!MaxStreams /\ m \in 0 .. F.mcs /\ cells # {}
    BY <1>3 DEF W!MaxStreams, Of
<1>7. W!calc_rate(name, W!Widths[w], nss, m, F.gis[g]) = (cell * nss + 5) \div 10
    BY <1>4, <1>5, <1>6
<1> QED
    BY <1>7 DEF Whole, Cell, Of

\* Of a width the family lacks, there is none.
LEMMA CalcRateRange ==
    ASSUME NEW name \in FamilyNames, NEW width, NEW nss \in 1 .. 8,
           NEW m \in 0 .. Of(name).mcs, NEW g \in DOMAIN Of(name).gis
    PROVE  W!calc_rate(name, width, nss, m, Of(name).gis[g]) \in Nat
<1> DEFINE F == W!Families[name]
           ws == W!width_to_index(F, width)
           gs == W!gi_to_index(F, F.gis[g])
           cells == {F.rates[m + 1][x][y] : x \in ws, y \in gs}
<1>1. CASE \E w \in 1 .. F.widths : W!Widths[w] = width
    <2>1. PICK w \in 1 .. F.widths : W!Widths[w] = width
        BY <1>1
    <2>2. W!calc_rate(name, width, nss, m, Of(name).gis[g]) = Whole(Cell(name, w, m, g), nss)
        BY <2>1, CalcRate DEF Of
    <2> QED
        BY <2>1, <2>2, TableRange, WholeRange DEF Of
<1>2. CASE ~ \E w \in 1 .. F.widths : W!Widths[w] = width
    <2>1. ws = {}
        BY <1>2 DEF W!width_to_index
    <2> HIDE DEF ws, gs
    <2>2. cells = {}
        BY <2>1
    <2>3. W!calc_rate(name, width, nss, m, F.gis[g]) =
            IF nss \in 1 .. W!MaxStreams /\ m \in 0 .. F.mcs /\ cells # {}
              THEN ((CHOOSE rate \in cells : TRUE) * nss + 5) \div 10 ELSE 0
        BY DEF W!calc_rate, ws, gs
    <2> HIDE DEF cells
    <2> QED
        BY <2>2, <2>3 DEF Of
<1> QED
    BY <1>1, <1>2

\* The maximum is made of the entry on top.
LEMMA CalcMaxRate ==
    ASSUME NEW name \in FamilyNames, NEW w \in 1 .. Of(name).widths, NEW nss \in 1 .. 8
    PROVE  W!calc_max_rate(name, W!Widths[w], nss) = Whole(Top(name, w), nss)
<1>1. /\ Of(name).mcs \in 0 .. Of(name).mcs /\ Shortest(name) \in DOMAIN Of(name).gis
      /\ Of(name).gis[Shortest(name)] = IF name = "HE" THEN 800 ELSE 400
    BY TheFamilies DEF W!HT, W!VHT, W!HE, Shortest, FamilyNames
<1>2. W!calc_max_rate(name, W!Widths[w], nss) =
          W!calc_rate(name, W!Widths[w], nss, Of(name).mcs, Of(name).gis[Shortest(name)])
    BY <1>1 DEF W!calc_max_rate, Of
<1> HIDE DEF Shortest
<1> QED
    BY <1>1, <1>2, CalcRate DEF Top

-----------------------------------------------------------------------------
(* The search, iteration by iteration.                                     *)

\* The combinations the loops of the search go through, and their order.
All(name) == [nss : 1 .. W!MaxStreams, mcs : 0 .. Of(name).mcs, gi : DOMAIN Of(name).gis]

Before(c, d) ==
    \/ c.nss < d.nss
    \/ c.nss = d.nss /\ c.mcs < d.mcs
    \/ c.nss = d.nss /\ c.mcs = d.mcs /\ c.gi < d.gi

\* Where the search is when it is over.
End == [W!First EXCEPT !.nss = 9]

LEMMA AllOf ==
    ASSUME NEW name \in FamilyNames, NEW c \in All(name)
    PROVE  c.nss \in 1 .. 8 /\ c.mcs \in 0 .. 11 /\ c.mcs \in 0 .. Of(name).mcs
             /\ c.gi \in 1 .. 3 /\ c.gi \in DOMAIN Of(name).gis
<1>1. c.nss \in 1 .. 8 /\ c.mcs \in 0 .. Of(name).mcs /\ c.gi \in DOMAIN Of(name).gis
    BY DEF All, W!MaxStreams
<1>2. Of(name).mcs \in Nat /\ Of(name).mcs <= 11 /\ DOMAIN Of(name).gis \subseteq 1 .. 3
    <2>1. /\ Of("HT").mcs \in Nat /\ Of("HT").mcs <= 11 /\ DOMAIN Of("HT").gis \subseteq 1 .. 3
          /\ Of("VHT").mcs \in Nat /\ Of("VHT").mcs <= 11 /\ DOMAIN Of("VHT").gis \subseteq 1 .. 3
          /\ Of("HE").mcs \in Nat /\ Of("HE").mcs <= 11 /\ DOMAIN Of("HE").gis \subseteq 1 .. 3
        BY Columns
    <2> QED
        BY <2>1 DEF FamilyNames
<1> QED
    BY <1>1, <1>2

\* Every combination is before the end.
LEMMA AllBeforeEnd ==
    ASSUME NEW name \in FamilyNames, NEW c \in All(name)
    PROVE  Before(c, End)
    BY AllOf DEF Before, End, W!First

\* An iteration goes on to the combination that comes next, or to the end:
\* what was before it still is, and the one looked at is new before it.
LEMMA FollowingIsNext ==
    ASSUME NEW name \in FamilyNames, NEW c \in All(name)
    PROVE  LET next == W!Following(Of(name), c)
           IN  /\ next \in All(name) \cup {End}
               /\ Before(c, next)
               /\ \A d \in All(name) : Before(d, next) <=> Before(d, c) \/ d = c
<1> DEFINE next == W!Following(Of(name), c)
<1>1. /\ c = [nss |-> c.nss, mcs |-> c.mcs, gi |-> c.gi]
      /\ c.nss \in 1 .. 8 /\ c.mcs \in 0 .. Of(name).mcs /\ c.gi \in DOMAIN Of(name).gis
    BY AllOf DEF All
<1>2. /\ Len(Of(name).gis) \in 1 .. 3 /\ DOMAIN Of(name).gis = 1 .. Len(Of(name).gis)
      /\ Of(name).mcs \in Nat
    BY TheFamilies DEF W!HT, W!VHT, W!HE, FamilyNames
<1>3. \A d \in All(name) :
          /\ d = [nss |-> d.nss, mcs |-> d.mcs, gi |-> d.gi]
          /\ d.nss \in 1 .. 8 /\ d.mcs \in 0 .. Of(name).mcs /\ d.gi \in DOMAIN Of(name).gis
    BY AllOf DEF All
<1>4. CASE c.gi < Len(Of(name).gis)
    <2>1. next = [nss |-> c.nss, mcs |-> c.mcs, gi |-> c.gi + 1]
        BY <1>1, <1>4 DEF W!Following
    <2>2. next \in All(name)
        BY <1>1, <1>2, <1>4, <2>1 DEF All, W!MaxStreams
    <2> QED
        BY <1>1, <1>2, <1>3, <2>1, <2>2 DEF Before
<1>5. CASE ~(c.gi < Len(Of(name).gis)) /\ c.mcs < Of(name).mcs
    <2>1. next = [nss |-> c.nss, mcs |-> c.mcs + 1, gi |-> 1]
        <3>1. c.gi \in Int /\ Len(Of(name).gis) \in Int /\ c.gi >= Len(Of(name).gis)
            BY <1>1, <1>2, <1>5
        <3>2. next = [c EXCEPT !.mcs = c.mcs + 1, !.gi = 1]
            BY <1>5, <3>1 DEF W!Following
        <3> QED
            BY <1>1, <3>2
    <2>2. next \in All(name)
        BY <1>1, <1>2, <1>5, <2>1 DEF All, W!MaxStreams
    <2> QED
        BY <1>1, <1>2, <1>3, <1>5, <2>1, <2>2 DEF Before
<1>6. CASE ~(c.gi < Len(Of(name).gis)) /\ ~(c.mcs < Of(name).mcs)
    <2>1. next = [nss |-> c.nss + 1, mcs |-> 0, gi |-> 1]
        BY <1>1, <1>2, <1>6 DEF W!Following, W!First
    <2>2. next \in All(name) \cup {End}
        <3>1. CASE c.nss = 8
            BY <2>1, <3>1 DEF End, W!First
        <3>2. CASE c.nss # 8
            BY <1>1, <1>2, <2>1, <3>2 DEF All, W!MaxStreams
        <3> QED
            BY <3>1, <3>2
    <2> QED
        BY <1>1, <1>2, <1>3, <1>6, <2>1, <2>2 DEF Before
<1> QED
    BY <1>4, <1>5, <1>6

\* The rate of a combination, how far it is from the one observed, and what
\* the search returns of it.
RateOf(name, width, c) == W!calc_rate(name, width, c.nss, c.mcs, Of(name).gis[c.gi])

Apart(name, width, observed, c) == W!Distance(observed, RateOf(name, width, c))

Params(name, width, c) ==
    [nss |-> c.nss, mcs |-> c.mcs, gi |-> Of(name).gis[c.gi], rate |-> RateOf(name, width, c)]

LEMMA ApartTypes ==
    ASSUME NEW name \in FamilyNames, NEW width, NEW observed \in Nat, NEW c \in All(name)
    PROVE  RateOf(name, width, c) \in Nat /\ Apart(name, width, observed, c) \in Nat
<1>1. RateOf(name, width, c) \in Nat
    BY AllOf, CalcRateRange DEF RateOf
<1> QED
    BY <1>1 DEF Apart, W!Distance

\* Of the combinations in S: nothing is within the tolerance; or c is, none is
\* nearer, and of fewer streams none as near.
FarIn(S, name, width, observed) ==
    \A d \in S : RateOf(name, width, d) # 0 => Apart(name, width, observed, d) > 15

NearestIn(S, name, width, observed, c) ==
    /\ RateOf(name, width, c) # 0 /\ Apart(name, width, observed, c) <= 15
    /\ \A d \in S : RateOf(name, width, d) # 0 =>
          \/ Apart(name, width, observed, d) > Apart(name, width, observed, c)
          \/ Apart(name, width, observed, d) = Apart(name, width, observed, c) /\ c.nss <= d.nss

Far(name, width, observed) == FarIn(All(name), name, width, observed)

Nearest(name, width, observed, c) == NearestIn(All(name), name, width, observed, c)

\* The loop invariant: the running best is the nearest of the combinations
\* before the one that is looked at next.
Looking(name, width, observed, s) ==
    LET seen == {d \in All(name) : Before(d, s.at)}
    IN  /\ s = [at |-> s.at, diff |-> s.diff, best |-> s.best]
        /\ s.at \in All(name) \cup {End}
        /\ \/ s.best = W!Unknown /\ s.diff = 16 /\ FarIn(seen, name, width, observed)
           \/ \E c \in seen : /\ s.best = Params(name, width, c)
                              /\ s.diff = Apart(name, width, observed, c)
                              /\ NearestIn(seen, name, width, observed, c)

LEMMA LookingBegins ==
    ASSUME NEW name \in FamilyNames, NEW width, NEW observed
    PROVE  Looking(name, width, observed, W!SearchBegun(W!Tolerance))
<1> DEFINE s == W!SearchBegun(W!Tolerance)
<1>1. s = [at |-> W!First, diff |-> 16, best |-> W!Unknown]
    BY DEF W!SearchBegun, W!Tolerance
<1>2. W!First \in All(name)
    BY TheFamilies DEF W!First, All, W!MaxStreams, W!HT, W!VHT, W!HE, FamilyNames
<1>3. \A d \in All(name) : ~Before(d, W!First)
    BY AllOf DEF Before, W!First
<1> HIDE DEF s
<1> QED
    BY <1>1, <1>2, <1>3 DEF Looking, FarIn, s

\* lltd_wifi_rates.c:256-281: an iteration keeps it, since a combination
\* replaces the best only if it is strictly nearer.
LEMMA LookedOn ==
    ASSUME NEW name \in FamilyNames, NEW width, NEW observed \in Nat, NEW s,
           Looking(name, width, observed, s), ~W!SearchOver(s)
    PROVE  Looking(name, width, observed, W!Looked(name, width, observed, s))
<1> DEFINE c == s.at
           t == W!Looked(name, width, observed, s)
           next == W!Following(Of(name), c)
           seen == {d \in All(name) : Before(d, c)}
           then == {d \in All(name) : Before(d, next)}
           rate(d) == RateOf(name, width, d)
           far(d) == Apart(name, width, observed, d)
<1>1. c \in All(name) /\ s = [at |-> c, diff |-> s.diff, best |-> s.best]
    <2>1. c # End
        BY DEF W!SearchOver, W!MaxStreams, End, W!First
    <2> QED
        BY <2>1 DEF Looking
<1>2. /\ next \in All(name) \cup {End}
      /\ c \in then /\ \A d \in then : d = c \/ d \in seen
      /\ seen \subseteq then
    BY <1>1, FollowingIsNext
<1>3. t = IF rate(c) # 0 /\ far(c) < s.diff
            THEN [at |-> next, diff |-> far(c), best |-> Params(name, width, c)]
            ELSE [at |-> next, diff |-> s.diff, best |-> s.best]
    BY <1>1 DEF W!Looked, RateOf, Apart, Params, Of
<1>4. \A d \in All(name) : rate(d) \in Nat /\ far(d) \in Nat /\ d.nss \in Nat
    BY ApartTypes, AllOf
<1>5. \A d \in seen : d.nss <= c.nss
    BY <1>1, <1>4 DEF Before
<1>6. \/ s.best = W!Unknown /\ s.diff = 16 /\ FarIn(seen, name, width, observed)
      \/ \E b \in seen : /\ s.best = Params(name, width, b) /\ s.diff = far(b)
                         /\ NearestIn(seen, name, width, observed, b)
    BY DEF Looking
<1> HIDE DEF t, next, rate, far
<1>7. CASE rate(c) # 0 /\ far(c) < s.diff
    <2>1. t = [at |-> next, diff |-> far(c), best |-> Params(name, width, c)]
        BY <1>3, <1>7
    <2>2. far(c) <= 15 /\ \A d \in seen : rate(d) # 0 => far(d) > far(c)
        <3>1. CASE s.diff = 16 /\ FarIn(seen, name, width, observed)
            BY <1>1, <1>4, <1>7, <3>1 DEF FarIn, rate, far
        <3>2. CASE \E b \in seen : s.diff = far(b) /\ NearestIn(seen, name, width, observed, b)
            <4>1. PICK b \in seen : s.diff = far(b) /\ NearestIn(seen, name, width, observed, b)
                BY <3>2
            <4>2. far(b) <= 15 /\ \A d \in seen : rate(d) # 0 => far(d) >= far(b)
                BY <4>1, <1>4 DEF NearestIn, rate, far
            <4> QED
                BY <1>1, <1>4, <1>7, <4>1, <4>2
        <3> QED
            BY <1>6, <3>1, <3>2
    <2>3. \A d \in then : rate(d) # 0 => far(d) > far(c) \/ (far(d) = far(c) /\ c.nss <= d.nss)
        BY <1>1, <1>2, <1>4, <2>2
    <2>4. NearestIn(then, name, width, observed, c)
        BY <1>7, <2>2, <2>3 DEF NearestIn, rate, far
    <2>5. t.at = next /\ t.diff = far(c) /\ t.best = Params(name, width, c)
            /\ t = [at |-> t.at, diff |-> t.diff, best |-> t.best]
        BY <2>1
    <2> QED
        BY <1>2, <2>4, <2>5 DEF Looking, t, far
<1>8. CASE ~(rate(c) # 0 /\ far(c) < s.diff)
    <2>1. t = [at |-> next, diff |-> s.diff, best |-> s.best]
        BY <1>3, <1>8
    <2>2. t.at = next /\ t.diff = s.diff /\ t.best = s.best
            /\ t = [at |-> t.at, diff |-> t.diff, best |-> t.best]
        BY <2>1
    <2>3. CASE s.best = W!Unknown /\ s.diff = 16 /\ FarIn(seen, name, width, observed)
        <3>1. \A d \in then : rate(d) # 0 => far(d) > 15
            BY <1>1, <1>2, <1>4, <1>8, <2>3 DEF FarIn, rate, far
        <3>2. FarIn(then, name, width, observed)
            BY <3>1 DEF FarIn, rate, far
        <3> QED
            BY <1>2, <2>2, <2>3, <3>2 DEF Looking, t
    <2>4. CASE \E b \in seen : /\ s.best = Params(name, width, b) /\ s.diff = far(b)
                               /\ NearestIn(seen, name, width, observed, b)
        <3>1. PICK b \in seen : /\ s.best = Params(name, width, b) /\ s.diff = far(b)
                                /\ NearestIn(seen, name, width, observed, b)
            BY <2>4
        <3>2. rate(b) # 0 /\ far(b) <= 15
                /\ \A d \in seen : rate(d) # 0 =>
                      far(d) > far(b) \/ (far(d) = far(b) /\ b.nss <= d.nss)
            BY <3>1 DEF NearestIn, rate, far
        <3>3. \A d \in then : rate(d) # 0 =>
                  far(d) > far(b) \/ (far(d) = far(b) /\ b.nss <= d.nss)
            BY <1>1, <1>2, <1>4, <1>5, <1>8, <3>1, <3>2
        <3>4. NearestIn(then, name, width, observed, b)
            BY <3>2, <3>3 DEF NearestIn, rate, far
        <3> QED
            BY <1>2, <2>2, <3>1, <3>4 DEF Looking, t, far
    <2> QED
        BY <1>6, <2>3, <2>4
<1> QED
    BY <1>7, <1>8

\* After the last iteration the best, if there is one, is the nearest of all.
LEMMA LookingEnds ==
    ASSUME NEW name \in FamilyNames, NEW width, NEW observed \in Nat, NEW s,
           Looking(name, width, observed, s), W!SearchOver(s)
    PROVE  \/ s.best = W!Unknown /\ s.diff = 16 /\ Far(name, width, observed)
           \/ \E c \in All(name) : /\ s.best = Params(name, width, c) /\ s.diff <= 15
                                   /\ Nearest(name, width, observed, c)
<1>1. s.at = End
    <2>1. s.at \notin All(name)
        BY AllOf DEF W!SearchOver, W!MaxStreams
    <2> QED
        BY <2>1 DEF Looking
<1>2. {d \in All(name) : Before(d, s.at)} = All(name)
    BY <1>1, AllBeforeEnd
<1>3. \/ s.best = W!Unknown /\ s.diff = 16 /\ FarIn(All(name), name, width, observed)
      \/ \E c \in All(name) : /\ s.best = Params(name, width, c)
                              /\ s.diff = Apart(name, width, observed, c)
                              /\ NearestIn(All(name), name, width, observed, c)
    BY <1>2 DEF Looking
<1> QED
    BY <1>3 DEF Far, Nearest, NearestIn

-----------------------------------------------------------------------------
(* The links there are, and their rates.                                   *)

\* The rate of a link whose combination exists is its entry, but for one.
Standard(c) == W!StandardRate_x10(c.family, c.w, c.mcs, c.gi)

\* A link a of combination c, of which g is the column of the guard interval.
LinkOf(a, c, g) ==
    /\ a.of = c /\ c.family \in FamilyNames /\ c.w \in 1 .. Of(c.family).widths /\ c.nss \in 1 .. 8
    /\ c.mcs \in 0 .. Of(c.family).mcs /\ ~(c.family = "VHT" /\ c.w = 1 /\ c.mcs = 9)
    /\ g \in DOMAIN Of(c.family).gis /\ Of(c.family).gis[g] = c.gi
    /\ a.mode = W!ModeOf[c.family] /\ a.width = W!Widths[c.w] /\ a.rate = Whole(Standard(c), c.nss)

\* Any other is of an older mode, or a newer one, or none.
LEMMA TheLinks ==
    ASSUME NEW a \in W!Links
    PROVE  \/ \E c, g : LinkOf(a, c, g)
           \/ a.mode \in {1, 2, 3} /\ a.rate \in {2, 11}
           \/ a.mode \in {0, 7} /\ a.rate \in Nat
<1>1. CASE \E c \in {x \in W!Combinations : W!Exists(x)} :
             a = [of |-> c, mode |-> W!ModeOf[c.family], width |-> W!Widths[c.w],
                  rate |-> (W!StandardRate_x10(c.family, c.w, c.mcs, c.gi) * c.nss + 5) \div 10]
    <2>1. PICK c \in W!Combinations :
             /\ W!Exists(c)
             /\ a = [of |-> c, mode |-> W!ModeOf[c.family], width |-> W!Widths[c.w],
                     rate |-> (W!StandardRate_x10(c.family, c.w, c.mcs, c.gi) * c.nss + 5) \div 10]
        BY <1>1
    <2>2. PICK g \in DOMAIN Of(c.family).gis : Of(c.family).gis[g] = c.gi
        BY <2>1 DEF W!Exists, Of
    <2>3. c.family \in FamilyNames /\ c.w \in 1 .. 4 /\ c.nss \in Streams /\ c.mcs \in Codings
        BY DEF W!Combinations, W!ModeOf, FamilyNames
    <2>4. c.nss \in 1 .. 8 /\ c.mcs \in 0 .. 11
        BY <2>3, MCHostAssumption DEF W!MetricsAssumption, W!MaxStreams
    <2>5. c.w <= Of(c.family).widths /\ c.mcs <= Of(c.family).mcs
            /\ ~(c.family = "VHT" /\ c.w = 1 /\ c.mcs = 9)
        BY <2>1 DEF W!Exists, Of
    <2>6. Of(c.family).widths \in Nat /\ Of(c.family).mcs \in Nat
        BY <2>3, Columns DEF FamilyNames
    <2>7. c.w \in 1 .. Of(c.family).widths /\ c.mcs \in 0 .. Of(c.family).mcs
        BY <2>3, <2>4, <2>5, <2>6
    <2>8. LinkOf(a, c, g)
        BY <2>1, <2>2, <2>3, <2>4, <2>5, <2>7 DEF LinkOf, Whole, Standard
    <2> QED
        BY <2>8
<1>2. CASE a \in {[mode |-> m, width |-> 20, rate |-> r] : m \in {1, 2, 3}, r \in {2, 11}}
    BY <1>2
<1>3. CASE a = [mode |-> 7, width |-> 160, rate |-> 2882]
    BY <1>3
<1>4. CASE a = W!NoLink
    BY <1>4 DEF W!NoLink
<1> QED
    BY <1>1, <1>2, <1>3, <1>4 DEF W!Links

\* A table has the rate of such a link, or 0.1 Mbit/s less.
LEMMA StandardEntry ==
    ASSUME NEW a, NEW c, NEW g, LinkOf(a, c, g)
    PROVE  LET cell == Cell(c.family, c.w, c.mcs, g)
           IN  /\ cell \in Nat /\ cell >= 65 /\ Standard(c) \in Nat
               /\ ~(c.family = "VHT" /\ c.w = 1) => cell <= Top(c.family, c.w)
               /\ IF c.family = "HE" /\ c.w = 4 /\ c.mcs = 11 /\ g = 2
                    THEN cell = 11342 /\ Standard(c) = 11343 /\ Top(c.family, c.w) = 12010
                    ELSE cell = Standard(c)
<1> DEFINE cell == Cell(c.family, c.w, c.mcs, g)
<1>1. CASE c.family = "HT"
    <2>1. c.w \in 1 .. 2 /\ c.mcs \in 0 .. 7 /\ g \in 1 .. 2 /\ c.gi = Of("HT").gis[g]
        BY <1>1, Columns DEF LinkOf
    <2>2. /\ Cell("HT", c.w, c.mcs, g) \in Nat /\ Cell("HT", c.w, c.mcs, g) >= 65
          /\ Cell("HT", c.w, c.mcs, g) <= Top("HT", c.w)
          /\ Cell("HT", c.w, c.mcs, g) = W!StandardRate_x10("HT", c.w, c.mcs, Of("HT").gis[g])
        BY <2>1, TableHT
    <2> QED
        BY <1>1, <2>1, <2>2 DEF Standard
<1>2. CASE c.family = "VHT"
    <2>1. c.w \in 1 .. 4 /\ c.mcs \in 0 .. 9 /\ g \in 1 .. 2 /\ c.gi = Of("VHT").gis[g]
            /\ ~(c.w = 1 /\ c.mcs = 9)
        BY <1>2, Columns DEF LinkOf
    <2>2. /\ Cell("VHT", c.w, c.mcs, g) \in Nat /\ Cell("VHT", c.w, c.mcs, g) >= 65
          /\ c.w # 1 => Cell("VHT", c.w, c.mcs, g) <= Top("VHT", c.w)
          /\ Cell("VHT", c.w, c.mcs, g) = W!StandardRate_x10("VHT", c.w, c.mcs, Of("VHT").gis[g])
        BY <2>1, TableVHT
    <2> QED
        BY <1>2, <2>1, <2>2 DEF Standard
<1>3. CASE c.family = "HE"
    <2>1. c.w \in 1 .. 4 /\ c.mcs \in 0 .. 11 /\ g \in 1 .. 3 /\ c.gi = Of("HE").gis[g]
        BY <1>3, Columns DEF LinkOf
    <2>2. /\ Cell("HE", c.w, c.mcs, g) \in Nat /\ Cell("HE", c.w, c.mcs, g) >= 65
          /\ Cell("HE", c.w, c.mcs, g) <= Top("HE", c.w)
          /\ IF c.w = 4 /\ c.mcs = 11 /\ g = 2
               THEN /\ Cell("HE", c.w, c.mcs, g) = 11342 /\ Top("HE", c.w) = 12010
                    /\ W!StandardRate_x10("HE", c.w, c.mcs, Of("HE").gis[g]) = 11343
               ELSE Cell("HE", c.w, c.mcs, g) =
                        W!StandardRate_x10("HE", c.w, c.mcs, Of("HE").gis[g])
        BY <2>1, TableHE
    <2> QED
        BY <1>3, <2>1, <2>2 DEF Standard
<1> QED
    BY <1>1, <1>2, <1>3 DEF LinkOf, FamilyNames

\* The numbers of a link.
LEMMA LinkTypes ==
    ASSUME NEW a \in W!Links
    PROVE  a.rate \in Nat /\ a.width \in Nat
<1>1. a.width \in Nat
    BY DEF W!Links, W!Widths, W!NoLink, W!Combinations
<1>2. ASSUME NEW c, NEW g, LinkOf(a, c, g)
      PROVE  a.rate \in Nat
    <2>1. Standard(c) \in Nat
        BY <1>2, StandardEntry
    <2>2. c.nss \in 1 .. 8 /\ a.rate = Whole(Standard(c), c.nss)
        BY <1>2 DEF LinkOf
    <2> QED
        BY <2>1, <2>2, WholeRange
<1> QED
    BY <1>1, <1>2, TheLinks

-----------------------------------------------------------------------------
(* The tool: what it has read, and of which link.                          *)

\* While it searches, the running best is the nearest so far; what it has
\* read, but for the rate, it reads before.
Searching ==
    IF stage = "search"
      THEN /\ W!Family \in FamilyNames /\ got.rate = air.rate /\ air.rate # 0
           /\ Looking(W!Family, W!Width, air.rate, search)
      ELSE search = W!SearchBegun(W!Tolerance)

\* What it returned, if anything, is of the rate there is.
Reported ==
    stage = "done" /\ result.code = 0 =>
        /\ result.link = air.rate
        /\ W!Family = "B" => result.max = 11
        /\ W!Family = "AG" => result.max = 54
        /\ W!Family = "none" => result.max = air.rate
        /\ W!Family \in FamilyNames =>
              \/ /\ result.inferred = W!Unknown /\ Far(W!Family, W!Width, air.rate)
                 /\ result.max = W!calc_max_rate(W!Family, W!Width, 1)
              \/ \E c \in All(W!Family) :
                    /\ result.inferred = Params(W!Family, W!Width, c)
                    /\ Nearest(W!Family, W!Width, air.rate, c)
                    /\ result.max = W!calc_max_rate(W!Family, W!Width, c.nss)

\* What the tool has read is of the link there is if the interface did not
\* roam.
ToolInv ==
    /\ air \in W!Links
    /\ stage \in {"idle", "mode", "width", "rate", "search", "done"}
    /\ stage = "idle" => got = W!NothingRead
    /\ ~roamed /\ stage \in {"width", "rate", "search", "done"} => got.mode \in {air.mode, 0}
    /\ ~roamed /\ stage \in {"rate", "search", "done"} => got.width \in {air.width, 0}
    /\ got = [mode |-> got.mode, width |-> got.width, rate |-> got.rate]
    /\ got.width \in Nat /\ got.rate \in Nat
    /\ Searching
    /\ Reported

\* The families are those with tables and three others.
LEMMA FamilyRange == W!Family \in FamilyNames \cup {"B", "AG", "none"}
    BY DEF W!Family, W!phy_family_from_cwmode, FamilyNames

LEMMA NotAssociatedCode == W!NotAssociated.code # 0
<1>1. W!NoResult = [code |-> 1, link |-> 0, max |-> 0, inferred |-> W!Unknown, approximate |-> FALSE]
    BY DEF W!NoResult
<1> QED
    BY <1>1 DEF W!NotAssociated

\* Reading the rate either ends it or begins the search.
LEMMA ReadRateKeeps ==
    ASSUME ToolInv, W!ReadRate
    PROVE  ToolInv'
<1>1. /\ got' = [mode |-> got.mode, width |-> got.width, rate |-> air.rate]
      /\ air.rate \in Nat /\ stage = "rate" /\ search = W!SearchBegun(W!Tolerance)
      /\ air' = air /\ search' = search /\ roamed' = roamed
    BY LinkTypes DEF ToolInv, Searching, W!ReadRate
<1>2. W!Family' = W!Family /\ W!Width' = W!Width
    BY <1>1 DEF W!Family, W!Width
<1>3. stage' \in {"search", "done"}
    BY TheFamilies, FamilyRange DEF W!ReadRate, W!Return
<1>4. Searching'
    <2>1. CASE stage' = "search"
        <3>1. air.rate # 0 /\ W!Family \in FamilyNames
            BY <2>1, TheFamilies DEF W!ReadRate, W!Return
        <3>2. Looking(W!Family, W!Width, air.rate, search)
            BY <1>1, <3>1, LookingBegins
        <3> QED
            BY <1>1, <1>2, <2>1, <3>1, <3>2 DEF Searching
    <2>2. CASE stage' # "search"
        BY <1>1, <2>2 DEF Searching
    <2> QED
        BY <2>1, <2>2
<1>5. Reported'
    <2> SUFFICES ASSUME stage' = "done", result'.code = 0
                 PROVE  Reported'
        BY DEF Reported
    <2>1. air.rate # 0
        BY NotAssociatedCode DEF W!ReadRate, W!Return
    <2>2. CASE W!Family = "B"
        BY <1>1, <1>2, <2>1, <2>2 DEF Reported, W!ReadRate, W!Return, W!Estimate, FamilyNames
    <2>3. CASE W!Family = "AG"
        BY <1>1, <1>2, <2>1, <2>3 DEF Reported, W!ReadRate, W!Return, W!Estimate, FamilyNames
    <2>4. CASE W!Family = "none"
        BY <1>1, <1>2, <2>1, <2>4 DEF Reported, W!ReadRate, W!Return, W!Estimate, FamilyNames
    <2>5. CASE W!Family \in FamilyNames
        BY <2>1, <2>5, TheFamilies DEF W!ReadRate, W!Return, FamilyNames
    <2> QED
        BY <2>2, <2>3, <2>4, <2>5, FamilyRange
<1> QED
    BY <1>1, <1>3, <1>4, <1>5 DEF ToolInv

\* An iteration keeps the running best the nearest so far.
LEMMA LookKeeps ==
    ASSUME ToolInv, W!Look
    PROVE  ToolInv'
<1>1. /\ UNCHANGED <<air, stage, got, result, roamed>>
      /\ stage = "search" /\ ~W!SearchOver(search)
      /\ search' = W!Looked(W!Family, W!Width, got.rate, search)
    BY DEF W!Look
<1>2. W!Family' = W!Family /\ W!Width' = W!Width
    BY <1>1 DEF W!Family, W!Width
<1>3. air.rate \in Nat
    BY LinkTypes DEF ToolInv
<1>4. Looking(W!Family, W!Width, air.rate, search')
    BY <1>1, <1>3, LookedOn DEF ToolInv, Searching
<1>5. Searching'
    BY <1>1, <1>2, <1>4 DEF ToolInv, Searching
<1> QED
    BY <1>1, <1>5 DEF ToolInv, Reported

\* The end of the search is the end of the tool.
LEMMA ConcludeKeeps ==
    ASSUME ToolInv, W!Conclude
    PROVE  ToolInv'
<1> DEFINE name == W!Family
           width == W!Width
<1>1. /\ UNCHANGED <<air, got, roamed>> /\ stage = "search" /\ stage' = "done"
      /\ W!SearchOver(search) /\ search' = W!SearchBegun(W!Tolerance)
      /\ result' = IF search.diff <= 15
                     THEN W!Estimate(got.rate, W!calc_max_rate(name, width, search.best.nss),
                                     search.best, FALSE)
                     ELSE W!Estimate(got.rate, W!calc_max_rate(name, width, 1), W!Unknown, TRUE)
    BY DEF W!Conclude, W!Return, W!Tolerance
<1>2. W!Family' = name /\ W!Width' = width
    BY <1>1 DEF W!Family, W!Width
<1>3. /\ air.rate \in Nat /\ got.rate = air.rate /\ name \in FamilyNames
      /\ Looking(name, width, air.rate, search)
    BY <1>1, LinkTypes DEF ToolInv, Searching
<1> HIDE DEF name, width
<1>4. result'.link = air.rate
    BY <1>1, <1>3 DEF W!Estimate
<1>5. \/ /\ result'.inferred = W!Unknown /\ Far(name, width, air.rate)
         /\ result'.max = W!calc_max_rate(name, width, 1)
      \/ \E c \in All(name) : /\ result'.inferred = Params(name, width, c)
                              /\ Nearest(name, width, air.rate, c)
                              /\ result'.max = W!calc_max_rate(name, width, c.nss)
    <2>1. CASE search.best = W!Unknown /\ search.diff = 16 /\ Far(name, width, air.rate)
        BY <1>1, <2>1 DEF W!Estimate
    <2>2. CASE \E c \in All(name) : /\ search.best = Params(name, width, c) /\ search.diff <= 15
                                    /\ Nearest(name, width, air.rate, c)
        <3>1. PICK c \in All(name) : /\ search.best = Params(name, width, c) /\ search.diff <= 15
                                     /\ Nearest(name, width, air.rate, c)
            BY <2>2
        <3>2. search.best.nss = c.nss
            BY <3>1 DEF Params
        <3> QED
            BY <1>1, <3>1, <3>2 DEF W!Estimate
    <2> QED
        BY <1>1, <1>3, <2>1, <2>2, LookingEnds
<1>6. Reported'
    BY <1>1, <1>2, <1>3, <1>4, <1>5 DEF Reported, FamilyNames
<1> QED
    BY <1>1, <1>6 DEF ToolInv, Searching

\* Reading, searching, roaming and returning keep the invariant.
LEMMA ToolInvStep ==
    ASSUME ToolInv, [W!Next]_W!vars
    PROVE  ToolInv'
<1>1. CASE W!Begin
    <2>1. CASE stage' = "mode"
        BY <1>1, <2>1 DEF ToolInv, Searching, Reported, W!Begin
    <2>2. CASE result' = W!NotAssociated /\ stage' = "done"
        BY <1>1, <2>2, NotAssociatedCode DEF ToolInv, Searching, Reported, W!Begin, W!NothingRead
    <2> QED
        BY <1>1, <2>1, <2>2 DEF W!Begin, W!Return
<1>2. CASE W!ReadMode
    BY <1>2 DEF ToolInv, Searching, Reported, W!ReadMode
<1>3. CASE W!ReadWidth
    BY <1>3, LinkTypes DEF ToolInv, Searching, Reported, W!ReadWidth
<1>4. CASE W!ReadRate
    BY <1>4, ReadRateKeeps
<1>5. CASE W!Look
    BY <1>5, LookKeeps
<1>6. CASE W!Conclude
    BY <1>6, ConcludeKeeps
<1>7. CASE W!Again
    BY <1>7 DEF ToolInv, Searching, Reported, W!Again, W!NothingRead
<1>8. CASE W!Roam
    BY <1>8 DEF ToolInv, Searching, Reported, W!Roam
<1>9. CASE UNCHANGED W!vars
    <2>1. W!Family' = W!Family /\ W!Width' = W!Width
        BY <1>9 DEF W!vars, W!Family, W!Width
    <2> QED
        BY <1>9, <2>1 DEF ToolInv, Searching, Reported, W!vars
<1> QED
    BY <1>1, <1>2, <1>3, <1>4, <1>5, <1>6, <1>7, <1>8, <1>9 DEF W!Next

\* The inductive invariant of the tool.
THEOREM ToolInvHolds == W!Spec => []ToolInv
<1>1. W!Init => ToolInv
    BY DEF W!Init, ToolInv, Searching, Reported, W!NothingRead, W!NoResult
<1> QED
    BY <1>1, ToolInvStep, PTL DEF W!Spec

\* The tables of lltd_wifi_rates.c: the entry of every combination there is,
\* for any number of streams, is what the formula of the standard gives, to a
\* tenth of a Mbit/s.
THEOREM RatesAreStandard == W!Spec => []RatesStandard
<1>1. ToolInv => RatesStandard
    <2> SUFFICES ASSUME ToolInv, air.mode \in {4, 5, 6},
                        NEW h \in DOMAIN Of(air.of.family).gis, Of(air.of.family).gis[h] = air.of.gi
                 PROVE  W!Distance(Cell(air.of.family, air.of.w, air.of.mcs, h),
                                   Standard(air.of)) <= 1
        BY DEF RatesStandard, W!RatesStandard, Cell, Standard, Of
    <2>1. PICK c, g : LinkOf(air, c, g)
        BY TheLinks DEF ToolInv
    <2>2. LinkOf(air, c, h)
        BY <2>1 DEF LinkOf
    <2>3. Cell(c.family, c.w, c.mcs, h) \in Nat /\ Standard(c) \in Nat
            /\ Cell(c.family, c.w, c.mcs, h) \in {Standard(c), Standard(c) - 1}
        BY <2>2, StandardEntry
    <2>4. air.of = c
        BY <2>1 DEF LinkOf
    <2> QED
        BY <2>3, <2>4 DEF W!Distance
<1> QED
    BY <1>1, ToolInvHolds, PTL

-----------------------------------------------------------------------------
(* What the tool reports.                                                  *)

\* lltd_wifi_infer_params for the rate, mode and width get_metrics has read,
\* even of different links: no combination is nearer, nor of fewer streams as
\* near, and none is found only if none is within 15 Mbit/s.
THEOREM InferredAreNearest == W!Spec => []InferredNearest
<1>1. ToolInv => InferredNearest
    <2> SUFFICES ASSUME ToolInv, stage = "done", result.code = 0, W!Family \in FamilyNames
                 PROVE  W!InferredNearest
        BY TheFamilies DEF InferredNearest, W!InferredNearest
    <2> DEFINE name == W!Family
               width == W!Width
               link == result.link
               limit == IF result.inferred = W!Unknown THEN 15
                        ELSE W!Distance(link, result.inferred.rate)
    <2>1. /\ link \in Nat
          /\ \/ result.inferred = W!Unknown /\ Far(name, width, link)
             \/ \E c \in All(name) : /\ result.inferred = Params(name, width, c)
                                     /\ Nearest(name, width, link, c)
        BY LinkTypes DEF ToolInv, Reported
    <2>2. SUFFICES
            /\ result.inferred # W!Unknown => limit <= 15
            /\ \A c \in All(name) : RateOf(name, width, c) # 0 =>
                  \/ W!Distance(link, RateOf(name, width, c)) > limit
                  \/ /\ W!Distance(link, RateOf(name, width, c)) = limit
                     /\ result.inferred # W!Unknown /\ c.nss >= result.inferred.nss
        <3>1. ASSUME NEW nss \in 1 .. W!MaxStreams, NEW mcs \in 0 .. W!Families[name].mcs,
                     NEW g \in DOMAIN W!Families[name].gis
              PROVE  LET rate == W!calc_rate(name, width, nss, mcs, W!Families[name].gis[g])
                         distance == W!Distance(link, rate)
                     IN  rate # 0 =>
                           distance > limit
                             \/ (distance = limit /\ result.inferred # W!Unknown
                                  /\ nss >= result.inferred.nss)
            <4> DEFINE c == [nss |-> nss, mcs |-> mcs, gi |-> g]
            <4>1. c \in All(name)
                BY DEF All, Of
            <4>2. RateOf(name, width, c) = W!calc_rate(name, width, nss, mcs, W!Families[name].gis[g])
                BY DEF RateOf, Of
            <4>3. c.nss = nss
                OBVIOUS
            <4> HIDE DEF c, limit
            <4> QED
                BY <2>2, <4>1, <4>2, <4>3
        <3> QED
            BY <2>2, <3>1 DEF W!InferredNearest
    <2>3. CASE result.inferred = W!Unknown /\ Far(name, width, link)
        BY <2>3 DEF Far, FarIn, Apart
    <2>4. ASSUME NEW c \in All(name), result.inferred = Params(name, width, c),
                 Nearest(name, width, link, c)
          PROVE  /\ result.inferred # W!Unknown => limit <= 15
                 /\ \A d \in All(name) : RateOf(name, width, d) # 0 =>
                       \/ W!Distance(link, RateOf(name, width, d)) > limit
                       \/ /\ W!Distance(link, RateOf(name, width, d)) = limit
                          /\ result.inferred # W!Unknown /\ d.nss >= result.inferred.nss
        <3>1. result.inferred.nss = c.nss /\ result.inferred.rate = RateOf(name, width, c)
            BY <2>4 DEF Params
        <3>2. result.inferred # W!Unknown
            BY <3>1, <2>4, AllOf DEF W!Unknown
        <3>3. limit = W!Distance(link, RateOf(name, width, c))
            BY <3>1, <3>2
        <3>4. \A d \in All(name) : d.nss \in Nat
            BY AllOf
        <3> HIDE DEF limit
        <3> QED
            BY <2>4, <3>1, <3>2, <3>3, <3>4 DEF Nearest, NearestIn, Apart
    <2> QED
        BY <2>1, <2>3, <2>4
<1> QED
    BY <1>1, ToolInvHolds, PTL

\* The link's own combination is near.
LEMMA OwnNear ==
    ASSUME NEW a, NEW c, NEW g, LinkOf(a, c, g)
    PROVE  \E own \in All(c.family) :
              /\ RateOf(c.family, W!Widths[c.w], own) # 0
              /\ ~(W!Distance(a.rate, RateOf(c.family, W!Widths[c.w], own)) > 15)
<1> DEFINE own == [nss |-> c.nss, mcs |-> c.mcs, gi |-> g]
           cell == Cell(c.family, c.w, c.mcs, g)
           n == c.nss
<1>1. /\ c.family \in FamilyNames /\ c.w \in 1 .. Of(c.family).widths /\ n \in 1 .. 8
      /\ c.mcs \in 0 .. Of(c.family).mcs /\ g \in DOMAIN Of(c.family).gis
      /\ a.rate = Whole(Standard(c), n)
    BY DEF LinkOf
<1>2. own \in All(c.family) /\ RateOf(c.family, W!Widths[c.w], own) = Whole(cell, n)
    BY <1>1, CalcRate DEF All, RateOf, W!MaxStreams
<1>3. cell \in Nat /\ cell >= 65 /\ Standard(c) \in Nat /\ Standard(c) \in {cell, cell + 1}
    BY StandardEntry
<1> HIDE DEF own, cell, n
<1>4. Whole(cell, n) # 0 /\ Whole(cell, n) \in Nat /\ a.rate \in Nat
    BY <1>1, <1>3, WholeRange
<1>5. a.rate \in {Whole(cell, n), Whole(cell, n) + 1}
    <2>1. (cell + 1) * n = cell * n + n /\ cell * n \in Nat
        BY <1>1, <1>3
    <2> QED
        BY <1>1, <1>3, <2>1 DEF Whole
<1> QED
    BY <1>2, <1>4, <1>5 DEF W!Distance

\* The maximum of an inferred combination is no less than what it explains.
LEMMA MaxExplains ==
    ASSUME NEW c, NEW g, LinkOf(air, c, g), ~(c.family = "VHT" /\ c.w = 1),
           NEW d \in All(c.family), Nearest(c.family, W!Widths[c.w], air.rate, d)
    PROVE  air.rate <= W!calc_max_rate(c.family, W!Widths[c.w], d.nss)
<1> DEFINE name == c.family
           w == c.w
           own == [nss |-> c.nss, mcs |-> c.mcs, gi |-> g]
           cell == Cell(name, w, c.mcs, g)
           other == Cell(name, w, d.mcs, d.gi)
           top == Top(name, w)
           n == c.nss
           k == d.nss
<1>1. /\ name \in FamilyNames /\ w \in 1 .. Of(name).widths /\ n \in 1 .. 8
      /\ c.mcs \in 0 .. Of(name).mcs /\ g \in DOMAIN Of(name).gis
      /\ air.rate = Whole(Standard(c), n)
    BY DEF LinkOf
<1>2. own \in All(name) /\ RateOf(name, W!Widths[w], own) = Whole(cell, n)
    BY <1>1, CalcRate DEF All, RateOf, W!MaxStreams
<1>3. /\ k \in 1 .. 8 /\ d.mcs \in 0 .. Of(name).mcs /\ d.gi \in DOMAIN Of(name).gis
      /\ RateOf(name, W!Widths[w], d) = Whole(other, k)
    BY <1>1, AllOf, CalcRate DEF RateOf
<1>4. W!calc_max_rate(name, W!Widths[w], k) = Whole(top, k)
    BY <1>1, <1>3, CalcMaxRate
<1>5. /\ cell \in Nat /\ cell >= 65 /\ Standard(c) \in Nat /\ cell <= top
      /\ IF name = "HE" /\ w = 4 /\ c.mcs = 11 /\ g = 2
           THEN cell = 11342 /\ Standard(c) = 11343 /\ top = 12010
           ELSE cell = Standard(c)
    BY StandardEntry
<1>6. other \in Nat /\ other <= top
    BY <1>1, <1>3, TableRange
<1>7. top \in Nat
    BY <1>1, TopRange
<1> HIDE DEF cell, other, top, n, k
<1>0. /\ n \in 1 .. 8 /\ k \in 1 .. 8 /\ Standard(c) \in Nat /\ air.rate = Whole(Standard(c), n)
      /\ cell \in Nat /\ cell >= 65 /\ other \in Nat /\ top \in Nat /\ other <= top
    BY <1>1, <1>3, <1>5, <1>6, <1>7
<1>8. W!Distance(air.rate, Whole(other, k)) <= W!Distance(air.rate, Whole(cell, n))
    <2>1. Whole(cell, n) # 0
        BY <1>0, WholeRange
    <2>2. \/ W!Distance(air.rate, Whole(cell, n)) > W!Distance(air.rate, Whole(other, k))
          \/ W!Distance(air.rate, Whole(cell, n)) = W!Distance(air.rate, Whole(other, k))
        BY <1>2, <1>3, <2>1 DEF Nearest, NearestIn, Apart
    <2>3. Whole(cell, n) \in Nat /\ Whole(other, k) \in Nat /\ air.rate \in Nat
        BY <1>0, WholeRange
    <2> QED
        BY <2>2, <2>3 DEF W!Distance
<1>9. /\ Whole(cell, n) \in Nat /\ Whole(other, k) \in Nat /\ air.rate \in Nat
      /\ Whole(top, k) \in Nat /\ Whole(other, k) <= Whole(top, k)
    BY <1>0, WholeRange, WholeMonotone
<1>10. CASE cell = Standard(c)
    <2>1. air.rate = Whole(cell, n)
        BY <1>1, <1>10
    <2>2. Whole(other, k) = air.rate
        BY <1>8, <1>9, <2>1 DEF W!Distance
    <2> QED
        BY <1>4, <1>9, <2>2 DEF k
<1>11. CASE cell = 11342 /\ Standard(c) = 11343 /\ top = 12010
    <2> DEFINE rate == air.rate
               near == Whole(other, k)
    <2>1. n \in 1 .. 8 /\ k \in 1 .. 8 /\ rate \in Nat /\ near \in Nat
        BY <1>1, <1>3, <1>9
    <2>2. rate = (11343 * n + 5) \div 10
        BY <1>1, <1>11 DEF Whole
    <2>3. Whole(cell, n) = (11342 * n + 5) \div 10 /\ Whole(top, k) = (12010 * k + 5) \div 10
        BY <1>11 DEF Whole
    <2>4. near <= (12010 * k + 5) \div 10
        BY <1>9, <2>3
    <2>5. W!Distance(rate, near) <= W!Distance(rate, (11342 * n + 5) \div 10)
        BY <1>8, <2>3
    <2> HIDE DEF rate, near
    <2>6. rate - 1 <= near
        BY <2>1, <2>2, <2>5 DEF W!Distance
    <2>7. n <= k
        BY <2>1, <2>2, <2>4, <2>6
    <2>8. rate <= (12010 * k + 5) \div 10
        BY <2>1, <2>2, <2>7
    <2> QED
        BY <1>4, <2>3, <2>8 DEF rate, k
<1> QED
    BY <1>5, <1>10, <1>11

\* lltd_darwin_wifi_get_metrics: unless the interface roamed, no link is
\* faster than its maximum, although the maximum is that of the inferred
\* number of streams, which may be fewer than the link has.
THEOREM MaximumCovers == W!Spec => []MaxCovers
<1>1. ToolInv => MaxCovers
    <2> SUFFICES ASSUME ToolInv, stage = "done", result.code = 0, ~roamed, got.width # 0,
                        ~(W!Family = "VHT" /\ got.width = 20)
                 PROVE  result.max >= result.link
        BY DEF MaxCovers, W!MaxCovers
    <2>1. /\ result.link = air.rate /\ Reported /\ air \in W!Links
          /\ got.mode \in {air.mode, 0} /\ got.width = air.width /\ air.rate \in Nat
        BY LinkTypes DEF ToolInv, Reported
    <2>2. CASE W!Family \in {"B", "AG"}
        <3>1. got.mode \in {1, 2, 3} /\ got.mode = air.mode
            BY <2>1, <2>2 DEF W!Family, W!phy_family_from_cwmode
        <3>2. air.rate \in {2, 11}
            BY <2>1, <3>1, TheLinks DEF LinkOf, W!ModeOf, FamilyNames
        <3>3. result.max \in {11, 54}
            BY <2>1, <2>2 DEF Reported
        <3> QED
            BY <2>1, <3>2, <3>3
    <2>3. CASE W!Family = "none"
        <3>1. result.max = air.rate
            BY <2>1, <2>3 DEF Reported
        <3> QED
            BY <2>1, <3>1
    <2>4. CASE W!Family \in FamilyNames
        <3>1. got.mode \in {4, 5, 6} /\ got.mode = air.mode
            BY <2>1, <2>4 DEF W!Family, W!phy_family_from_cwmode, FamilyNames
        <3>2. PICK c, g : LinkOf(air, c, g)
            BY <2>1, <3>1, TheLinks
        <3>3. c.family = W!Family /\ W!Width = W!Widths[c.w]
            <4>1. c.family = W!Family
                BY <2>1, <3>1, <3>2 DEF LinkOf, W!Family, W!phy_family_from_cwmode, W!ModeOf,
                                        FamilyNames
            <4>2. got.width \in Nat /\ got.width # 0 /\ got.width = W!Widths[c.w]
                BY <2>1, <3>2 DEF ToolInv, LinkOf
            <4>3. W!Width = got.width
                BY <4>2 DEF W!Width
            <4> QED
                BY <4>1, <4>2, <4>3
        <3>4. ~(c.family = "VHT" /\ c.w = 1)
            BY <2>1, <3>2, <3>3 DEF LinkOf, W!Widths
        <3>5. ~Far(c.family, W!Widths[c.w], air.rate)
            <4>1. \E own \in All(c.family) :
                    /\ RateOf(c.family, W!Widths[c.w], own) # 0
                    /\ ~(Apart(c.family, W!Widths[c.w], air.rate, own) > 15)
                BY <3>2, OwnNear DEF Apart
            <4> QED
                BY <4>1 DEF Far, FarIn
        <3>6. PICK d \in All(c.family) :
                 /\ Nearest(c.family, W!Widths[c.w], air.rate, d)
                 /\ result.max = W!calc_max_rate(c.family, W!Widths[c.w], d.nss)
            BY <2>1, <2>4, <3>3, <3>5 DEF Reported
        <3>7. air.rate <= W!calc_max_rate(c.family, W!Widths[c.w], d.nss)
            BY <3>2, <3>4, <3>6, MaxExplains
        <3>8. W!calc_max_rate(c.family, W!Widths[c.w], d.nss) \in Nat
            <4>1. c.family \in FamilyNames /\ c.w \in 1 .. Of(c.family).widths /\ d.nss \in 1 .. 8
                BY <3>2, AllOf DEF LinkOf
            <4> QED
                BY <4>1, CalcMaxRate, TopRange, WholeRange
        <3> QED
            BY <2>1, <3>6, <3>7, <3>8
    <2> QED
        BY <2>2, <2>3, <2>4 DEF W!Family, W!phy_family_from_cwmode, FamilyNames
<1> QED
    BY <1>1, ToolInvHolds, PTL

-----------------------------------------------------------------------------
(* Both of them.                                                           *)

\* A behaviour that is one of the host or one of the tool is one of either, so
\* the theorems hold of it too.
THEOREM EitherAlone == MCSpec => Spec /\ W!Spec
<1>1. MCInit => Init /\ W!Init
    BY DEF MCInit
<1>2. [MCNext]_allVars => [Next]_vars /\ [W!Next]_(W!vars)
    BY DEF MCNext, allVars, toolVars, vars, W!vars
<1> QED
    BY <1>1, <1>2, PTL DEF MCSpec, Spec, W!Spec
=============================================================================
