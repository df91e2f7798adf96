------------------------------- MODULE HelloTlv -------------------------------
(***************************************************************************)
(* The attributes of a Hello.  Two functions build one: answerHello of     *)
(* lltdBlock.c, on every port, replies to a Discover; sendHelloMessageEx   *)
(* of the Darwin daemon sends the ones the timers ask for.  Both append    *)
(* the TLVs of lltdTlvOps.c one after the other, each at the offset the    *)
(* sizes returned by the ones before add up to.  A TLV is what its header  *)
(* says (type, length) and where it is.  What the builders ask the port    *)
(* for is a record of answers.                                             *)
(***************************************************************************)
EXTENDS Integers, Sequences

-----------------------------------------------------------------------------
(* What each port answers about a system.                                  *)

NoData == [version |-> 0, size |-> 0]

AtMost(n, room) == IF n > room THEN room ELSE n

\* sys: lengths of names (0: it has none, or asking fails), whether there is
\* an access point, the MTU, and the data a mapper reads in several parts.
\* On Darwin every interface has a "wireless mode", Ethernet included.
DarwinAnswers(sys) ==
    [hostname |-> AtMost(sys.host, 32), wifi |-> TRUE, bssid |-> sys.bssid,
     ssid |-> AtMost(sys.ssid, 32), mtu |-> sys.mtu,
     icon |-> sys.icon, name |-> sys.name, hwid |-> sys.hwid]

\* The other ports know no wireless property, icon or hardware id, and give
\* the friendly name "LLTD Responder".
OtherAnswers(hostname, mtu) ==
    [hostname |-> hostname, wifi |-> FALSE, bssid |-> FALSE, ssid |-> 0, mtu |-> mtu,
     icon |-> NoData, name |-> [version |-> 0, size |-> 14], hwid |-> NoData]

LinuxAnswers(sys) == OtherAnswers(AtMost(sys.host, 32), sys.mtu)

PosixAnswers(sys) == OtherAnswers(AtMost(sys.host, 32), 1500)

\* GetComputerName fails without room for the name and its end.
WindowsAnswers(sys) == OtherAnswers(IF sys.host < 32 THEN sys.host ELSE 0, 1500)

Answers(port, sys) ==
    CASE port = "Darwin"  -> DarwinAnswers(sys)
      [] port = "Linux"   -> LinuxAnswers(sys)
      [] port = "POSIX"   -> PosixAnswers(sys)
      [] port = "Windows" -> WindowsAnswers(sys)

Ports == {"Darwin", "Linux", "POSIX", "Windows"}

-----------------------------------------------------------------------------
(* The TLVs.                                                               *)

\* A Hello being built: its TLVs, and the offset at which the next one goes.
NoFrame == [tlvs |-> <<>>, offset |-> 0]

Headers == [tlvs |-> <<>>, offset |-> 32 + 14]     \* the LLTD header and the Hello header

\* What a builder writes, and the size it returns: 0 when there is nothing.
Tlv(type, length, size) == [type |-> type, length |-> length, size |-> size]

NoTlv == Tlv("none", 0, 0)

\* A builder is called with the offset, and what it returns is added to it.
Extended(hello, tlv) ==
    IF tlv.size = 0 THEN hello
    ELSE [tlvs   |-> Append(hello.tlvs, [type |-> tlv.type, length |-> tlv.length, at |-> hello.offset]),
          offset |-> hello.offset + tlv.size]

hello ++ tlv == Extended(hello, tlv)

\* What the setters of lltdTlvOps.c write, which both functions call.  A
\* getter that fails leaves zeros in most.
HostIdTlv == Tlv("hostId", 6, 2 + 6)
CharacteristicsTlv == Tlv("characteristics", 4, 2 + 4)
PhysicalMediumTlv == Tlv("physicalMedium", 4, 2 + 4)
IPv4Tlv == Tlv("ipv4", 4, 2 + 4)
IPv6Tlv == Tlv("ipv6", 16, 2 + 16)
PerfCounterTlv == Tlv("perfCounter", 8, 2 + 8)
LinkSpeedTlv == Tlv("linkSpeed", 4, 2 + 4)

\* Mutant: the whole buffer of the name is sent.
HostnameTlv_Buffer(a) == Tlv("hostname", 64, 2 + 64)

HostnameTlv(a) == LET n == AtMost(a.hostname, 32) IN Tlv("hostname", n, 2 + n)

\* modeAgain: the wireless mode is asked for once more.
WirelessTlv(a, modeAgain) == IF a.wifi /\ modeAgain THEN Tlv("wireless", 1, 3) ELSE NoTlv

\* Mutant: without an access point, an empty BSSID.
BssidTlv_Empty(a) == Tlv("bssid", IF a.bssid THEN 6 ELSE 0, 8)

\* Without an access point there is no BSSID, but an SSID of length 0.
BssidTlv(a) == IF a.bssid THEN Tlv("bssid", 6, 8) ELSE NoTlv
SsidTlv(a) == LET n == AtMost(a.ssid, 32) IN Tlv("ssid", n, 2 + n)
WifiMaxRateTlv == Tlv("maxRate", 2, 2 + 2)
WifiRssiTlv == Tlv("rssi", 4, 2 + 4)

\* Access points, repeaters and their lineage: never there.
ApTlvs == NoTlv

\* Icon and name are announced empty: a mapper reads them in parts.
QosTlv == Tlv("qos", 4, 2 + 4)
IconTlv == Tlv("icon", 0, 2)
FriendlyNameTlv == Tlv("friendlyName", 0, 2)
EndTlv == Tlv("end", 0, 1)

-----------------------------------------------------------------------------
(* The two functions, each of which calls the setters by itself and asks   *)
(* in its own way whether the interface is a wireless one.                 *)

answerHello(a, modeAgain) ==
    LET station == Headers ++ HostIdTlv ++ CharacteristicsTlv ++ PhysicalMediumTlv ++ IPv4Tlv
                           ++ IPv6Tlv ++ PerfCounterTlv ++ LinkSpeedTlv ++ HostnameTlv(a)
        wifi == IF a.wifi
                  THEN station ++ WirelessTlv(a, modeAgain) ++ BssidTlv(a) ++ SsidTlv(a)
                               ++ WifiMaxRateTlv ++ WifiRssiTlv ++ ApTlvs
                  ELSE station
    IN  wifi ++ QosTlv ++ IconTlv ++ FriendlyNameTlv ++ EndTlv

\* Mutant: a setter is called in the other function only.
sendHelloMessageEx_NoRssi(a, is80211) ==
    LET station == Headers ++ HostIdTlv ++ CharacteristicsTlv ++ PhysicalMediumTlv ++ IPv4Tlv
                           ++ IPv6Tlv ++ PerfCounterTlv ++ LinkSpeedTlv ++ HostnameTlv(a)
        wifi == IF is80211
                  THEN station ++ WirelessTlv(a, TRUE) ++ BssidTlv(a) ++ SsidTlv(a)
                               ++ WifiMaxRateTlv ++ ApTlvs
                  ELSE station
    IN  wifi ++ QosTlv ++ IconTlv ++ FriendlyNameTlv ++ EndTlv

\* It asks for the type of the interface, where answerHello asks for a mode.
sendHelloMessageEx(a, is80211) ==
    LET station == Headers ++ HostIdTlv ++ CharacteristicsTlv ++ PhysicalMediumTlv ++ IPv4Tlv
                           ++ IPv6Tlv ++ PerfCounterTlv ++ LinkSpeedTlv ++ HostnameTlv(a)
        wifi == IF is80211
                  THEN station ++ WirelessTlv(a, TRUE) ++ BssidTlv(a) ++ SsidTlv(a)
                               ++ WifiMaxRateTlv ++ WifiRssiTlv ++ ApTlvs
                  ELSE station
    IN  wifi ++ QosTlv ++ IconTlv ++ FriendlyNameTlv ++ EndTlv

-----------------------------------------------------------------------------
(* How a station reads a Hello: it knows the length fields alone.          *)

\* Where it looks for the next TLV.
Follows(tlv) == tlv.at + 2 + tlv.length

\* It finds each TLV, none twice, and the end marker in the last byte sent.
Readable(hello) ==
    LET tlvs == hello.tlvs
        last == Len(tlvs)
    IN  /\ last > 0 /\ tlvs[last].type = "end" /\ tlvs[last].at + 1 = hello.offset
        /\ \A i \in 1 .. last - 1 : Follows(tlvs[i]) = tlvs[i + 1].at
        /\ \A i, j \in 1 .. last : tlvs[i].type = tlvs[j].type => i = j

Dot11Types == {"wireless", "bssid", "ssid", "maxRate", "rssi"}

Types(hello) == {hello.tlvs[i].type : i \in DOMAIN hello.tlvs}
=============================================================================
