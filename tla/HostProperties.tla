---------------------------- MODULE HostProperties ----------------------------
(***************************************************************************)
(* What a mapper learns about a host: the attributes of its Hellos, and    *)
(* what these announce empty, the icon and the friendly name, which it     *)
(* reads part by part with QueryLargeTlv (parseQueryLargeTlv and           *)
(* sendLargeTlvResponse of lltdBlock.c).  Each query names an offset; the  *)
(* icon is cached in the state of the interface until a topology Reset,    *)
(* anything else is fetched again for each part.  Meanwhile the icon and   *)
(* the name of the system may change, and responses are lost.              *)
(***************************************************************************)
EXTENDS HelloTlv

CONSTANTS
    NameLengths,   \* lengths of host names and SSIDs; 0: none
    Mtus,          \* MTUs of interfaces
    IconSizes,     \* sizes of icons and friendly names
    MaxChanges,    \* bound: times the icon and the name change
    MaxParts       \* bound: parts after which a mapper gives up

ASSUME HostAssumption ==
    /\ NameLengths \subseteq Nat /\ IconSizes \subseteq Nat
    \* Room for the longest Hello, and lengths that leave the top bit free.
    /\ Mtus \subseteq Nat /\ \A mtu \in Mtus : 206 <= mtu /\ mtu <= 32801
    /\ MaxChanges \in Nat /\ MaxParts \in Nat

VARIABLES
    port,      \* the port
    sys,       \* what the system is like
    hello,     \* the last Hello, between readings
    cache,     \* small_icon and small_icon_size
    read       \* what the mapper is reading and what it has got

vars == <<port, sys, hello, cache, read>>

Kinds == {"icon", "name", "hwid"}

\* versions: those of the parts got; total: their length; settled: nothing
\* happened meanwhile that may tear or cut what is read.
NoReading == [what |-> "none", offset |-> 0, versions |-> {}, total |-> 0, parts |-> 0,
              settled |-> TRUE, over |-> FALSE]

NoHello == [reply |-> NoFrame, timed |-> NoFrame, is80211 |-> FALSE]

Init ==
    /\ port \in Ports
    /\ sys \in [host : {0}, ssid : {0}, bssid : {FALSE}, mtu : Mtus,
                icon : [version : {1}, size : IconSizes],
                name : [version : {1}, size : IconSizes \ {0}],
                hwid : {NoData, [version |-> 0, size |-> 64]}]
    /\ hello = NoHello
    /\ cache = NoData
    /\ read = NoReading

-----------------------------------------------------------------------------
\* Both functions build a Hello of the names and the access point there are
\* now; the timed one only exists on Darwin.  A Hello neither uses nor changes
\* the cache: it is enough to build it while nothing is read.
Hello ==
    /\ read = NoReading /\ cache = NoData
    /\ \E host, ssid \in NameLengths, bssid, is80211, modeAgain \in BOOLEAN :
         LET a == Answers(port, [sys EXCEPT !.host = host, !.ssid = ssid, !.bssid = bssid])
         IN  hello' = [reply |-> answerHello(a, modeAgain \/ port = "Darwin"),
                       timed |-> IF port = "Darwin" THEN sendHelloMessageEx(a, is80211) ELSE NoFrame,
                       is80211 |-> is80211]
    /\ UNCHANGED <<port, sys, cache, read>>

\* The mapper starts to read one of the large properties.
Begin ==
    /\ read.what = "none" \/ read.over
    /\ \E what \in Kinds : read' = [NoReading EXCEPT !.what = what]
    /\ hello' = NoHello
    /\ UNCHANGED <<port, sys, cache>>

\* Mutant: the icon is fetched for each part.
Cached_Never(a, fetched) == IF fetched THEN a.icon ELSE NoData

\* The icon after a query for it: the cached one, or else the port's unless
\* fetching it fails, in which case the next query tries again.
Cached(a, fetched) ==
    CASE cache.size # 0 -> cache
      [] cache.size = 0 -> IF fetched THEN a.icon ELSE NoData

\* What the data of a query is.
Data(a, what, fetched) ==
    CASE what = "icon" -> Cached(a, fetched)
      [] what = "name" -> IF fetched THEN a.name ELSE NoData
      [] what = "hwid" -> IF fetched THEN a.hwid ELSE NoData

OffsetBound == 65536

\* Mutant: the room is kept in a byte.
MaxPayload_Byte(mtu) == (mtu - 32 - 2) % 256

\* What a response has room for after its headers.
MaxPayload(mtu) == (mtu - 32 - 2) % 65536

\* The response: a full part and more to come, the last part, or nothing
\* when there is no data or none beyond the offset.
Part(data, offset, max) ==
    CASE data.size > offset + max                          -> [length |-> max, more |-> TRUE]
      [] data.size > offset /\ data.size <= offset + max   -> [length |-> data.size - offset, more |-> FALSE]
      [] data.size <= offset                               -> [length |-> 0, more |-> FALSE]

\* The mapper has a part and knows from it whether to ask on.
Got(data, part) ==
    [read EXCEPT !.offset = (@ + part.length) % OffsetBound, !.parts = @ + 1,
                 !.versions = IF part.length = 0 THEN @ ELSE @ \cup {data.version},
                 !.total = @ + part.length, !.over = ~part.more]

\* A query for the next part.  Fetching may fail; the response, or the memory
\* for it, may be missing, in which case the mapper asks again.
Query ==
    /\ read.what # "none" /\ ~read.over /\ read.parts < MaxParts
    /\ \E fetched, lost \in BOOLEAN :
         LET a == Answers(port, sys)
             data == Data(a, read.what, fetched)
         IN  /\ cache' = IF read.what = "icon" THEN data ELSE cache
             /\ read' = [IF lost THEN read ELSE Got(data, Part(data, read.offset, MaxPayload(a.mtu)))
                         EXCEPT !.settled = @ /\ (fetched \/ lost \/ read.what = "icon")]
    /\ UNCHANGED <<port, sys, hello>>

\* A topology Reset, from any mapper.
Reset ==
    /\ cache' = NoData
    /\ read' = [read EXCEPT !.settled = @ /\ (read.what # "icon" \/ read.over)]
    /\ UNCHANGED <<port, sys, hello>>

\* The mapper stops asking.
GiveUp ==
    /\ read.parts = MaxParts /\ ~read.over
    /\ read' = NoReading
    /\ UNCHANGED <<port, sys, hello, cache>>

Changed(data) == {[version |-> data.version + 1, size |-> s] : s \in IconSizes}

\* The user changes the icon or the name of the computer.
Change ==
    /\ \/ /\ sys.icon.version <= MaxChanges
          /\ \E icon \in Changed(sys.icon) : sys' = [sys EXCEPT !.icon = icon]
          /\ UNCHANGED read
       \/ /\ sys.name.version <= MaxChanges
          /\ \E name \in Changed(sys.name) :
               name.size # 0 /\ sys' = [sys EXCEPT !.name = name]
          /\ read' = [read EXCEPT !.settled = @ /\ (read.what # "name" \/ read.over \/ port # "Darwin")]
    /\ hello' = NoHello
    /\ UNCHANGED <<port, cache>>

Next == Hello \/ Begin \/ Query \/ Reset \/ GiveUp \/ Change

Spec == Init /\ [][Next]_vars

-----------------------------------------------------------------------------
\* Whatever getters fail, whichever function builds it: a station that walks
\* a Hello by its length fields meets each TLV where it was written, none
\* twice, and the end marker in the last byte sent.
HelloReadable ==
    \A frame \in {hello.reply, hello.timed} \ {NoFrame} : Readable(frame)

\* The buffer has as many bytes as the MTU, and no builder looks at what is
\* left of it: no Hello is longer.
HelloFits ==
    /\ hello.reply.offset <= Answers(port, sys).mtu
    /\ hello.timed.offset <= Answers(port, sys).mtu

\* The two functions, which are kept in step by hand, agree: of a wireless
\* interface the reply and the timed Hello hold the same TLVs at the same
\* places; of a wired one, which only Darwin's replies take for wireless, the
\* timed Hello lacks the properties of Wi-Fi and no others.
HellosAgree ==
    hello.timed # NoFrame =>
        IF hello.is80211 THEN hello.timed = hello.reply
        ELSE Types(hello.timed) = Types(hello.reply) \ Dot11Types

\* What a reading of a property is a reading of, with this icon in the cache.
Source(what, icon, a) ==
    CASE what = "icon" -> icon
      [] what = "name" -> a.name
      [] what = "hwid" -> a.hwid

\* A property read to its end is whole and of one version, or not there at
\* all, if it fits the 16 bits of the offset: the icon even if it is changed
\* while it is read, unless a Reset empties the cache between two parts; the
\* name, fetched for each part, only if it stays as it was and no fetch fails.
ReadWhole ==
    read.over /\ read.settled =>
        \/ read.versions = {} /\ read.total = 0
        \/ \E v \in read.versions :
              /\ read.versions = {v}
              /\ LET current == Source(read.what, cache, Answers(port, sys))
                 IN  v = current.version /\ current.size <= OffsetBound
                        => read.total = current.size

\* Every part but the last brings the reading on: a mapper that follows the
\* parts reaches the end, if what it reads fits the 16 bits of the offset.
PartsAdvance ==
    [][read'.parts > read.parts /\ ~read'.over
           /\ Source(read.what, cache', Answers(port, sys)).size <= OffsetBound
       => read'.offset > read.offset]_vars
=============================================================================
