----------------------------- MODULE WifiMetrics -----------------------------
(***************************************************************************)
(* lltd_darwin_wifi_get_metrics, in its CoreWLAN and its I/O Kit version:  *)
(* what the Wi-Fi tool reports of an interface.  Both read, one after the  *)
(* other, whether the interface is associated, its PHY mode, the width of  *)
(* its channel and its rate, and estimate the maximal rate from these, for *)
(* which they search the combinations a family has, one after the other.   *)
(* The interface may roam between two of the reads.                        *)
(***************************************************************************)
EXTENDS WifiRates

CONSTANTS
    Streams,     \* numbers of spatial streams of links
    Codings      \* modulation and coding schemes of links

\* What there is in the standard.
MetricsAssumption == Streams \subseteq 1 .. MaxStreams /\ Codings \subseteq 0 .. 11

VARIABLES
    air,        \* the link of the interface
    stage,      \* what get_metrics reads next
    got,        \* what it has read
    search,     \* its search for the parameters of the rate
    result,     \* what it returned
    roamed      \* the interface has roamed since it began

vars == <<air, stage, got, search, result, roamed>>

-----------------------------------------------------------------------------
\* CWPHYMode: 11a, b, g, n, ac, ax; anything else is none of these.
phy_family_from_cwmode(mode) ==
    CASE mode = 2         -> "B"
      [] mode \in {1, 3}  -> "AG"
      [] mode = 4         -> "HT"
      [] mode = 5         -> "VHT"
      [] mode = 6         -> "HE"
      [] mode \notin 1..6 -> "none"

ModeOf == [HT |-> 4, VHT |-> 5, HE |-> 6]

\* The links there are: combinations of the standard, with the rate of the
\* standard in whole Mbit/s, some links of older modes and one of a newer.
Combinations == [family : DOMAIN ModeOf, w : 1..4, nss : Streams, mcs : Codings,
                 gi : {400, 800, 1600, 3200}]

Exists(c) ==
    LET family == Families[c.family]
    IN  /\ c.w <= family.widths /\ c.mcs <= family.mcs
        /\ \E g \in DOMAIN family.gis : family.gis[g] = c.gi
        /\ ~(c.family = "VHT" /\ c.w = 1 /\ c.mcs = 9)

NoLink == [mode |-> 0, width |-> 0, rate |-> 0]

Links ==
    {[of |-> c, mode |-> ModeOf[c.family], width |-> Widths[c.w],
      rate |-> (StandardRate_x10(c.family, c.w, c.mcs, c.gi) * c.nss + 5) \div 10]
       : c \in {x \in Combinations : Exists(x)}}
    \cup {[mode |-> m, width |-> 20, rate |-> r] : m \in {1, 2, 3}, r \in {2, 11}}
    \cup {[mode |-> 7, width |-> 160, rate |-> 2882]}
    \cup {NoLink}

NothingRead == [mode |-> 0, width |-> 0, rate |-> 0]

\* Mbit/s a combination may be away from the rate it is to explain.
Tolerance == 15

NoResult == [code |-> 1, link |-> 0, max |-> 0, inferred |-> Unknown, approximate |-> FALSE]

Init ==
    /\ air \in Links
    /\ stage = "idle" /\ got = NothingRead /\ search = SearchBegun(Tolerance)
    /\ result = NoResult /\ roamed = FALSE

-----------------------------------------------------------------------------
NotAssociated == [NoResult EXCEPT !.code = -3]

Estimate(link, max, inferred, approximate) ==
    [code |-> 0, link |-> link, max |-> max, inferred |-> inferred, approximate |-> approximate]

\* The family and the width the estimate is made for.
Family == phy_family_from_cwmode(got.mode)

Width == IF got.width > 0 THEN got.width ELSE 20

Return(answer) == result' = answer /\ stage' = "done"

\* Without an access point there is nothing to read.
Begin ==
    /\ stage = "idle"
    /\ \/ air = NoLink /\ Return(NotAssociated)
       \/ air # NoLink /\ stage' = "mode" /\ UNCHANGED result
    /\ UNCHANGED <<air, got, search, roamed>>

\* The mode and the width may be unavailable.
ReadMode ==
    /\ stage = "mode"
    /\ \E mode \in {air.mode, 0} : got' = [got EXCEPT !.mode = mode]
    /\ stage' = "width"
    /\ UNCHANGED <<air, search, result, roamed>>

ReadWidth ==
    /\ stage = "width"
    /\ \E width \in {air.width, 0} : got' = [got EXCEPT !.width = width]
    /\ stage' = "rate"
    /\ UNCHANGED <<air, search, result, roamed>>

\* Without a rate there is no answer, and only the families with tables need
\* a search: of others the maximum is fixed, or taken to be the rate.
ReadRate ==
    /\ stage = "rate"
    /\ got' = [got EXCEPT !.rate = air.rate]
    /\ \/ air.rate = 0 /\ Return(NotAssociated)
       \/ air.rate # 0 /\ Family = "B" /\ Return(Estimate(air.rate, 11, Unknown, FALSE))
       \/ air.rate # 0 /\ Family = "AG" /\ Return(Estimate(air.rate, 54, Unknown, FALSE))
       \/ air.rate # 0 /\ Family = "none" /\ Return(Estimate(air.rate, air.rate, Unknown, TRUE))
       \/ air.rate # 0 /\ Family \in DOMAIN Families /\ stage' = "search" /\ UNCHANGED result
    /\ UNCHANGED <<air, search, roamed>>

\* An iteration of the search.
Look ==
    /\ stage = "search" /\ ~SearchOver(search)
    /\ search' = Looked(Family, Width, got.rate, search)
    /\ UNCHANGED <<air, stage, got, result, roamed>>

\* After the last: the maximum for the streams found, or for one stream if
\* nothing was near enough.
Conclude ==
    /\ stage = "search" /\ SearchOver(search)
    /\ Return(IF search.diff <= Tolerance
                THEN Estimate(got.rate, calc_max_rate(Family, Width, search.best.nss), search.best, FALSE)
                ELSE Estimate(got.rate, calc_max_rate(Family, Width, 1), Unknown, TRUE))
    /\ search' = SearchBegun(Tolerance)
    /\ UNCHANGED <<air, got, roamed>>

\* The tool is called again.
Again ==
    /\ stage = "done"
    /\ stage' = "idle" /\ got' = NothingRead /\ result' = NoResult /\ roamed' = FALSE
    /\ UNCHANGED <<air, search>>

\* The interface roams, or loses the network, while there is something to be
\* read of it.
Roam ==
    /\ stage \notin {"search", "done"}
    /\ air' \in Links
    /\ roamed' = (stage # "idle")
    /\ UNCHANGED <<stage, got, search, result>>

Next == Begin \/ ReadMode \/ ReadWidth \/ ReadRate \/ Look \/ Conclude \/ Again \/ Roam

Spec == Init /\ [][Next]_vars

-----------------------------------------------------------------------------
\* The tables hold what the formula of the standard gives, to a tenth of a
\* Mbit/s.  (One entry, HE at 160 MHz, mcs 11, 1.6 us, is cut instead of
\* rounded.)
RatesStandard ==
    air.mode \in {4, 5, 6} =>
        LET c == air.of
            family == Families[c.family]
        IN  \A g \in DOMAIN family.gis : family.gis[g] = c.gi =>
               Distance(family.rates[c.mcs + 1][c.w][g],
                        StandardRate_x10(c.family, c.w, c.mcs, c.gi)) <= 1

\* The search, which keeps a running best, ends with the parameters that
\* explain the rate best: no combination the family has at this width is
\* nearer to it, none of fewer streams is as near; and there are none only if
\* none is within 15 Mbit/s.
InferredNearest ==
    stage = "done" /\ result.code = 0 /\ Family \in DOMAIN Families =>
        LET family == Families[Family]
            limit == IF result.inferred = Unknown THEN 15
                     ELSE Distance(result.link, result.inferred.rate)
        IN  /\ result.inferred # Unknown => limit <= 15
            /\ \A nss \in 1 .. MaxStreams, mcs \in 0 .. family.mcs, g \in DOMAIN family.gis :
                  LET rate == calc_rate(Family, Width, nss, mcs, family.gis[g])
                      distance == Distance(result.link, rate)
                  IN  rate # 0 =>
                        distance > limit
                          \/ (distance = limit /\ result.inferred # Unknown
                               /\ nss >= result.inferred.nss)

\* The maximum covers the link: read in one piece, with its width known, no
\* link is faster than the maximum reported for it.  VHT at 20 MHz, of which
\* the code takes the maximum to be 0, is left out.
MaxCovers ==
    stage = "done" /\ result.code = 0 /\ ~roamed /\ got.width # 0
        /\ ~(Family = "VHT" /\ got.width = 20)
      => result.max >= result.link

\* "Uses the best MCS and shortest GI for the PHY family"
\* (lltd_wifi_rates.h:106): a maximum not marked approximate is the fastest
\* rate the code itself knows for the family, the width and the streams.
MaxIsBest ==
    stage = "done" /\ result.code = 0 /\ Family \in DOMAIN Families /\ ~result.approximate =>
        LET family == Families[Family]
        IN  \A mcs \in 0 .. family.mcs, g \in DOMAIN family.gis :
               calc_rate(Family, Width, result.inferred.nss, mcs, family.gis[g]) <= result.max
=============================================================================
