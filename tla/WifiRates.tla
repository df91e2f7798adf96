------------------------------ MODULE WifiRates ------------------------------
(***************************************************************************)
(* Data rates of Wi-Fi: the tables and the searches through them of        *)
(* os/darwin/daemon/lltd_wifi_rates.c.  A rate depends on the family of    *)
(* the PHY, the width of the channel (MHz), the number of spatial streams, *)
(* the modulation and coding scheme (mcs) and the guard interval (ns).     *)
(* The tables hold tenths of Mbit/s for one stream, by mcs, width and      *)
(* guard interval; the rest of the code uses whole Mbit/s.                 *)
(***************************************************************************)
EXTENDS Integers, Sequences, TLC

Widths == <<20, 40, 80, 160>>

ht_rates_x10 ==
    <<<<<<65, 72>>, <<135, 150>>>>,
      <<<<130, 144>>, <<270, 300>>>>,
      <<<<195, 217>>, <<405, 450>>>>,
      <<<<260, 289>>, <<540, 600>>>>,
      <<<<390, 433>>, <<810, 900>>>>,
      <<<<520, 578>>, <<1080, 1200>>>>,
      <<<<585, 650>>, <<1215, 1350>>>>,
      <<<<650, 722>>, <<1350, 1500>>>>>>

\* mcs 9 does not exist at 20 MHz.
vht_rates_1ss_x10 ==
    <<<<<<65, 72>>, <<135, 150>>, <<293, 325>>, <<585, 650>>>>,
      <<<<130, 144>>, <<270, 300>>, <<585, 650>>, <<1170, 1300>>>>,
      <<<<195, 217>>, <<405, 450>>, <<878, 975>>, <<1755, 1950>>>>,
      <<<<260, 289>>, <<540, 600>>, <<1170, 1300>>, <<2340, 2600>>>>,
      <<<<390, 433>>, <<810, 900>>, <<1755, 1950>>, <<3510, 3900>>>>,
      <<<<520, 578>>, <<1080, 1200>>, <<2340, 2600>>, <<4680, 5200>>>>,
      <<<<585, 650>>, <<1215, 1350>>, <<2633, 2925>>, <<5265, 5850>>>>,
      <<<<650, 722>>, <<1350, 1500>>, <<2925, 3250>>, <<5850, 6500>>>>,
      <<<<780, 867>>, <<1620, 1800>>, <<3510, 3900>>, <<7020, 7800>>>>,
      <<<<0, 0>>, <<1800, 2000>>, <<3900, 4333>>, <<7800, 8667>>>>>>

he_rates_1ss_x10 ==
    <<<<<<86, 81, 73>>, <<172, 163, 146>>, <<360, 340, 306>>, <<721, 681, 613>>>>,
      <<<<172, 163, 146>>, <<344, 325, 293>>, <<721, 681, 613>>, <<1441, 1361, 1225>>>>,
      <<<<258, 244, 219>>, <<516, 488, 439>>, <<1081, 1021, 919>>, <<2162, 2042, 1838>>>>,
      <<<<344, 325, 293>>, <<688, 650, 585>>, <<1441, 1361, 1225>>, <<2882, 2722, 2450>>>>,
      <<<<516, 488, 439>>, <<1032, 975, 878>>, <<2162, 2042, 1838>>, <<4324, 4083, 3675>>>>,
      <<<<688, 650, 585>>, <<1376, 1300, 1170>>, <<2882, 2722, 2450>>, <<5765, 5444, 4900>>>>,
      <<<<774, 731, 658>>, <<1549, 1463, 1316>>, <<3243, 3063, 2756>>, <<6485, 6125, 5513>>>>,
      <<<<860, 813, 731>>, <<1721, 1625, 1463>>, <<3603, 3403, 3063>>, <<7206, 6806, 6125>>>>,
      <<<<1032, 975, 878>>, <<2065, 1950, 1755>>, <<4324, 4083, 3675>>, <<8647, 8167, 7350>>>>,
      <<<<1147, 1083, 975>>, <<2294, 2167, 1950>>, <<4804, 4537, 4083>>, <<9608, 9074, 8167>>>>,
      <<<<1290, 1219, 1097>>, <<2581, 2438, 2194>>, <<5404, 5104, 4594>>, <<10809, 10208, 9188>>>>,
      <<<<1434, 1354, 1219>>, <<2868, 2708, 2438>>, <<6005, 5671, 5104>>, <<12010, 11342, 10208>>>>>>

-----------------------------------------------------------------------------
\* What the code knows of a family: its table, highest mcs, how many of the
\* widths, and its guard intervals in the order the search tries them.
HT == [rates |-> ht_rates_x10, mcs |-> 7, widths |-> 2, gis |-> <<800, 400>>]
VHT == [rates |-> vht_rates_1ss_x10, mcs |-> 9, widths |-> 4, gis |-> <<800, 400>>]

\* Mutant: the longest interval in the first column.
HE_Order == [rates |-> he_rates_1ss_x10, mcs |-> 11, widths |-> 4, gis |-> <<3200, 1600, 800>>]

HE == [rates |-> he_rates_1ss_x10, mcs |-> 11, widths |-> 4, gis |-> <<800, 1600, 3200>>]

Families == [HT |-> HT, VHT |-> VHT, HE |-> HE]

MaxStreams == 8

\* The columns of a table: those of a width or guard interval the family has.
width_to_index(family, width) == {w \in 1 .. family.widths : Widths[w] = width}

gi_to_index(family, gi) == {g \in DOMAIN family.gis : family.gis[g] = gi}

\* lltd_wifi_calc_rate: rounded to whole Mbit/s; 0 for what does not exist.
calc_rate(name, width, nss, mcs, gi) ==
    LET family == Families[name]
        cells == {family.rates[mcs + 1][w][g] : w \in width_to_index(family, width),
                                                 g \in gi_to_index(family, gi)}
    IN  IF nss \in 1 .. MaxStreams /\ mcs \in 0 .. family.mcs /\ cells # {}
          THEN ((CHOOSE rate \in cells : TRUE) * nss + 5) \div 10
          ELSE 0

Distance(a, b) == IF a > b THEN a - b ELSE b - a

Unknown == [nss |-> 0, mcs |-> 0, gi |-> 0, rate |-> 0]

\* lltd_wifi_infer_params looks at every combination, guard intervals in the
\* innermost loop and streams in the outermost; gi is the place of an interval
\* among the family's.
First == [nss |-> 1, mcs |-> 0, gi |-> 1]

Following(family, c) ==
    CASE c.gi < Len(family.gis)                        -> [c EXCEPT !.gi = @ + 1]
      [] c.gi >= Len(family.gis) /\ c.mcs < family.mcs -> [c EXCEPT !.mcs = @ + 1, !.gi = 1]
      [] OTHER                                         -> [First EXCEPT !.nss = c.nss + 1]

\* A search: the combination it looks at next, the best there was and how far
\* from the rate observed, to begin with further than is tolerated.
SearchBegun(tolerance) == [at |-> First, diff |-> tolerance + 1, best |-> Unknown]

SearchOver(search) == search.at.nss > MaxStreams

\* Mutant: of several as near, the last is kept.
Looked_OrAsNear(name, width, observed, search) ==
    LET family == Families[name]
        c == search.at
        rate == calc_rate(name, width, c.nss, c.mcs, family.gis[c.gi])
        next == Following(family, c)
    IN  IF rate # 0 /\ Distance(observed, rate) <= search.diff
          THEN [at |-> next, diff |-> Distance(observed, rate),
                best |-> [nss |-> c.nss, mcs |-> c.mcs, gi |-> family.gis[c.gi], rate |-> rate]]
          ELSE [search EXCEPT !.at = next]

\* One iteration: a combination that exists and is nearer becomes the best.
Looked(name, width, observed, search) ==
    LET family == Families[name]
        c == search.at
        rate == calc_rate(name, width, c.nss, c.mcs, family.gis[c.gi])
        next == Following(family, c)
    IN  IF rate # 0 /\ Distance(observed, rate) < search.diff
          THEN [at |-> next, diff |-> Distance(observed, rate),
                best |-> [nss |-> c.nss, mcs |-> c.mcs, gi |-> family.gis[c.gi], rate |-> rate]]
          ELSE [search EXCEPT !.at = next]

\* Mutant: the best mcs of HT for all.
calc_max_rate_HT(name, width, nss) ==
    calc_rate(name, width, nss, HT.mcs, IF name = "HE" THEN 800 ELSE 400)

\* lltd_wifi_calc_max_rate: the highest mcs, and the guard interval that is
\* the shortest of the family.
calc_max_rate(name, width, nss) ==
    calc_rate(name, width, nss, Families[name].mcs, IF name = "HE" THEN 800 ELSE 400)

-----------------------------------------------------------------------------
(* The reference: IEEE 802.11.                                             *)

\* Data subcarriers of each width: of HT and VHT, and of HE.
Subcarriers == [ofdm |-> <<52, 108, 234, 468>>, he |-> <<234, 468, 980, 1960>>]

\* Bits a subcarrier carries in a symbol, and the coding rate in twelfths.
Modulation == <<<<1, 6>>, <<2, 6>>, <<2, 9>>, <<4, 6>>, <<4, 9>>, <<6, 8>>, <<6, 9>>, <<6, 10>>,
                <<8, 9>>, <<8, 10>>, <<10, 9>>, <<10, 10>>>>

\* How long a symbol is, in tenths of a microsecond: the guard interval comes
\* on top of 3.2 us, or of 12.8 us for HE.
SymbolTime(name, gi) == (IF name = "HE" THEN 128 ELSE 32) + gi \div 100

\* Tenths of Mbit/s of one stream, to the nearest.
StandardRate_x10(name, w, mcs, gi) ==
    LET carriers == IF name = "HE" THEN Subcarriers.he ELSE Subcarriers.ofdm
        bits == carriers[w] * Modulation[mcs + 1][1] * Modulation[mcs + 1][2]
        unit == 12 * SymbolTime(name, gi)
    IN  (200 * bits + unit) \div (2 * unit)
=============================================================================
