-------------------------------- MODULE MCHost --------------------------------
(***************************************************************************)
(* Model for TLC of what a host tells about itself: its Hellos and large   *)
(* properties (HostProperties), and what the Wi-Fi tool reports of it      *)
(* (WifiMetrics).  The two share nothing, so a behaviour is one of either, *)
(* while the other rests where it starts.                                  *)
(***************************************************************************)
EXTENDS HostProperties

CONSTANTS Streams, Codings

VARIABLES air, stage, got, search, result, roamed, subject

W == INSTANCE WifiMetrics

ASSUME MCHostAssumption == W!MetricsAssumption

toolVars == <<air, stage, got, search, result, roamed>>

allVars == <<port, sys, hello, cache, read, air, stage, got, search, result, roamed, subject>>

MCInit ==
    /\ subject \in {"host", "tool"}
    /\ Init /\ W!Init
    /\ subject = "host" => air = W!NoLink
    /\ subject = "tool" => /\ port = "Linux" /\ sys.hwid = NoData
                           /\ \A m \in Mtus : sys.mtu <= m
                           /\ sys.icon.size = 0 /\ \A s \in IconSizes \ {0} : sys.name.size <= s

MCNext ==
    \/ subject = "host" /\ Next /\ UNCHANGED toolVars /\ UNCHANGED subject
    \/ subject = "tool" /\ W!Next /\ UNCHANGED vars /\ UNCHANGED subject

MCSpec == MCInit /\ [][MCNext]_allVars

-----------------------------------------------------------------------------
\* The rate tables are those of the standard: see WifiMetrics.
RatesStandard == W!RatesStandard

\* The inferred parameters are the nearest: see WifiMetrics.
InferredNearest == W!InferredNearest

\* The maximum reported is no less than the link's rate: see WifiMetrics.
MaxCovers == W!MaxCovers
=============================================================================
