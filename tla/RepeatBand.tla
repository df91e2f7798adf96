----------------------------- MODULE RepeatBand -----------------------------
(***************************************************************************)
(* The enumeration engine of one interface: the RepeatBand automaton with  *)
(* its extra state band_state, and the pacing of periodic Hellos           *)
(* (lltdResponder/lltdAutomata.c, third part of automata_tick).            *)
(*                                                                         *)
(* Time is in units of UnitMs milliseconds: the behaviours are those in    *)
(* which the loop looks at the clock at multiples of UnitMs.  Under that   *)
(* reading every deadline fires at exactly the unit at which the source's  *)
(* now >= deadline first holds, because deadlines are rounded up.          *)
(***************************************************************************)
EXTENDS Automata, Timers

CONSTANTS
    UnitMs,   \* milliseconds in a unit of time
    MaxR      \* bound: r counts up to MaxR Hellos; from 15 on Ni is NMAX anyway

ASSUME BandAssumption == UnitMs \in Nat \ {0} /\ MaxR \in Nat \ {0}

BAND_NMAX  == 10000
BAND_ALPHA == 45
BAND_GAMMA == 10
BAND_TXC   == 4
BAND_BLOCK_TIME       == 300
HELLO_MIN_INTERVAL_MS == 1000
BAND_MUL_FRAME_1      == 6      \* BAND_MUL_FRAME(1) = 20 / 3 in integers

CeilDiv(a, b) == (a + b - 1) \div b
Larger(a, b) == IF a >= b THEN a ELSE b
Smaller(a, b) == IF a <= b THEN a ELSE b

Units(ms) == CeilDiv(ms, UnitMs)

BlockTime == Units(BAND_BLOCK_TIME)
HelloMin  == Units(HELLO_MIN_INTERVAL_MS)

\* Mutant: the delay is not divided by GAMMA.
HelloInterval_NoGamma(Ni) ==
    Units(Larger(CeilDiv(BAND_TXC * Ni * 20, 3), BAND_MUL_FRAME_1))

\* The delay band_choose_hello_time adds to now.
HelloInterval(Ni) ==
    Units(Larger(CeilDiv(BAND_TXC * Ni * 20, BAND_GAMMA * 3), BAND_MUL_FRAME_1))

\* band_update_stats: Ni follows the square of the Hellos heard in the block.
NextNi(band) ==
    IF band.r > 0 /\ band.begun THEN Smaller(BAND_NMAX, BAND_ALPHA * band.r * band.r)
    ELSE band.Ni

VARIABLES
    enumeration,   \* state of the enumeration automaton
    band,          \* band_state: Ni, r, begun and the two deadlines
    sinceTx        \* units since the last periodic Hello, up to HelloMin

bandVars == <<enumeration, band, sinceTx>>

\* No Hello was sent: last_hello_tx_ms = 0 suppresses nothing.
BandInit ==
    /\ enumeration = "Quiescent"
    /\ band = [Ni |-> BAND_ALPHA, r |-> 0, begun |-> FALSE, hello |-> Off, block |-> Off]
    /\ sinceTx = HelloMin

\* Mutant: the first Discover arms the Hello deadline only.
BandOnDiscover_NoBlock ==
    /\ band' = IF enumeration = "Quiescent"
                 THEN [Ni |-> BAND_ALPHA, r |-> 0, begun |-> FALSE,
                       hello |-> HelloInterval(BAND_ALPHA), block |-> band.block]
                 ELSE [band EXCEPT !.begun = TRUE]
    /\ enumeration' = Target(EnumerationTransitions, enumeration, enum_new_session)
    /\ UNCHANGED sinceTx

\* A Discover.  The first one starts the statistics and both deadlines; a
\* later one, in Pausing or Wait, keeps them and marks enumeration as begun.
BandOnDiscover ==
    /\ band' = IF enumeration = "Quiescent"
                 THEN [Ni |-> BAND_ALPHA, r |-> 0, begun |-> FALSE,
                       hello |-> HelloInterval(BAND_ALPHA), block |-> BlockTime]
                 ELSE [band EXCEPT !.begun = TRUE]
    /\ enumeration' = Target(EnumerationTransitions, enumeration, enum_new_session)
    /\ UNCHANGED sinceTx

\* A Hello of another station.
BandOnHello ==
    /\ band' = LET heard == Smaller(band.r + 1, MaxR)
               IN  [band EXCEPT !.r = heard, !.begun = @ \/ heard >= BAND_GAMMA]
    /\ enumeration' = Target(EnumerationTransitions, enumeration, enum_hello)
    /\ UNCHANGED sinceTx

-----------------------------------------------------------------------------
(* The engine's part of automata_tick, given the answers of the session    *)
(* table.  It runs in three stages: follow the table, then the Hello       *)
(* deadline, then the block deadline.                                      *)

\* Mutant: only all_complete is asked, which an empty table answers with TRUE.
EnumerationAfter_NoEmpty(empty, complete) ==
    IF enumeration = "Quiescent" THEN "Quiescent"
    ELSE Target(EnumerationTransitions, enumeration,
                IF complete THEN enum_sess_complete ELSE enum_sess_not_complete)

EnumerationAfter(empty, complete) ==
    IF enumeration = "Quiescent" \/ empty THEN "Quiescent"
    ELSE Target(EnumerationTransitions, enumeration,
                IF complete THEN enum_sess_complete ELSE enum_sess_not_complete)

Disarmed(empty) ==
    IF enumeration # "Quiescent" /\ empty
      THEN [band EXCEPT !.hello = Off, !.block = Off, !.begun = FALSE]
      ELSE band

\* Mutant: a Hello is also due in Wait.
HelloDue_InWait(empty, complete) ==
    EnumerationAfter(empty, complete) # "Quiescent" /\ Due(Disarmed(empty).hello)

HelloDue(empty, complete) ==
    EnumerationAfter(empty, complete) = "Pausing" /\ Due(Disarmed(empty).hello)

\* A Hello less than HELLO_MIN_INTERVAL_MS after the last is put off.
SendsHello(empty, complete) == HelloDue(empty, complete) /\ sinceTx >= HelloMin

AfterHello(empty, complete) ==
    LET b == Disarmed(empty)
    IN  IF SendsHello(empty, complete)
          THEN [b EXCEPT !.hello = Larger(HelloInterval(b.Ni), HelloMin), !.begun = TRUE]
        ELSE IF HelloDue(empty, complete) THEN [b EXCEPT !.hello = HelloMin - sinceTx]
        ELSE b

BlockDue(empty, complete) ==
    EnumerationAfter(empty, complete) = "Pausing" /\ Due(AfterHello(empty, complete).block)

\* Mutant: the delay is chosen before the estimate is updated.
AfterBlock_Early(b) ==
    [b EXCEPT !.Ni = NextNi(b), !.r = 0, !.block = BlockTime, !.hello = HelloInterval(b.Ni)]

\* The end of a block: a new estimate, and a Hello chosen for it.
AfterBlock(b) ==
    [b EXCEPT !.Ni = NextNi(b), !.r = 0, !.block = BlockTime, !.hello = HelloInterval(NextNi(b))]

BandTick(empty, complete) ==
    /\ enumeration' = EnumerationAfter(empty, complete)
    /\ band' = LET b == AfterHello(empty, complete)
               IN  IF BlockDue(empty, complete) THEN AfterBlock(b) ELSE b
    /\ sinceTx' = IF SendsHello(empty, complete) THEN 0 ELSE sinceTx

BandUnitPasses ==
    /\ band' = [band EXCEPT !.hello = CountDown(@), !.block = CountDown(@)]
    /\ sinceTx' = Smaller(sinceTx + 1, HelloMin)
    /\ UNCHANGED enumeration

BandNext ==
    \/ BandOnDiscover
    \/ BandOnHello
    \/ \E empty, complete \in BOOLEAN : BandTick(empty, complete)
    \/ BandUnitPasses

BandSpec == BandInit /\ [][BandNext]_bandVars

-----------------------------------------------------------------------------
BandTypeOK ==
    /\ enumeration \in EnumerationStates
    /\ band \in [Ni : 1..BAND_NMAX, r : 0..MaxR, begun : BOOLEAN,
                 hello : Nat \cup {Off}, block : Armed(BlockTime)]
    /\ sinceTx \in 0..HelloMin

\* Whenever an enumeration runs both deadlines are armed: the tick that takes
\* Wait back to Pausing arms nothing, so a deadline lost on the way would
\* silence the interface for the rest of the enumeration.
DeadlinesArmed == enumeration # "Quiescent" => band.hello # Off /\ band.block # Off

\* Until enumeration has begun (a Hello of ours, a second Discover or GAMMA
\* Hellos of others) the load estimate keeps its initial value, however many
\* blocks have passed.  A part of the inductive invariant (BandEstimateWaits).
EstimateWaitsForBegin ==
    enumeration # "Quiescent" /\ ~band.begun => band.Ni = BAND_ALPHA

\* The Hello deadline is never further away than the load estimated now
\* asks for, or the least interval: when a block lowers the estimate the
\* deadline comes closer with it, and none that was put off, or kept in Wait,
\* is left over from a busier time.
DeadlineFollowsEstimate == band.hello <= Larger(HelloInterval(band.Ni), HelloMin)
=============================================================================
