---------------------------- MODULE RegimeRouter ----------------------------
(***************************************************************************)
(* RegimeEngineV2 for one symbol: what a snapshot looks like (_raw), the   *)
(* state that follows it bar by bar, and the strategy that may trade.      *)
(*                                                                         *)
(* Snapshots of one bar share its closed candles and differ in the quote;  *)
(* only the first one moves the state.  Ratios are in per cent, ATR        *)
(* multiples and scores in hundredths.                                     *)
(*                                                                         *)
(* This is the path of discovery.  The priority monitors do not come here: *)
(* an armed setup triggers without a regime, and a watch is advanced by    *)
(* the raw regime of its snapshot (StrategyRouter.advance_watch).          *)
(***************************************************************************)
EXTENDS Integers

CONSTANTS
    Market,      \* snapshots, as records of what _raw computes from the frames
    ConfirmBars      \* V2_REGIME_CONFIRM_BARS

ASSUME RegimeAssumption == ConfirmBars \in 1..6

VARIABLES
    state,       \* _State of the symbol; bars tells 0 from more
    route,       \* the RegimeResult of the last snapshot
    last,        \* ghost: the candidate that the last bar was opened with
    streak,      \* ghost: bars in a row with that candidate
    calm         \* ghost: bars since one with a SHOCK

regimeVars == <<state, route, last, streak, calm>>

Regime == {"TREND", "RANGE", "SHOCK", "DEAD", "TRANSITION"}
Side == {"long", "short"}

-----------------------------------------------------------------------------
(* _raw.                                                                    *)

Least(x, y) == IF x < y THEN x ELSE y
Most(x, y) == IF x > y THEN x ELSE y
Within(x, top) == Least(top, Most(0, x))

Aligned(m) == m.d15 = m.d1h /\ m.d15 \in Side

RawDirection(m) ==
    IF Aligned(m) THEN m.d15
    ELSE IF m.d1h = m.d5 /\ m.d1h \in Side THEN m.d1h
    ELSE "neutral"

TrendScore(m) ==
    (IF Aligned(m) THEN 3000 ELSE IF RawDirection(m) # "neutral" THEN 1800 ELSE 0)
    + 15 * Most(m.a15, m.a1h)
    + Least(1500, 60 * m.adx)
    + Least(1500, (1500 * m.eff) \div 42)
    + Within((1200 * (60 - m.chop)) \div 18, 1200)
    + 13 * m.a5

RangeScore(m) ==
    Within((2200 * (25 - m.adx)) \div 12, 2200)
    + Within((2200 * (m.chop - 45)) \div 18, 2200)
    + Within((1800 * (48 - m.eff)) \div 30, 1800)
    + (IF Aligned(m) THEN 400 ELSE 2000)
    + 18 * Most(0, 100 - Most(m.a15, m.a1h))

TrendBehaves(m) ==
    \/ m.adx >= 16 /\ m.eff >= 16 /\ m.chop <= 64
    \/ m.adx >= 22 /\ m.eff >= 10 /\ m.chop <= 68
    \/ m.adx >= 28 /\ m.chop <= 55

Shocked(m) == m.range >= 240 \/ m.move3 >= 320 \/ m.spread >= 35
Dead(m) == m.atr <= 12 /\ m.rvol <= 70

Candidate(m) ==
    IF m.short THEN "TRANSITION"
    ELSE IF Shocked(m) THEN "SHOCK"
    ELSE IF Dead(m) THEN "DEAD"
    ELSE IF /\ RawDirection(m) # "neutral" /\ TrendBehaves(m)
            /\ TrendScore(m) >= 6000 /\ TrendScore(m) >= RangeScore(m) + 400
         THEN "TREND"
    ELSE IF /\ RangeScore(m) >= 5600
            /\ RangeScore(m) >= TrendScore(m) - 200 \/ ~TrendBehaves(m)
         THEN "RANGE"
    ELSE "TRANSITION"

\* A RANGE has no direction, nor has a market with too few bars.
Heading(m) == IF m.short \/ Candidate(m) = "RANGE" THEN "neutral" ELSE RawDirection(m)

-----------------------------------------------------------------------------
(* The state, moved by the first snapshot of a bar.                         *)

Settles(r) == [active |-> r, pending |-> "none", count |-> 0, bars |-> 1]

Longest == Most(2, ConfirmBars)
Required(r) == IF r \in {"DEAD", "TRANSITION"} THEN Longest ELSE ConfirmBars

\* Mutant: a bar that agrees with the active regime leaves the pending one.
KeepsPending(s) == s

\* A bar that agrees with the active regime forgets the pending one.
Agrees(s) == [s EXCEPT !.pending = "none", !.count = 0]

\* The first bar is believed, and so is a SHOCK.
AtOnce(s, r) == s.bars = 0 \/ r = "SHOCK"

Advanced(s, r) ==
    IF AtOnce(s, r) THEN Settles(r)
    ELSE IF r = s.active THEN Agrees(s)
    ELSE LET n == IF s.pending = r THEN s.count + 1 ELSE 1
         IN  IF n >= Required(r) THEN Settles(r)
             ELSE [s EXCEPT !.pending = r, !.count = n]

-----------------------------------------------------------------------------
(* The strategy of the active regime, for the snapshot at hand.             *)

Blocked == [direction |-> "neutral", strategy |-> "none", risk |-> 0]

\* Scores are only computed for a market that is neither shocked nor dead.
Scored(m) == ~m.short /\ ~Shocked(m) /\ ~Dead(m)

DevelopingTrend(m) ==
    /\ Scored(m) /\ Heading(m) \in Side /\ TrendScore(m) >= 7200
    /\ m.a15 >= 75 /\ m.a1h >= 75 /\ m.chop <= 58 /\ (m.adx >= 18 \/ m.eff >= 10)

DevelopingRange(m) ==
    /\ Scored(m) /\ RangeScore(m) >= 5200 /\ RangeScore(m) >= TrendScore(m) - 1500
    /\ m.chop >= 52 /\ m.eff <= 18 /\ m.adx <= 35

Breakout(m, risk) == [direction |-> Heading(m), strategy |-> "BREAKOUT_RETEST", risk |-> risk]
Sweep(risk) == [direction |-> "neutral", strategy |-> "LIQUIDITY_SWEEP", risk |-> risk]

Routed(active, m) ==
    IF active = "TREND" /\ Heading(m) \in Side THEN Breakout(m, 100)
    ELSE IF active = "RANGE" THEN Sweep(80)
    ELSE IF active = "TRANSITION" /\ DevelopingTrend(m) THEN Breakout(m, 75)
    ELSE IF active = "TRANSITION" /\ DevelopingRange(m) THEN Sweep(70)
    ELSE Blocked

-----------------------------------------------------------------------------
(* evaluate_snapshot.                                                       *)

RegimeInit ==
    /\ state = [active |-> "TRANSITION", pending |-> "none", count |-> 0, bars |-> 0]
    /\ route = Blocked
    /\ last = "TRANSITION" /\ streak = 0 /\ calm = Longest

\* More bars in a row than are ever required are not told apart.
Another(n) == IF n < Longest THEN n + 1 ELSE n

NewBar(m) ==
    LET r == Candidate(m)
    IN  /\ state' = Advanced(state, r)
        /\ route' = Routed(state'.active, m)
        /\ last' = r
        /\ streak' = IF r # last THEN 1 ELSE Another(streak)
        /\ calm' = IF r = "SHOCK" THEN 0 ELSE Another(calm)

\* The same bar with another quote, or other 15m and 1h frames.
SameBar(m) ==
    /\ state.bars > 0
    /\ route' = Routed(state.active, m)
    /\ UNCHANGED <<state, last, streak, calm>>

RegimeNext == \E m \in Market : NewBar(m) \/ SameBar(m)

-----------------------------------------------------------------------------
(* Properties.                                                              *)

RegimeTypeOK ==
    /\ state \in [active : Regime, pending : Regime \cup {"none"}, count : 0..6, bars : {0, 1}]
    /\ route \in [direction : Side \cup {"neutral"},
                  strategy : {"none", "BREAKOUT_RETEST", "LIQUIDITY_SWEEP"}, risk : 0..100]
    /\ last \in Regime /\ streak \in Nat /\ calm \in Nat

\* Bars that keep saying the same are followed, however they alternated before.
FollowsTheBars == streak >= Required(last) => state.active = last

\* No new signal within ConfirmBars bars of one with a SHOCK, whatever the bars
\* between looked like.  The route is what the scanner looks for new setups with;
\* a setup that is armed already, and a watch, are followed without this state.
NoSignalAfterShock == calm < ConfirmBars => route = Blocked

\* Noise changes nothing: but for the first bar and a SHOCK, another regime is
\* adopted only after as many bars in a row as it requires.
ChangeIsConfirmed ==
    [][state'.active # state.active /\ state.bars > 0 /\ state'.active # "SHOCK"
          => last' = state'.active /\ streak' >= Required(last')]_regimeVars

\* The regime follows the market and not its noise, and new signals follow the
\* regime (RegimeEngineV2.evaluate_snapshot on the scanner's path).
RegimeIsSteady ==
    [](RegimeTypeOK /\ FollowsTheBars /\ NoSignalAfterShock) /\ ChangeIsConfirmed
=============================================================================
