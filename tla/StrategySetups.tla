--------------------------- MODULE StrategySetups ---------------------------
(***************************************************************************)
(* The geometry of a trade from a structure on closed 5m candles to the    *)
(* intent: BreakoutRetestStrategyV2.scan, LiquiditySweepStrategyV2.scan,   *)
(* the watch that is promoted, and EntryLifecycleV2.trigger.               *)
(*                                                                         *)
(* Prices are measured from the level that was broken or swept, in         *)
(* hundredths of the ATR and in the direction of the trade, for the LONG   *)
(* and SHORT branches mirror each other.  Scores and the volume are data:  *)
(* what they decide is a field of the structure.                           *)
(***************************************************************************)
EXTENDS Integers, Sequences, FiniteSets, FiniteSetsExt

CONSTANTS
    First5m,       \* the candle that breaks or sweeps the level
    Later5m,       \* the candles after it
    MaxBars,       \* bound: candles since the structure; older ones are not found
    Width,         \* width of the range that was broken or swept
    Swings,        \* swing barriers the strategy looks at, as sets: those of the
                   \* 5m, 15m and 1h frames for a breakout, of 5m for a sweep
    Strength,      \* of the structure, in per cent
    Quality,       \* of the structure, 0..100
    Price,         \* executable prices while the setup is armed
    Close1m        \* closes of the 1m candle

ASSUME SetupsAssumption ==
    /\ MaxBars \in 1..7
    /\ First5m \cup Later5m \subseteq [low : Int, close : Int, high : Int, solid : BOOLEAN]
    /\ Width \subseteq Nat /\ Strength \subseteq 0..100 /\ Quality \subseteq 0..100
    /\ Price \subseteq Int /\ Close1m \subseteq Int
    /\ \A s \in Swings : s \subseteq Int /\ IsFiniteSet(s)

VARIABLES
    phase,      \* of the symbol
    setup,      \* the candidate that was armed, or NoSetup
    entry,      \* the price of the intent
    spoiled     \* ghost: a poll saw a price that ends the setup

setupVars == <<phase, setup, entry, spoiled>>

Strategies == {"BREAKOUT_RETEST", "LIQUIDITY_SWEEP"}
NoSetup == [strategy |-> "none"]

-----------------------------------------------------------------------------
(* v2_common.                                                               *)

Lesser(x, y) == IF x < y THEN x ELSE y
Greater(x, y) == IF x > y THEN x ELSE y
Clamp(x, low, high) == Lesser(high, Greater(low, x))

\* dynamic_min_rr, in thousandths
MinRR(strategy, quality) ==
    LET q == Greater(0, quality - 68)
    IN  IF strategy = "LIQUIDITY_SWEEP" THEN Clamp(820 - 4 * q, 680, 820)
        ELSE Clamp(1100 - 6 * q, 920, 1100)

\* enforce_stop_distance: at least 55, and no stop at all beyond 180.
StopDistance(price, raw) == Greater(IF raw < price THEN price - raw ELSE raw - price, 55)
StopFits(price, raw) == StopDistance(price, raw) <= 180
StopFor(price, raw) == price - StopDistance(price, raw)

\* nearest_structural_target: candidates are [at, ratio].  Of two at the same
\* price the first one counts: barriers, with a lower ratio, are listed first.
Ahead(price, candidates) == {c \in candidates : c.at > price}
Nearest(price, candidates) ==
    CHOOSE c \in Ahead(price, candidates) : \A x \in Ahead(price, candidates) :
        c.at < x.at \/ (c.at = x.at /\ c.ratio <= x.ratio)

\* target_from_structure
FrontRun(price, c) == price + ((c.at - price) * c.ratio) \div 100
Pays(price, stop, target, minrr) == 1000 * (target - price) >= minrr * (price - stop)

-----------------------------------------------------------------------------
(* _target_plan of the strategies.                                          *)

Expansion(width, strength) ==
    Greater(70, Lesser(Greater(70, (width * (3200 + 28 * strength)) \div 10000),
                       (8500 + 75 * strength) \div 100))

\* Swings ahead, and where the breakout's own range would carry the price.
BreakoutTargets(price, m) ==
    {[at |-> b, ratio |-> 97] : b \in {x \in m.swings : x > price}}
        \cup {[at |-> price + Expansion(m.width, m.strength), ratio |-> 100]}

\* The value area of the range, or internal liquidity before it.
SweepTargets(price, m) ==
    LET mean == (m.width * Clamp(56 + (20 * m.strength) \div 100, 56, 76)) \div 100
        internal == {x \in m.swings : x > price}
    IN  {[at |-> b, ratio |-> 97] : b \in {x \in internal : x = Min(internal) /\ x <= mean}}
            \cup {[at |-> mean, ratio |-> 99]}

Targets(strategy, price, m) ==
    IF strategy = "BREAKOUT_RETEST" THEN BreakoutTargets(price, m) ELSE SweepTargets(price, m)

-----------------------------------------------------------------------------
(* scan.  A market m has the candles since the structure, m.bars[1] on.     *)

Current(m) == m.bars[Len(m.bars)].close
Reject(reason) == [stage |-> reason]

\* The candidate that is built once the structure allows it.
Planned(strategy, m, stage, raw, trigger, invalid) ==
    LET price == Current(m)
        stop == StopFor(price, raw)
        candidates == Targets(strategy, price, m)
        target == FrontRun(price, Nearest(price, candidates))
        minrr == MinRR(strategy, m.quality)
        watching == stage = "WATCH"
    IN  IF ~StopFits(price, raw)
        THEN Reject(IF watching THEN "watch_stop_geometry_invalid" ELSE "stop_geometry_invalid")
        ELSE IF ~watching /\ m.quality < 65 THEN Reject("quality_below_threshold")
        ELSE IF Ahead(price, candidates) = {} \/ ~Pays(price, stop, target, minrr)
        THEN Reject(IF watching THEN "watch_target_geometry_invalid" ELSE "target_geometry_invalid")
        ELSE [stage |-> stage, strategy |-> strategy, signal |-> price, stop |-> stop,
              target |-> target, trigger |-> trigger, invalid |-> invalid, minrr |-> minrr,
              swings |-> m.swings]

Confirmations(m, from, beyond) ==
    {i \in from..Len(m.bars) : m.bars[i].close > beyond /\ m.bars[i].solid}

\* The last candle that came back to the level.
Retests(m) == {i \in 2..Len(m.bars) : m.bars[i].low <= 32}

BreakoutConfirmed(m, retest, confirm) ==
    IF Len(m.bars) - confirm > 3 THEN Reject("continuation_confirmation_stale")
    ELSE IF Current(m) > 115 THEN Reject("entry_chased_after_retest")
    ELSE Planned("BREAKOUT_RETEST", m, "READY", m.bars[retest].low - 16,
                 m.bars[confirm].high, -62)

BreakoutRetested(m, retest) ==
    LET confirmed == Confirmations(m, retest, 0)
    IN  IF confirmed # {} THEN BreakoutConfirmed(m, retest, Min(confirmed))
        ELSE Planned("BREAKOUT_RETEST", m, "WATCH", m.bars[retest].low - 16, 0, -62)

BreakoutScan(m) ==
    IF m.bars[1].close < 4 \/ m.bars[1].close > 135 \/ ~m.bars[1].solid
    THEN Reject("no_fresh_breakout")
    ELSE IF \E i \in 2..Len(m.bars) : m.bars[i].low < -62 THEN Reject("breakout_failed_below_level")
    ELSE IF Retests(m) # {} THEN BreakoutRetested(m, Max(Retests(m)))
    ELSE IF Current(m) <= 155 THEN Planned("BREAKOUT_RETEST", m, "WATCH", -70, 0, -62)
    ELSE Reject("breakout_retest_not_reached")

\* Without a sweep, a price near the lower edge of the range is watched.
EdgeWatched(m) ==
    IF Current(m) > 47 THEN Reject("no_liquidity_sweep")
    ELSE Planned("LIQUIDITY_SWEEP", m, "WATCH", -65, 0, -55)

SweepConfirmed(m, confirm) ==
    IF Len(m.bars) - confirm > 3 THEN Reject("sweep_confirmation_stale")
    ELSE IF Current(m) < -22 THEN Reject("sweep_reclaim_lost")
    ELSE Planned("LIQUIDITY_SWEEP", m, "READY", m.bars[1].low - 18,
                 m.bars[confirm].high, m.bars[1].low - 12)

SweepScan(m) ==
    IF ~(m.bars[1].low \in -125..-5 /\ m.bars[1].close > 0) THEN EdgeWatched(m)
    ELSE LET confirmed == Confirmations(m, 1, 3)
         IN  IF confirmed # {} THEN SweepConfirmed(m, Min(confirmed))
             ELSE Planned("LIQUIDITY_SWEEP", m, "WATCH", m.bars[1].low - 18, 0, m.bars[1].low - 12)

Scan(strategy, m) == IF strategy = "BREAKOUT_RETEST" THEN BreakoutScan(m) ELSE SweepScan(m)

Bars == {b \in UNION {[1..n -> First5m \cup Later5m] : n \in 1..MaxBars} :
            b[1] \in First5m /\ \A i \in 2..Len(b) : b[i] \in Later5m}

Markets == [bars : Bars, width : Width, swings : Swings, strength : Strength, quality : Quality]

-----------------------------------------------------------------------------
(* The symbol.  Regimes, other timeframes and clocks decide whether a scan   *)
(* or a poll gets this far, so that either may also be left out; expiry and  *)
(* persistence are SetupLifecycle's.                                         *)

SetupsInit == phase = "scanning" /\ setup = NoSetup /\ entry = 0 /\ spoiled = FALSE

Armed(c) == phase' = "armed" /\ setup' = c
Watched(strategy) == phase' = "watching" /\ setup' = [strategy |-> strategy]

Discover(strategy, m) ==
    /\ phase = "scanning"
    /\ LET c == Scan(strategy, m)
       IN  \/ c.stage = "READY" /\ Armed(c)
           \/ c.stage = "WATCH" /\ Watched(strategy)
    /\ UNCHANGED <<entry, spoiled>>

\* Rejections that end a watch; the others leave it pending.
Terminal ==
    {"breakout_failed_below_level", "entry_chased_after_retest", "sweep_reclaim_lost",
     "stop_geometry_invalid", "target_geometry_invalid"}

\* advance_watch: the strategy of the watch scans again.
AdvanceWatch(m) ==
    /\ phase = "watching"
    /\ LET c == Scan(setup.strategy, m)
       IN  \/ c.stage = "READY" /\ Armed(c)
           \/ c.stage \in Terminal /\ phase' = "cancelled" /\ UNCHANGED setup
    /\ UNCHANGED <<entry, spoiled>>

\* The setup expired or was consumed, or the watch lost its level, its side or
\* its regime.
Dropped ==
    /\ phase \in {"watching", "armed"} /\ phase' = "cancelled"
    /\ UNCHANGED <<setup, entry, spoiled>>

\* A poll: the executable price, the newest closed 1m candle and the book.
Polls == [price : Price, close : Close1m, solid : BOOLEAN, opposed : BOOLEAN,
          candle : {"waited_for", "confirms"}, book : {"fine", "counterpressure", "conflict"}]

\* A price at the invalidation, the stop or the target ends the setup.
Ends(p) == p.price <= setup.invalid \/ p.price <= setup.stop \/ setup.target <= p.price

Extended(p) == p.price - setup.trigger > 35
Reversed(p) == setup.strategy = "BREAKOUT_RETEST" /\ p.opposed

\* The candle is closed, at most 90 seconds old, not from long before the setup,
\* and closed as the setup expects.
Confirmed(p) == p.candle = "confirms" /\ p.close >= setup.trigger - 8 /\ p.solid

\* What the candle confirmed still holds at the executable price.
Holds(p) ==
    IF setup.strategy = "LIQUIDITY_SWEEP"
    THEN p.price >= Greater(setup.trigger, p.close) - 10 /\ p.book = "fine"
    ELSE setup.trigger - p.price <= 12 /\ p.close - p.price <= 20 /\ p.book # "conflict"

\* Mutant: the reward is that of the signal.
WorthAtSignal(p) == Pays(setup.signal, setup.stop, setup.target, setup.minrr)

Worth(p) == Pays(p.price, setup.stop, setup.target, setup.minrr)

Trigger(p) ==
    /\ phase = "armed"
    /\ \/ /\ Ends(p) \/ (~Extended(p) /\ Reversed(p))
          /\ phase' = "cancelled" /\ UNCHANGED entry
       \/ /\ ~Ends(p) /\ ~Extended(p) /\ ~Reversed(p) /\ Confirmed(p) /\ Holds(p) /\ Worth(p)
          /\ phase' = "triggered" /\ entry' = p.price
       \/ /\ ~Ends(p) /\ (Extended(p) \/ (~Reversed(p) /\ ~(Confirmed(p) /\ Holds(p) /\ Worth(p))))
          /\ UNCHANGED <<phase, entry>>
    /\ spoiled' = (spoiled \/ p.price <= setup.invalid \/ p.price <= setup.stop
                           \/ p.price >= setup.target)
    /\ UNCHANGED setup

SetupsNext ==
    \/ \E s \in Strategies, m \in Markets : Discover(s, m)
    \/ \E m \in Markets : AdvanceWatch(m)
    \/ Dropped
    \/ \E p \in Polls : Trigger(p)

-----------------------------------------------------------------------------
(* Properties.                                                              *)

SetupsTypeOK ==
    /\ phase \in {"scanning", "watching", "armed", "cancelled", "triggered"}
    /\ setup.strategy \in Strategies \cup {"none"}
    /\ entry \in Price \cup {0} /\ spoiled \in BOOLEAN

\* The intent that trigger returns at a later price still is the trade that was
\* planned: the reward at that price is worth the risk; a breakout risks no more
\* than the 1.8 ATR that were allowed when it was armed, although the price has
\* moved; and no swing that lay ahead of the signal stands before the target.
\* (on_snapshot shifts entry and target once more before the order, to a refreshed
\* quote and its slippage: this is about the intent before that.)
IntentIsWorthIt ==
    phase = "triggered" =>
        /\ setup.stop < entry /\ entry < setup.target
        /\ Pays(entry, setup.stop, setup.target, setup.minrr)
        /\ setup.strategy = "BREAKOUT_RETEST" => entry - setup.stop <= 180
        /\ \A b \in setup.swings : b > setup.signal => setup.target < b

\* A setup whose stop, invalidation or target was seen is not traded any more,
\* though the price comes back.
SpoiledIsNotTraded == spoiled => phase = "cancelled"

\* A setup is only traded where it still pays, and not after it was spoiled,
\* however the price came to the trigger.
SetupsSafe == SetupsTypeOK /\ IntentIsWorthIt /\ SpoiledIsNotTraded
=============================================================================
