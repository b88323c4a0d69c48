------------------------------ MODULE MCMarket ------------------------------
(***************************************************************************)
(* Instances of the components between the market and the accounts.  They  *)
(* share no state, so that one run checks each of them by itself: part     *)
(* names the one that moves.                                               *)
(***************************************************************************)
EXTENDS MarketScan, ExecutionQuotes, RealtimeExits, RegimeRouter, StrategySetups,
        NotificationOutbox

CONSTANTS c1, c2, f1, f2, f3, s1, s2, e1, e2
VARIABLE part

marketVars == <<scanVars, quoteVars, exitVars, regimeVars, setupVars, outboxVars, part>>

-----------------------------------------------------------------------------
MCRankings == {<<"a">>, <<"a", "b", "c">>, <<"c", "b", "a", "d">>, <<"b", "a", "d", "c", "e">>}

\* A trend, its reversal, a wide spread, a long bar, no volatility, a range, its
\* beginning, a tired trend, three in between, and too few bars.
Trending == [short |-> FALSE, d5 |-> "long", d15 |-> "long", d1h |-> "long",
             a5 |-> 80, a15 |-> 80, a1h |-> 80, adx |-> 30, eff |-> 40, chop |-> 45,
             range |-> 100, move3 |-> 100, spread |-> 5, atr |-> 50, rvol |-> 100]
Mixed == [Trending EXCEPT !.d5 = "neutral", !.d15 = "neutral", !.d1h = "short",
                          !.a5 = 40, !.a15 = 40, !.a1h = 40]
MCMarkets ==
    {Trending,
     [Trending EXCEPT !.d5 = "short", !.d15 = "short", !.d1h = "short"],
     [Trending EXCEPT !.spread = 50],
     [Trending EXCEPT !.range = 300],
     [Trending EXCEPT !.atr = 10, !.rvol = 50],
     [Mixed EXCEPT !.adx = 12, !.eff = 8, !.chop = 65],
     [Mixed EXCEPT !.a1h = 60, !.adx = 18, !.eff = 15, !.chop = 54],
     [Trending EXCEPT !.adx = 19, !.eff = 12, !.chop = 57, !.a5 = 100, !.a15 = 100],
     [Trending EXCEPT !.d15 = "neutral", !.a15 = 60, !.adx = 26, !.eff = 20, !.chop = 50],
     [Trending EXCEPT !.d15 = "neutral", !.d5 = "short", !.a5 = 60, !.a15 = 60, !.a1h = 60,
                      !.adx = 26, !.eff = 25, !.chop = 50],
     [Trending EXCEPT !.short = TRUE]}

\* Candles around the level: a retest, a retest that fails, a failed breakout,
\* a continuation and a chase.
Candle(l, c, h, s) == [low |-> l, close |-> c, high |-> h, solid |-> s]
MCFirst5m == {Candle(-20, 40, 60, TRUE), Candle(-90, 10, 30, FALSE)}
MCLater5m == {Candle(-30, 20, 45, TRUE), Candle(-60, -25, 10, FALSE), Candle(-80, -70, 0, FALSE),
              Candle(40, 80, 100, TRUE), Candle(36, 125, 140, TRUE)}
MCSwings == {{}, {150}, {110, 400}}
MCPrice == {-100, -40, 10, 35, 60, 90, 120, 150, 300}

-----------------------------------------------------------------------------
MarketInit ==
    /\ ScanInit /\ QuotesInit /\ ExitsInit /\ RegimeInit /\ SetupsInit /\ OutboxInit
    /\ part \in {"scan", "quotes", "exits", "regime", "setups", "outbox"}

MarketNext ==
    /\ UNCHANGED part
    /\ \/ /\ part = "scan" /\ ScanNext
          /\ UNCHANGED <<quoteVars, exitVars, regimeVars, setupVars, outboxVars>>
       \/ /\ part = "quotes" /\ QuotesNext
          /\ UNCHANGED <<scanVars, exitVars, regimeVars, setupVars, outboxVars>>
       \/ /\ part = "exits" /\ ExitsNext
          /\ UNCHANGED <<scanVars, quoteVars, regimeVars, setupVars, outboxVars>>
       \/ /\ part = "regime" /\ RegimeNext
          /\ UNCHANGED <<scanVars, quoteVars, exitVars, setupVars, outboxVars>>
       \/ /\ part = "setups" /\ SetupsNext
          /\ UNCHANGED <<scanVars, quoteVars, exitVars, regimeVars, outboxVars>>
       \/ /\ part = "outbox" /\ OutboxNext
          /\ UNCHANGED <<scanVars, quoteVars, exitVars, regimeVars, setupVars>>

MarketSpec ==
    /\ MarketInit /\ [][MarketNext]_marketVars
    /\ QuotesFairness /\ ExitsFairness /\ OutboxFairness

\* The market data that is acted on is the right one: quotes, shortlist and books.
MarketDataSafe ==
    /\ [](QuotesTypeOK /\ OneFetch /\ QuoteIsFresh)
    /\ [](ScanTypeOK /\ RotationCovers) /\ ShortlistIsRecent
    /\ [](ExitsTypeOK /\ TickHasItsBook)
=============================================================================
