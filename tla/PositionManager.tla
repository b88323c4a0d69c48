-------------------------- MODULE PositionManager --------------------------
(***************************************************************************)
(* One open position under app/position/manager.py: the stop that moves to *)
(* break-even and to the profit lock, the local exits of DEMO, and in LIVE *)
(* the reconciliation with CoinW and the native stop there, one action     *)
(* between two awaits.  Around it: the saves of the position, a crash, the *)
(* market, and the exchange that closes the position at its own stop.      *)
(*                                                                         *)
(* Prices are integers on both sides of Entry; a gain is a distance from   *)
(* it in the position's favour.                                            *)
(***************************************************************************)
EXTENDS Integers

CONSTANTS
    Live,             \* TRUE: LIVE, FALSE: DEMO
    Dynamic,          \* trade_dynamic_protection_enabled
    SyncRaises,       \* TRUE: CoinWExecutor.ensure_protection always raises, as
                      \* _round_price does in the source (math is not imported)
    Gains,            \* the gains the market visits
    Entry, Risk, Reward,
    BreakEvenGain,    \* fees and the cushion, as a distance
    Tick,             \* the exchange's price step
    Slip,             \* exit_slippage_bps, as a distance
    MaxTime,          \* bound on the moves of the market
    MaxCrashes,
    None

ASSUME ManagerAssumption ==
    /\ {Live, Dynamic, SyncRaises} \subseteq BOOLEAN
    /\ Gains \subseteq Int
    /\ {Entry, Risk, Reward, Tick} \subseteq Nat \ {0}
    /\ {BreakEvenGain, Slip, MaxTime, MaxCrashes} \subseteq Nat

VARIABLES
    side,       \* the position's direction
    time,       \* of the market's last move
    market,     \* the price since then
    ex,         \* at the exchange: the position is open, and its stop
    history,    \* its closing events are in CoinW's history
    pos,        \* the Position in PositionManager.positions
    marked,     \* DEMO: the time of the quote it was last marked with
    pc,         \* where on_snapshot is waiting
    quote,      \* the quote of its snapshot, until it has marked
    fetched,    \* what sync_symbol returned
    settled,    \* settlements had an answer for the position
    changed,    \* the position is in changes: to be saved when sync is done
    job,        \* the snapshot that waits to be saved
    row,        \* the row in positions
    crashes

ram == <<pos, marked, pc, quote, fetched, settled, changed>>
world == <<side, time, market, ex, history>>
disk == <<job, row, crashes>>
vars == <<ram, world, disk>>

At(gain) == IF side = "LONG" THEN Entry + gain ELSE Entry - gain
Gain(price) == IF side = "LONG" THEN price - Entry ELSE Entry - price
Tighter(a, b) == IF side = "LONG" THEN a > b ELSE a < b
Tightest(a, b) == IF Tighter(a, b) THEN a ELSE b
Loosest(a, b) == IF Tighter(a, b) THEN b ELSE a

Stop0 == At(-Risk)
Target == At(Reward)
BreakEven == At(BreakEvenGain)

Price == Int
Quote == [price : Price, at : 0 .. MaxTime]
Position == [status : {"OPEN", "CLOSED"}, stop : Price, best : Price,
             stage : {"INITIAL", "BREAK_EVEN", "PROFIT_LOCK"},
             protected : BOOLEAN, pending : BOOLEAN, settling : BOOLEAN,
             exit : Price \cup {None}, reason : {"none", "SL", "TP2", "EXCHANGE_CLOSED"}]
Row == [open : BOOLEAN, stop : Price]
IsOpen(p) == p # None /\ p.status = "OPEN"

ASSUME NoneAssumption == None \notin Position \cup Quote \cup Row

TypeOK ==
    /\ side \in {"LONG", "SHORT"}
    /\ time \in 0 .. MaxTime
    /\ market \in Price
    /\ ex \in Row
    /\ history \in BOOLEAN
    /\ pos \in Position \cup {None}
    /\ marked \in 0 .. MaxTime
    /\ pc \in {"idle", "sync", "settlements", "reconcile", "held", "saveChanges", "mark", "push"}
    /\ quote \in Quote \cup {None}
    /\ fetched \in Row \cup {None}
    /\ settled \in BOOLEAN
    /\ changed \in BOOLEAN
    /\ job \in Position \cup {None}
    /\ row \in Position \cup {None}
    /\ crashes \in 0 .. MaxCrashes

NewPosition(stop) ==
    [status |-> "OPEN", stop |-> stop, best |-> Entry, stage |-> "INITIAL",
     protected |-> TRUE, pending |-> FALSE, settling |-> FALSE, exit |-> None, reason |-> "none"]

\* A fill that was saved; in LIVE its stop was reasserted or not, or the order
\* is filled and no pass has seen the position yet.
Init ==
    /\ side \in {"LONG", "SHORT"}
    /\ time = 0 /\ market = Entry
    /\ ex = [open |-> Live, stop |-> Stop0]
    /\ history = FALSE
    /\ \/ \E kept \in BOOLEAN :
            /\ kept \/ Live
            /\ pos = [NewPosition(Stop0) EXCEPT !.protected = kept]
       \/ Live /\ pos = None
    /\ row = pos
    /\ marked = 0
    /\ pc = "idle"
    /\ quote = None /\ fetched = None
    /\ settled = FALSE /\ changed = FALSE
    /\ job = None
    /\ crashes = 0
----------------------------------------------------------------------------
(* _apply_dynamic_protection and mark *)

BestSeen(p, price) == Tightest(price, p.best)

\* _management_progress, against the two activation ratios.
Progressed(best, percent) == Gain(best) * 100 >= Reward * percent

LockPrice == Tightest(At((Reward * 35) \div 100), BreakEven)

\* The stop that p's best price earns, short of the target.
Candidate(best) ==
    Loosest(IF Progressed(best, 80) THEN LockPrice ELSE BreakEven, At(Reward - 1))

\* Mutant: the stop moves once.
EarnsOnce(p, price) ==
    LET best == BestSeen(p, price) IN
    /\ Dynamic /\ p.stage = "INITIAL"
    /\ Progressed(best, 55)
    /\ Tighter(Candidate(best), p.stop)

Earns(p, price) ==
    LET best == BestSeen(p, price) IN
    /\ Dynamic
    /\ Progressed(best, 55)
    /\ Tighter(Candidate(best), p.stop)

\* Mutant: the update is pending only where exits are local.
ProtectedUnflagged(p, price) ==
    LET best == BestSeen(p, price) IN
    IF Earns(p, price)
    THEN [p EXCEPT !.best = best, !.stop = Candidate(best), !.pending = ~Live,
                   !.stage = IF Progressed(best, 80) THEN "PROFIT_LOCK" ELSE "BREAK_EVEN"]
    ELSE [p EXCEPT !.best = best]

Protected(p, price) ==
    LET best == BestSeen(p, price) IN
    IF Earns(p, price)
    THEN [p EXCEPT !.best = best, !.stop = Candidate(best), !.pending = Live,
                   !.stage = IF Progressed(best, 80) THEN "PROFIT_LOCK" ELSE "BREAK_EVEN"]
    ELSE [p EXCEPT !.best = best]

\* ExitEngine.evaluate: the stop first.
Action(p, trigger) ==
    IF ~Tighter(trigger, p.stop) THEN "SL"
    ELSE IF ~Tighter(Target, trigger) THEN "TP2" ELSE "none"

\* Mutant: a late exit is filled at the quote, however good.
FillAtQuote(p, action, price) == At(Gain(price) - Slip)

\* close_or_reduce: no better than the barrier, worse by a gap and the slippage.
Fill(p, action, price) ==
    Loosest(At(Gain(price) - Slip), IF action = "SL" THEN p.stop ELSE Target)

Closed(p, action, price) ==
    [p EXCEPT !.status = "CLOSED", !.exit = Fill(p, action, price), !.reason = action]

\* mark in DEMO: the executable price moves the stop and fills the exit, the
\* trigger is the last trade when the snapshot has one.  A mark that changes
\* neither is saved at a bounded cadence.
LocalMark(q, trigger) ==
    LET p == Protected(pos, q.price)
        action == Action(p, trigger)
    IN /\ IF action = "none" THEN pos' = p ELSE pos' = Closed(p, action, q.price)
       /\ marked' = q.at
       /\ \/ job' = pos'
          \/ ~Earns(pos, q.price) /\ action = "none" /\ job' = job

----------------------------------------------------------------------------
(* The market and the exchange *)

\* The exchange closes the position when the price reaches its stop or target.
Crossed(price) == ~Tighter(price, ex.stop) \/ ~Tighter(Target, price)

MarketMoves ==
    /\ time < MaxTime
    /\ time' = time + 1
    /\ \E g \in Gains : market' = At(g)
    /\ market' # market
    /\ ex' = [ex EXCEPT !.open = @ /\ ~Crossed(market')]
    /\ UNCHANGED <<side, history, ram, disk>>

HistoryAppears ==
    /\ Live /\ ~ex.open
    /\ history' = TRUE
    /\ UNCHANGED <<side, time, market, ex, ram, disk>>
----------------------------------------------------------------------------
(* DEMO: the realtime exit path, and the scanner's pass with an older quote *)

RunExitQuote ==
    /\ ~Live /\ IsOpen(pos)
    /\ \E g \in Gains : LocalMark([price |-> At(g), at |-> time], market)
    /\ UNCHANGED <<pc, quote, fetched, settled, changed, row, crashes, world>>

\* The snapshot is taken, and then waits for snapshot_lock.
TakeSnapshot ==
    /\ pc = "idle"
    /\ quote' = [price |-> market, at |-> time]
    /\ pc' = IF Live THEN "sync" ELSE "mark"
    /\ UNCHANGED <<pos, marked, fetched, settled, changed, world, disk>>

ScanMark ==
    /\ ~Live /\ pc = "mark"
    /\ pc' = "idle"
    /\ IF IsOpen(pos)
       THEN LocalMark(quote, quote.price)
       ELSE UNCHANGED <<pos, marked, job>>
    /\ quote' = None
    /\ UNCHANGED <<fetched, settled, changed, row, crashes, world>>
----------------------------------------------------------------------------
(* LIVE: sync, settlements, reconcile_exchange *)

SyncSymbol ==
    /\ pc = "sync"
    /\ fetched' = ex
    /\ pc' = IF IsOpen(pos) /\ ~ex.open THEN "settlements" ELSE "reconcile"
    /\ UNCHANGED <<pos, marked, quote, settled, changed, world, disk>>

Settlements ==
    /\ pc = "settlements"
    /\ settled' = history
    /\ pc' = "reconcile"
    /\ UNCHANGED <<pos, marked, quote, fetched, changed, world, disk>>

\* POSITION_SYNC_ERROR: the pass goes on to mark.
SyncFails ==
    /\ pc \in {"sync", "settlements"}
    /\ pc' = "mark"
    /\ fetched' = None
    /\ UNCHANGED <<pos, marked, quote, settled, changed, world, disk>>

\* Mutant: a position that CoinW does not list is closed at once.
ReconcileMissingCloses ==
    /\ IsOpen(pos) /\ ~fetched.open
    /\ pos' = [pos EXCEPT !.status = "CLOSED", !.settling = FALSE, !.reason = "EXCHANGE_CLOSED"]
    /\ changed' = TRUE

ReconcileMissing ==
    /\ IsOpen(pos) /\ ~fetched.open
    /\ pos' = IF settled
              THEN [pos EXCEPT !.status = "CLOSED", !.settling = FALSE,
                               !.reason = "EXCHANGE_CLOSED"]
              ELSE [pos EXCEPT !.settling = TRUE]
    /\ changed' = TRUE

\* Mutant: the exchange's stop always counts.
ReconcileHeldRemote ==
    /\ IsOpen(pos) /\ fetched.open
    /\ pos' = [pos EXCEPT !.stop = fetched.stop, !.settling = FALSE]
    /\ changed' = (fetched.stop # pos.stop)

\* A managed stop is kept when the exchange's is looser; else the exchange's counts.
ReconcileHeld ==
    /\ IsOpen(pos) /\ fetched.open
    /\ LET managed == pos.stage # "INITIAL" /\ Dynamic
           stop == IF managed THEN Tightest(pos.stop, fetched.stop) ELSE fetched.stop
       IN /\ pos' = [pos EXCEPT !.stop = stop, !.settling = FALSE,
                                !.pending = @ \/ (managed /\ Tighter(pos.stop, fetched.stop))]
          /\ changed' = (stop # pos.stop)

ReconcileRecovered ==
    /\ ~IsOpen(pos) /\ fetched.open
    /\ pos' = NewPosition(fetched.stop)
    /\ changed' = TRUE

ReconcileNothing ==
    /\ ~IsOpen(pos) /\ ~fetched.open
    /\ UNCHANGED <<pos, changed>>

ReconcileExchange ==
    /\ pc = "reconcile"
    /\ ReconcileMissing \/ ReconcileHeld \/ ReconcileRecovered \/ ReconcileNothing
    /\ pc' = "held"
    /\ fetched' = None /\ settled' = FALSE
    /\ UNCHANGED <<marked, quote, world, disk>>

NeedsSync(p) == IsOpen(p) /\ (~p.protected \/ p.pending)

RoundStop(price) ==
    IF side = "LONG" THEN ((price + Tick - 1) \div Tick) * Tick ELSE (price \div Tick) * Tick

\* Mutant: the initial stop is what is sent.
AcknowledgedInitial ==
    /\ ~SyncRaises /\ ex.open
    /\ ex' = [ex EXCEPT !.stop = RoundStop(Stop0)]
    /\ pos' = [pos EXCEPT !.stop = RoundStop(pos.stop), !.protected = TRUE, !.pending = FALSE]

\* ensure_protection: the stop is rounded to the tighter side and sent, and the
\* position takes the price that was sent.
Acknowledged ==
    /\ ~SyncRaises /\ ex.open
    /\ ex' = [ex EXCEPT !.stop = RoundStop(pos.stop)]
    /\ pos' = [pos EXCEPT !.stop = RoundStop(pos.stop), !.protected = TRUE, !.pending = FALSE]

\* An error or a timeout: the request may have arrived.
Unacknowledged ==
    /\ pos' = [pos EXCEPT !.pending = TRUE]
    /\ \/ ex' = ex
       \/ ~SyncRaises /\ ex.open /\ ex' = [ex EXCEPT !.stop = RoundStop(pos.stop)]

SyncHeld ==
    /\ pc = "held" /\ NeedsSync(pos)
    /\ \/ Acknowledged /\ changed' = TRUE
       \/ Unacknowledged /\ UNCHANGED changed
    /\ pc' = "saveChanges"
    /\ UNCHANGED <<side, time, market, history, marked, quote, fetched, settled, disk>>

NothingToSync ==
    /\ pc = "held" /\ ~NeedsSync(pos)
    /\ pc' = "saveChanges"
    /\ UNCHANGED <<pos, marked, quote, fetched, settled, changed, world, disk>>

\* Mutant: a position that was closed is not saved.
SaveOpenChanges ==
    /\ pc = "saveChanges"
    /\ job' = IF changed /\ IsOpen(pos) THEN pos ELSE job
    /\ pc' = "mark"
    /\ changed' = FALSE
    /\ UNCHANGED <<pos, marked, quote, fetched, settled, row, crashes, world>>

SaveChanges ==
    /\ pc = "saveChanges"
    /\ job' = IF changed THEN pos ELSE job
    /\ pc' = "mark"
    /\ changed' = FALSE
    /\ UNCHANGED <<pos, marked, quote, fetched, settled, row, crashes, world>>

LiveMark ==
    /\ Live /\ pc = "mark"
    /\ IF IsOpen(pos)
       THEN /\ pos' = Protected(pos, quote.price)
            /\ \/ job' = pos'
               \/ ~Earns(pos, quote.price) /\ job' = job
            /\ pc' = IF Earns(pos, quote.price) THEN "push" ELSE "idle"
       ELSE pc' = "idle" /\ UNCHANGED <<pos, job>>
    /\ quote' = None
    /\ UNCHANGED <<marked, fetched, settled, changed, row, crashes, world>>

PushProtection ==
    /\ pc = "push"
    /\ Acknowledged \/ Unacknowledged
    /\ job' = pos'
    /\ pc' = "idle"
    /\ UNCHANGED <<side, time, market, history, marked, quote, fetched, settled, changed,
                   row, crashes>>
----------------------------------------------------------------------------
(* Saves and restarts *)

Save ==
    /\ job # None
    /\ row' = job
    /\ job' = None
    /\ UNCHANGED <<ram, world, crashes>>

\* The worker dies; _build_runtime restores the OPEN row.
Restart ==
    /\ crashes < MaxCrashes
    /\ crashes' = crashes + 1
    /\ pos' = IF IsOpen(row) THEN row ELSE None
    /\ marked' = 0
    /\ pc' = "idle"
    /\ quote' = None /\ fetched' = None
    /\ settled' = FALSE /\ changed' = FALSE
    /\ job' = None
    /\ UNCHANGED <<row, world>>
----------------------------------------------------------------------------
Pass ==
    \/ TakeSnapshot \/ ScanMark
    \/ SyncSymbol \/ Settlements \/ SyncFails \/ ReconcileExchange
    \/ SyncHeld \/ NothingToSync \/ SaveChanges
    \/ LiveMark \/ PushProtection

Next ==
    \/ MarketMoves \/ HistoryAppears
    \/ RunExitQuote
    \/ Pass
    \/ Save \/ Restart

Spec == Init /\ [][Next]_vars

(***************************************************************************)
(* The scanner keeps visiting the account, journal workers save what is    *)
(* scheduled, CoinW publishes the history of a closed position, and its    *)
(* requests do not fail for ever.                                          *)
(***************************************************************************)
ManagerFairness ==
    /\ WF_vars(Pass) /\ WF_vars(Save) /\ WF_vars(HistoryAppears)
    /\ SF_vars(SyncSymbol) /\ SF_vars(Settlements)
    /\ SF_vars(SyncHeld /\ Acknowledged)

FairSpec == Spec /\ ManagerFairness
----------------------------------------------------------------------------
(* Properties *)

\* Outside a restart the stop of an open position never gets looser, whatever is
\* late or lost, whichever side the rounding takes and wherever the price goes.
\* reconcile_exchange takes CoinW's stop as it is while the stage is INITIAL; that
\* nobody but the worker moves it there is assumed (no edits by hand).
StopNeverLoosens ==
    [][IsOpen(pos) /\ IsOpen(pos') /\ crashes' = crashes
        => ~Tighter(pos.stop, pos'.stop)]_vars

\* The stop at CoinW does not get looser until the worker restarts, whatever
\* fails in between: what ensure_protection sends is at least as protective.
ExchangeStopKeptInRun == [][crashes' = 0 => ~Tighter(ex.stop, ex'.stop)]_vars

\* A stop that CoinW does not have yet is flagged, so that some pass sends it.
LaggingStopIsFlagged ==
    Live /\ IsOpen(pos) /\ ex.open /\ Tighter(pos.stop, ex.stop) => NeedsSync(pos)

\* The stop is as tight as the best price seen has earned, whatever restarts,
\* reconciliations and lost saves there were in between.
BestPriceIsHonoured ==
    Dynamic /\ IsOpen(pos) /\ Progressed(pos.best, 55)
        => ~Tighter(Candidate(pos.best), pos.stop)

\* A LIVE position is CLOSED only once CoinW has closed it and its settlement
\* can be known.
ClosedIsSettled ==
    Live /\ pos # None /\ ~IsOpen(pos) => ~ex.open /\ history

\* A DEMO exit is never credited a price better than its own barrier.
ExitNoBetterThanBarrier ==
    ~Live /\ pos # None /\ ~IsOpen(pos) =>
        ~Tighter(pos.exit, IF pos.reason = "SL" THEN pos.stop ELSE Target)

\* Paper exits: no fill is better than the barrier that triggered it, and the
\* stop it is judged by is the one the best price earned.
PaperExitsAreFair == TypeOK /\ ExitNoBetterThanBarrier /\ BestPriceIsHonoured

\* "En LIVE, cada cambio del stop se sincroniza con el TPSL de CoinW"
\* (IMPLEMENTACION_Y_DESPLIEGUE.md): a tighter stop reaches CoinW, unless the
\* position closes first.  It does if ensure_protection can succeed and is not
\* refused for ever; with SyncRaises it never does.
StopReachesExchange ==
    LET lagging == Live /\ IsOpen(pos) /\ ex.open /\ Tighter(pos.stop, ex.stop)
    IN lagging ~> ~lagging

\* A position that CoinW has closed is in the end closed in the rows too.
CloseIsLearned ==
    Live /\ ~ex.open /\ IsOpen(row) ~> ~IsOpen(row)
----------------------------------------------------------------------------
(* The inductive invariant behind the safety properties in LIVE.            *)

Flagged(d) == ex.open /\ Tighter(d.stop, ex.stop) => NeedsSync(d)
Unmanaged(d) == d.stage = "INITIAL" => ~Tighter(d.stop, ex.stop)
Managed(d) == d.stage # "INITIAL" => Dynamic
Honoured(d) ==
    Dynamic /\ Progressed(d.best, 55) => ~Tighter(Candidate(d.best), d.stop)
\* What holds of the position holds of every document a restart may bring back,
\* and no such document is ahead of the position.
Sound(d) == IsOpen(d) => Flagged(d) /\ Unmanaged(d) /\ Managed(d) /\ Honoured(d)
Behind(d) == IsOpen(d) /\ IsOpen(pos) => ~Tighter(d.stop, pos.stop)

Documents ==
    /\ Sound(pos) /\ Sound(job) /\ Sound(row)
    /\ Behind(job) /\ Behind(row)
    /\ pos = None => job = None /\ ~IsOpen(row)

\* What a pass has read still holds, or holds for ever.
Reads ==
    /\ pc \notin {"idle", "mark"} => Live
    /\ pc \notin {"idle", "push"} => quote # None
    /\ pc = "push" => IsOpen(pos)
    /\ fetched # None <=> pc \in {"settlements", "reconcile"}
    /\ fetched # None => fetched.stop = ex.stop /\ (ex.open => fetched.open)
    /\ settled => history
    /\ ~Live => ~ex.open

Closing ==
    Live /\ pos # None /\ ~IsOpen(pos) =>
        ~ex.open /\ history /\ (fetched # None => ~fetched.open)

ManagerInv == TypeOK /\ Documents /\ Reads /\ Closing
=============================================================================
