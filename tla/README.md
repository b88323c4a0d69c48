# KaeleonX in TLA+

KaeleonX (`src/`) trades perpetual futures on CoinW for many accounts from one
Python worker: it scans the market, arms setups, opens at most one position per
account, protects it and closes it, in LIVE with orders at the exchange and in
DEMO against real quotes.  What is hard about it is not the signals but the
bookkeeping around them: one event loop with an `await` in every step, a
database and an exchange that fail or answer late, realtime callbacks beside the
scanner, and workers that restart.  These modules model that bookkeeping.

| module | models | checked by | proved in |
|---|---|---|---|
| `WorkerLease` | `trading/worker_lease.py`, `main.py` | `worker` | `WorkerLease_proofs` |
| `PositionJournal` | `trading/persistence.py`, `_save_position` of `storage/database.py`, and the runtimes whose saves these are | `worker`, `journal_reopened` | `PositionJournal_proofs` |
| `EntryPipeline` | `TradingOrchestrator.on_snapshot` up to a stored fill, `UserRuntimeManager` | `entry_*` | `EntryPipeline_proofs`, `EntryExposure_proofs` |
| `PositionManager` | `position/manager.py` and its callers | `manager_live`, `paper`, `manager_stop` | `PositionManager_proofs` |
| `SetupLifecycle`, `SetupPromise` | watches and armed setups: `strategy/entry_engine_v2.py`, `orchestrator.py`, `runtime.py`; what they promise | `paper`, `setup_stuck` | `SetupLifecycle_proofs` |
| `StrategySetups` | `strategy/breakout_retest_v2.py`, `liquidity_sweep_v2.py`, `v2_common.py`, the trigger | `market` | `Market_proofs` |
| `RegimeRouter` | `regime/v2.py` | `market` | `Market_proofs` |
| `MarketScan` | `market/scanner.py` and the discovery loop of `market/coordinator.py` | `market` | `Market_proofs` |
| `ExecutionQuotes` | `SharedExecutionQuoteProvider` of `market/coordinator.py` | `market` | `Market_proofs` |
| `RealtimeExits` | `monitor_realtime_exits`, `coinw/websocket.py` | `market` | `Market_proofs` |
| `NotificationOutbox` | `telegram/notifications.py` | `market` | `Market_proofs` |
| `Billing` | `billing/service.py`, `referrals/service.py` | `back_office` | `BackOffice_proofs` |
| `Accounts` | `auth/service.py` | `back_office` | `BackOffice_proofs` |
| `StatisticsPeriod` | `trading/statistics.py` | `back_office` | `BackOffice_proofs` |

`MC<module>.tla` gives the constants their values for TLC, one `.cfg` per run.
`MCWorker`, `MCPaper`, `MCMarket` and `MCBackOffice` put together components that
share no state: their variable `part` names the one that moves, so that the run is
the sum, not the product, of their state spaces, and a property of one says nothing
of the others.
`PROJECT.json` maps every definition to the lines it stands for.  Operators under
a comment `Mutant:` are not part of a specification: each is a plausible bug in
the definition below it, and the run named in `PROJECT.json` fails with it.

## Inventory

The components, the state each keeps, what it does, and what makes it correct.

**Worker process and lease** (`trading/worker_lease.py`, `main.py`).  State: the
row of `worker_leases` (owner, expiry), `valid_until` in memory.  `renew` takes
the row if it is free, its own or expired; `run` renews every third of the ttl;
`valid` keeps ten seconds in hand; `main.run` starts, runs a task group, drains
queued writes and releases.  Hard: clocks of two hosts, a renewal whose answer is
late or lost, a kill.  Correct if at most one worker enters trades.

**Trade persistence and position rows** (`trading/persistence.py`,
`storage/database.py`).  State: the rows of `positions`, `execution_pending`,
`armed_setups`, `setup_watches`, `signals`; background tasks and the threads that
`wait_for` abandons.  Correct if older documents never replace newer ones, and
what was reported as saved is stored.

**Entry pipeline** (`orchestrator.py`).  State: `pending_execution`, the book of
positions, the durable claim of a signal.  `on_snapshot` reconciles, marks, checks
the position and the reservation, evaluates strategies and risk, claims, reserves,
submits, saves and notifies, with an await between any two.  Correct if an account
has one entry at a time, an order is never sent twice for a setup, real exposure
can always be found again, and what is recorded says what happened.

**User runtimes** (`trading/runtime.py`).  State: one `UserRuntime` per account
with its own lock and book; the fingerprint of its credentials.  `refresh` builds
and replaces runtimes, `on_snapshot` fans out, `run_exit_quote` marks DEMO
positions outside the lock.  Correct if a replaced runtime does no harm.

**Execution engines** (`execution/`).  Paper: fills at the quote, keeps equity and
fees.  Live: caches equity and instruments, delegates to the executor.

**CoinW executor and transport** (`coinw/`).  `submit_intent` (rounding, limits,
placing, confirming), `ensure_protection`, positions, settlements, order status;
below them HTTP with signatures and websockets.  An answer may be lost after the
request took effect.

**Position management** (`position/`).  State: `positions`, each with its stop,
best price, protection stage and flags.  `mark` moves the stop and exits locally
in DEMO; `reconcile_exchange` follows CoinW in LIVE; `on_snapshot` retries native
protection.  Correct if the stop only tightens, reaches the exchange, and a close
is neither invented nor forgotten.

**Trading profile** (`trading/profile.py`, `execution/profile_manager.py`).  Mode,
capital and credentials per account.  Guards: no change of LIVE credentials with
an open position, verification before LIVE.

**Setup lifecycle** (`strategy/entry_engine_v2.py`, `router.py`, `orchestrator.py`,
`trading/runtime.py`).  State per symbol: at most one watch and one armed setup, the
tombstones of consumed ones, and their rows in `setup_watches`, `armed_setups` and
`armed_consumed_setups`.  The scanner discovers, monitors follow, `trigger` consumes,
`_build_runtime` restores.  Hard: the rows of a symbol share a key while their writes
are retried in the background; monitors act on snapshots taken earlier; a crash
between memory and row.  Correct if a setup that ended is not armed again and each
one ends.

**Strategies** (`strategy/breakout_retest_v2.py`, `liquidity_sweep_v2.py`,
`v2_common.py`).  Pure rules over closed candles that plan a stop, a target and a
minimum ratio; the trade is made later, at another price.  Correct if it still is the
trade that was planned.

**Regime engine** (`regime/v2.py`).  A classification per snapshot, and a state per
symbol that needs agreeing bars before it changes.  Correct if noise changes nothing
and persistent change is followed.

**Risk** (`risk/`).  Size from capital, risk fraction and distance to the stop;
refusals.

**Market data** (`market/`).  A rotation over a ranked shortlist with a fail-safe cache,
monitors for armed setups, watches and exits; quotes shared between accounts,
single-flight with a short cache; a websocket for open positions.  Correct if no
consumer gets data older than its bound, every market is visited and every open
position is streamed.

**Statistics and DEMO account** (`trading/statistics.py`, `demo_account.py`,
`metrics.py`, ...).  Periods that a reset starts; the DEMO balance is the opening
balance plus the net results since the last reset.

**Billing** (`billing/service.py`) and **referrals** (`referrals/service.py`).
Payment orders (CREATED, VERIFYING, CONFIRMED, INVALID, EXPIRED), entitlement,
rewards.  `confirm_payment` reads, verifies on chain and then writes three
documents.  Correct if a payment counts once.

**Accounts and sessions** (`auth/service.py`).  Registration by Telegram,
sessions, recovery codes and one-time passwords with rate limits.

**Notifications** (`telegram/`).  An outbox keyed by the hash of user and text,
delivered by a loop with back-off.

**HTTP API and administration**, **audit log, configuration, data types**,
**backtest**, **frontends and tools**: handlers, output, records, an offline
replay and presentation, without protocol state of their own.

They meet in four places: rows (everything), the event loop (scanner, realtime
exits, background saves and lease renewal interleave at every await), CoinW
(orders, positions and stops change on their own), and the lease (whose validity
the entry pipeline asks twice on the way to an order).  The hazards that follow are
listed line by line in `PROJECT.json`.

## Plan

1. `WorkerLease` – who may trade at all.  *Done, proved.*
2. `PositionJournal` – what survives of a position.  *Done, proved.*
3. `EntryPipeline` – how an account comes to have a position.  *Done, checked; types and
   `OneOrderPerSetup` proved for every setting, the other safety properties for DEMO and,
   in LIVE, for a runtime that is not replaced.*
4. `PositionManager` – what happens to it.  *Done, checked and proved.*
5. `SetupLifecycle` against `SetupPromise` – what leads to it.  *Done, checked and proved,
   the refinement too.*
6. The components around: `StrategySetups`, `RegimeRouter`, `MarketScan`,
   `ExecutionQuotes`, `RealtimeExits`, `NotificationOutbox`, `Billing`, `Accounts`,
   `StatisticsPeriod`.  *Done, checked; every safety property proved.*
7. Proofs worth having next: what LIVE keeps when runtimes are replaced (`EntryPipeline`
   with `Rebuilds`), where the properties as they are do not hold (see Findings).
8. Compositions: the lease with the journal, so that a worker whose lease was taken and
   its successor save at once; the journal as the implementation of the abstract
   `row`/`job` of `PositionManager` and `rows`/`writes` of `EntryPipeline`; two workers
   that deliver one notification.

Modules that will be proved about have no RECURSIVE operator; constants carry the
weakest assumptions that the code justifies.

## WorkerLease

`lease` is the document of `worker_leases`, `phase[w]` the place of process `w` in
`main.run`, `renewal[w]` its `renew()` under way, `validUntil[w]` the attribute,
`queued[w]` whether background writes are left.  A process instance never comes
back (the code draws a uuid per instance), so a restart is another member of
`Worker`.  `renew()` is three steps – the clock is read, the row is taken
atomically, the attribute is set – because it runs in a thread; `RenewError` is a
driver error, before or after the row was written.  `Skew` gives each host a clock.

| run | instance | shows |
|---|---|---|
| `worker` | two workers, clocks one unit apart, ttl 2, margin 1, time to 5, fair | `GuardImpliesOwner`, `OneEntryWorker`, `BoundedOutage`, `LostLeaseIsNoticed` |

Time 5 is more than two ttls: an owner can lose the row to the other while its own renewals
are late, and notice it.  Larger ttls only stretch the same orders of events.  *Fairness*: a live event
loop wakes `run`, and a renewal that was called answers or fails (the driver has
timeouts).  Nothing makes a process start, stop or die, and nothing makes an answer
positive.

*Proved*, for any set of workers, ttl, margin and offsets: `LeaseInvariant`,
`LeaseTypesAndOutage`, `GuardOwnership`, `MutualExclusion`.  The assumption is
`SkewWithinMargin`: no two clocks differ by more than the margin of `valid()`.
`GuardImpliesOwner` is not inductive: `TenureBacked` adds that a deadline a worker
holds, or is about to set, is either covered by the row or already past on some
clock, and `RenewalsCurrent` that a renewal works with a reading that is later than
the one the deadline came from.

## PositionJournal

One position, its row, and the runtimes of its user in the order they are built, in
one worker process after another.  `build[r]` is what has become of runtime `r`:
loading, running (in `_runtimes`), replaced (no longer there, though its jobs and a
handler that holds it go on), or ended, cancelled or dead with its process.
`live[r]` is its Position, `jobs[r][j]` a task of `TradePersistence._background`
with its attempts left, `flight` the commands of threads that may outlive the
`wait_for` around them.  A document is its revision and status.  `Fill`, `Mark` and
`ClosePosition` change the position and start a job; `Send`, `Confirm` and `GiveUp`
are an attempt, its result and the last failure; `Arrive` is `_save_position` with its
revision guard, `Vanish` a command that never arrives.

`Load`, `Install` and `FailBuild` are a build of `refresh`, `DropUser` its last loop.
`StopWorker` ends the task group and `EndWorker` is the rest of `main.run`: it waits
for the jobs of the runtimes in `_runtimes` (`main.py:80`), releases the lease and
returns, whereupon `asyncio.run` cancels the jobs of replaced runtimes and nothing is
logged.  The threads of either go on.  `StartWorker` asks of them only that a *killed*
process's commands have settled, since its lease outlives the driver's timeouts; an
orderly end releases the lease at once, and its threads may land in the time of the
successor.

| run | instance | shows |
|---|---|---|
| `worker` | two runtimes, of one process or of two, one job each, revisions 0 to 2, two attempts, fair | `ReportedIsStored`, `NoSilentLoss`, `RowNeverRegresses`, `DrainEnds` |
| `journal_reopened` | revisions to 3, one attempt | `AckedCloseDurable` fails (finding) |

Revisions 0 to 2 are a fill, a mark and the close, under way in any order; two runtimes
make one replacement, one failed build or one restart, with threads of the first under
way; two attempts, that a first one fails and its thread meets its own retry.
*Fairness*: tasks of the event loop run and `wait_for` ends every wait, so an attempt is
confirmed or given up, and `main.run` goes on when its gather is complete.

*Proved*, for any number of runtimes, jobs, revisions and attempts:
`JournalInvariant`, `ReportedSavesHold`, `ClosesAreCarried`, `RowMonotone`.  Nothing is
assumed of who writes: the invariant is `IdleIsEmpty`, `JobsAreSound` (a landed attempt
is stored or overtaken), `ReportedIsStored` and `Carried` (a close that is not yet stored
is in some job, was reported, or went with its process), and a command that lands only
moves the row forward.  What is *not* so is that a reported close is the stored
position: "overtaken" includes an OPEN document of a higher revision that another
runtime wrote, which is `journal_reopened`.

Left out: two processes at once, which a worker whose lease was taken and its successor
may be until the first notices (the invariant does not ask who
else writes, but the steps of a second process are not in the model).

## EntryPipeline

One account.  `pc[r]` is where `on_snapshot` of runtime `r` waits, one action for the
code between two awaits; `task[r]` the snapshot it handles; `book[r]` and
`pending[r]` its memory; `rows`, `reservation` and `claims` the database; `writes`
the background saves; `exch` the exchange.  A decision that gets as far as a signal
takes a fresh id.  Each await of the database or of CoinW has its error actions,
before and after it took effect.  `Exchange` fills, cancels and closes on its own,
`LocalExit` is the realtime exit of DEMO, `ChangeCredentials`, `StartBuild` and
`Install` are the replacement of a runtime, `FailBuild` a build that raises and pops it
all the same; `Crash` loses memory and restores rows.  `StartBuild` takes what
`_build_runtime` reads first (the rows of positions), `Install` in
one step the last read (the pending row), the write that gives up a row whose position
is known, and the assignment; the reads between the two are of setups.
`ChangeCredentials` does not ask for trading to be off, as `save` does in LIVE: it may
be switched off while a decision is under way.  A user that `refresh` drops
(`trading/runtime.py:469`) is left out.  The strategy, prices and risk are the choice to trigger or to refuse.

| run | instance | shows |
|---|---|---|
| `entry_demo` | DEMO, two decisions on two setups, rebuild | `PaperEntriesAreSound`: `TypeOK`, `RejectedHasNoExposure`, `FillIsReportedOpened`, `OverlapIsReplacement` |
| `entry_live` | LIVE, three decisions on two setups | `TypeOK`, `OneEntryAtATime`, `RejectedHasNoExposure`, `LiveExposureIsDurable`, `OneOrderPerSetup` |
| `entry_resolved` | LIVE, one decision, rebuild and partial fills, fair | `AcceptedIsResolved` |
| `entry_unsent` | LIVE | `UnsentOrderReleased` fails (finding) |

Two runtimes are enough for one replacement or one restart; of three decisions on two
setups two meet on one setup, and one follows a position that was closed.  The
run for liveness names the runtime built first `r1` instead of using symmetry.  *Fairness*: `on_snapshot`, once started, goes on (the
event loop is live; every await has a timeout).  The exchange owes nothing.

*Proved*, for any number of runtimes, setups and decisions, in LIVE and in DEMO, with
runtimes replaced and orders filled in part: `EntryInvariant` (types, and
`ClaimFacts`), `EntryTypes` and `OneOrder`, which is `OneOrderPerSetup`.  The only
assumption is that `None` is no decision and no setup.  `OneOrderPerSetup` is not
inductive: `Deciding` adds that the decision on its way is recorded for the setup of
its snapshot, `Holding` that past `Claim` the setup is claimed by it, and
`SentUnderClaim` that an order once sent was sent under a claim that still stands,
which `set_once` never replaces.

*Proved in LIVE* (`EntryExposure_proofs`), for any number of restarts, setups and
decisions: `LiveInvariant`, `LiveDurability`, `LiveRejections`, `LiveOneEntry`, that is,
`LiveExposureIsDurable`, `RejectedHasNoExposure` and `OneEntryAtATime`.  The hypothesis is
`LiveScope`, the setting of `entry_live`: no runtime is replaced while it works
(`~Rebuilds`) and a cancelled order leaves nothing (`~PartialFills`).  Both are needed;
what happens without them is under Findings.  `SubmitRaises` may be either.  The invariant adds `Solo` (one runtime is
busy), `Truthful` (book, rows and verdicts say nothing that the exchange does not bear
out), `Reserving` (whose reservation is stored, and by which step), `OneExposed`, and
`Stages`: what is known of the account at each await of `on_snapshot`, since a check made
before an await is relied on several awaits later.

*Proved in DEMO*, with runtimes replaced and the process restarted at any point:
`DemoInvariant` and `DemoEntries`, which is `PaperEntriesAreSound`.  A fill exists there only once the runtime
that decided it has it in its book, so the invariant (`Paper`, `Installed`,
`OwnDecision`, `AtWork`, `SentFirst`, `Remembered`) follows a position from the runtime
that made it to the rows and to whoever restored it.  `OverlapIsReplacement` names three ways in which
a runtime enters beside an open position it does not know: it was replaced itself; its
predecessor was; or a runtime about to replace it has read the position, which a process that
died saved late.  The third takes three runtimes, a crash with the save under way and a credential
change right after it, which the run with two runtimes does not reach: the proof that
left it out would not close.

Assumed of CoinW: reads see what happened before them; a position appears with its
fill; `PartialFills` is the only way a cancelled order leaves a position.  Passing
LIVE runs set `SubmitRaises` to FALSE, that is, they are about the code with `math`
imported in `coinw/executor.py`; as it stands `_round_price` raises and no LIVE order
is ever placed (`entry_unsent`).  The window in which a rebuild lets two positions overlap is narrow: credentials
must change and be verified while a decision of the old runtime, or its save, is
under way, or survives it.

## PositionManager

One open position.  `pos` is the Position, `row` and `job` its row and the save that
waits (the order of saves is `PositionJournal`'s subject), `ex` the position and the
stop at CoinW, `market` the price, `quote` the snapshot a pass carries, `fetched` and
`settled` what it has read.  A LIVE pass is `TakeSnapshot`, `SyncSymbol` (CoinW's
positions), `Settlements`, `ReconcileExchange` with its four outcomes, `SyncHeld`
(`ensure_protection` for what needs it; acknowledged, or failed with the request
arrived or not), `SaveChanges`, `LiveMark` (`_apply_dynamic_protection`) and
`PushProtection`.  `SyncFails` goes straight to the mark, as the code does.  In DEMO
`RunExitQuote` marks at any time and `ScanMark` with the quote of its snapshot.
`MarketMoves` closes the position at CoinW when its stop or target is crossed,
`HistoryAppears` publishes the settlement later, `Restart` restores the OPEN row.

Prices are integers; `Tighter` orders them by direction.  A gain of 55% of the way to
the target earns break-even, of 80% the lock at 35% (the code's ratios); stops are
rounded to the tick towards the tighter side, as `RoundStop`.

| run | instance | shows |
|---|---|---|
| `manager_live` | LIVE, both directions, three moves over three gains, one restart, `SyncRaises` FALSE, fair | `StopNeverLoosens`, `LaggingStopIsFlagged`, `BestPriceIsHonoured`, `ClosedIsSettled`, `ExchangeStopKeptInRun`, `CloseIsLearned` |
| `manager_stop` | the same with `SyncRaises` TRUE, as the code stands | `StopReachesExchange` fails (finding) |
| `paper` | DEMO, four moves over six gains, slippage, one restart | `PaperExitsAreFair`: `TypeOK`, `ExitNoBetterThanBarrier`, `BestPriceIsHonoured` |

The prices visit each side of every threshold: beyond the stop, a loss, below
break-even, between break-even and lock, above the lock, beyond the target (the LIVE
runs have three of them: beyond the stop, between break-even and lock, above the lock;
`manager_live` names the actions that LIVE has, `LiveNext`, and `paper` has `Next`).  Three
moves reach break-even and the lock and come back.  Tick 4 makes rounding change every
stop that matters.  *Fairness*: the scanner keeps visiting the account, saves are
tried, CoinW publishes the history of a closed position and does not refuse every
request for ever (strong fairness of the three requests).  With `SyncRaises` a request
to move the stop is never acknowledged, and its fairness says nothing: that the stop
does not arrive is the code's doing.

*Proved*, for every price, distance, tick, setting and number of restarts, with no
assumption but the types of the constants and a positive risk, reward and tick:
`ManagerInvariant`, `NeverLoosens`, `LaggingIsFlagged`, `BestPriceHonoured`,
`LiveCloseIsSettled`.  The invariant says of the position *and of every document a
restart could bring back* that a stop ahead of CoinW's is flagged, that one in the
initial stage is not ahead, and that it honours its best price (`Documents`); that no
such document is ahead of the position; that what a pass has read still holds
(`Reads`); and that a position closed locally is closed and settled at CoinW
(`Closing`).  Without the documents the invariant would not survive a restart.  Also
`ExitsAreFair`, the DEMO exits for every slippage and any order of quotes, and `ExchangeStopKept`:
within one run of the worker no request loosens the stop at CoinW.

Left out: `fixed_exit_profile`, the first target of a partial exit (no caller enables
it), fees beyond their effect on break-even, the revision counter, edits of the stop
by hand at CoinW (in the initial stage reconciliation takes over whatever stop it finds,
`manager.py:355`, also a looser one), a change of the setting `trade_dynamic_protection_enabled` (off by
default, `config/settings.py:30`; the runs switch it on, and the theorems hold for
both).  Target and entry are constant.  `manager_live` sets `SyncRaises` to FALSE, that is,
it is about the code with the import that `_round_price` lacks: `ensure_protection`
rounds through it.

## SetupLifecycle and SetupPromise

One symbol of one account.  `armed` and `watch` are the entries of `armed_setups` and
`watching_setups`, `dead` and `deadW` the tombstones in memory, `armedRow`, `watchRow`
and `tombs` the rows, `writes` the upserts under way, in any order, `polled` a snapshot
of the watch monitor that waits for the account's lock.  A structure stands for the
signature both ids are derived from; times are what is left of them.  `ScanArmed`,
`ScanFree`, `ArmedPriority`, `WatchCancelled`, `WatchPromoted` are what a snapshot does
to the symbol; `PersistArmed` and `PersistWatch` the awaited writes, which may fail or
land later; `Land` and `Lose` the background ones; `Crash`, and a restore in the order
of `_build_runtime`.  A trigger and a cancellation end a setup alike, so that both are
`EndArmed`; that nothing happened is a stutter.

`SetupPromise` is the abstract view: one structure followed, watched first and then
armed, ended and barred for a while; a restart may forget, and never follows what is
barred.  `SetupLifecycle` implements it with what is tracked as it is, the bar as
`dead[s] > 0`, and nothing while the worker is down or restoring (`Promise`).

| run | instance | shows |
|---|---|---|
| `paper` | two structures of one side, all lives 1 unit, two to three writes under way | `LifeTypeOK`, `OneTracked`, `ArmedIsLive`, `EndedOnce`, `KeepsPromise` |
| `setup_stuck` | one structure, lives 1, 2 and 3, fair | `WatchEnds` fails (finding) |

Two structures are two owners of one row.  `MaxWrites` is asked before a snapshot
changes anything, so that a snapshot may add two writes to it.  `EndedOnce` excuses what
the code cannot know: a tombstone whose write was lost by an outage or a crash.
*Fairness* (of `setup_stuck`): threads and retries end, restore proceeds, time passes, and
the monitors poll what they ask for and are processed.  Nothing is assumed of the scanner:
`coordinator.run` rotates over a ranked shortlist that a symbol may leave (lines 581 to
607), and a snapshot may return before the step that would end a setup
(`orchestrator.py:745` to `793`).  For that reason nothing is said of the end of an armed
setup either, once `armed_symbols` has dropped it (`trading/runtime.py:498`): it stays,
as an expired watch does, until a snapshot of its symbol happens to be taken.

*Proved*, for any structures, any lives of setups, watches and tombstones, and any
number of late writes: `SetupInvariant`, `SetupTypes`, `SetupOneTracked`,
`SetupArmedIsLive`, `SetupEndedOnce`, and `SetupKeepsPromise`, that every step is a step
of `SetupPromise` or none of it.  Assumed: a tombstone outlives a setup
and a watch, as with the defaults (`config/settings.py:49`), and `NoSetup` is no
structure and no record.  The invariant adds to
the checked properties `Single` (what a restore may have read so far), `Dated` (a
tombstone row is not younger than the end it stands for, one being written is of the
present unit) and `Remembered`: unless it was lost, an end is known to a worker that runs,
and to the database or a write under way.  A crash between the end and its write is what
`lost` names; an outage that gives up a tombstone already stored loses nothing.
`Remembered` needs `ArmedIsLive`: because a setup that ends has no tombstone, it gets one
of the full life.

## The market run

`StrategySetups` measures prices from the level in hundredths of the ATR, LONG and SHORT
being mirror images.  `Scan` is the `scan` of the two strategies from the candles of a
structure to a candidate or a reason, `AdvanceWatch` the promotion of a watch, `Trigger`
a poll with an executable price, a closed 1m candle and a book.  The instance has
structures of up to five candles out of seven shapes, three widths, qualities on both
sides of each threshold, swings before and behind the targets, and nine prices from
beyond the stop to beyond the target.

`RegimeRouter` has `_raw` as `Candidate`, the state as `Advanced` and the routing as
`Routed`; eleven markets, one or more for each branch of the classification; two bars to confirm.

`MarketScan` is the discovery loop: four shortlists of 1, 3, 4 and 5 symbols, batches
of 2, so that the list changes its length under the cursor, a cache of 2 and a fail-safe
of 3 units.  `ExecutionQuotes` has two accounts and one symbol: joined, abandoned and
late requests (the eviction of a cache that is full needs a second symbol and is not
reached by the instance).  `RealtimeExits` has two symbols.  `NotificationOutbox` has two
events, one of a user who can never be reached, a pass that reads one row, and a crash.
One process delivers: `_delivery_lock` is per process, and two workers that overlap may
send one row twice, which the outbox allows anyway when an outcome is lost.

| property | says |
|---|---|
| `SetupsSafe` | an intent pays at the price that triggered it (`orchestrator.py:1345` rebases entry and target afterwards), and a setup whose stop, invalidation or target was seen is not traded |
| `RegimeIsSteady` | no change without agreeing bars, no delay beyond them, and the scanner finds no new signal for that many bars after a shock |
| `MarketDataSafe` | one request per symbol, no quote or shortlist beyond its age, no trade with the book of an earlier connection, the rotation covers a stable list |
| `SpentIsCleared` | an answer that grew old costs one caller its quote, not the next ones |
| `ExposureIsStreamed` | an open position is streamed in the end |
| `SentIsReceived`, `EventIsSent` | delivery at least once, more than once only after a lost outcome, and whatever cannot be delivered does not block what can |

*Fairness*: the event loop resumes who can go on; the websocket connects, and delivers or
is silent, again and again; the delivery loop goes on, and for an event that is tried again
and again each call succeeds at last.

*Proved* (`Market_proofs`): one theorem per component, and `MarketDataIsSafe` that the
composed specification keeps them all.

| theorem | for | the invariant adds |
|---|---|---|
| `SetupsAreSafe` | all candles, widths, qualities, swings and prices; at most 7 bars | `SoundPlan`: the target is before every swing ahead, a breakout risks at most 1.8 ATR, and the ratio demanded bounds the risk at every price that still pays |
| `RegimeFollowsTheMarket` | all snapshots, 1 to 6 bars to confirm | `PendingIsStreak`: the pending regime and its count are the last bars that agreed; `CalmIsLong`: for that many bars after a shock the state is SHOCK |
| `ScanCovers` | all lists without repetitions, any batch | `RotationGoesOn`: the batches of a stable list lie end to end from where it began |
| `QuotesAreShared` | finitely many callers and symbols, a cache of any size | `RequestsAreKnown`: a request under way is the one its symbol has in the table |
| `TicksHaveTheirBook` | any number of symbols | – |
| `SentWasReceived` | any events, rows per pass and back-off | `BatchIsPending`, `ReceivedIsKnown` |

`QuotesAreShared` includes what the instance does not reach, the eviction of a full cache.
Assumed of the constants: a quote is cached no longer than it may be old, and a scan no
longer than its fail-safe; there are as many names for requests as can be under way at once; the
confirmation setting is one its validator accepts; candles are integers.  The proof of
`SoundPlan` showed that the first model of the nearest barrier did not say which of two
candidates at one price is meant; as in the code, whose sort is stable, it is the one with the lower
ratio.

## The back office run

`Billing` has the user rows of a payer and of the account that referred it, orders,
transaction hashes, and any number of requests served at once (`Client`), with a step
per read that a later write relies on and per write; `Die` ends one anywhere.  As in the
code there is no lock: a request goes on with what it has read, and `stale` names the
rows that another one wrote since.  The unique index of `active_order_key` stops two
insertions (`SlotLost` returns the order that won), the one of `tx_hash` is not unique
(`storage/database.py:110`) and stops nothing.  `legacy` are orders of older builds,
which had no unique slot.  Deadlines are what is left of them; the label `live_state` is
left out.  `BillingSafe` says what the code keeps, with ghosts for what it does not:
`raced` (rows written by a request that had read them before another wrote them), `lost`
(orders whose request died between `CONFIRMED` and the days), `cut` (rewards whose request
died before the payer's row said so).  Days that are lost this way are lost in the model
too: `DaysAddUp` is about runs in which nobody died there.

The instance has one request after the other, with deaths anywhere, and once a second
one at any point of the first; what the two leave behind is then only listed.  Two that
both pass the check of `billing/service.py:289` are among them.  An order that was
granted is not verified again by a request that starts later (`MaxGrants`, a bound that
cuts nothing else), and time passes while one request is served at most.
Only which orders have the same hash matters: the instance names a hash that is alone in the
rows `t1` (`NamedInOrder`), which leaves out renamings only.

`Accounts` has one phone number, two links, two codes and a token; each request may end
after any of its rows.  `StatisticsPeriod` has one trade and three calls of `reset`, of
which one repeats another, one query per step; any two overlap, the worker trades in
between, and the profile by whose mode a pending order counts
(`trading/statistics.py:76`) is saved with another.  The mode is LIVE.  DEMO has no
reservation: there a paper fill whose row is stored after a reset's queries is missed
as well.

| property | says |
|---|---|
| `BillingSafe` | an order is granted once, and the reward paid once, unless two requests raced; confirmed days are lost only by a death between two writes, and otherwise add up; a payment in time is kept, one order is active |
| `SlotReleased` | no order holds the unique slot for ever |
| `AccountsAreSound` | one usable link and code, attempts end, a completed recovery closes every older session |
| `StatsSafe` | however resets overlap, no trade is missed but one that moved during a reset or was reserved while its profile left LIVE; a period shares no trade with one that was recorded when it was measured |

*Fairness* (of `Billing` only): requests end or die, the deadlines of an order that holds
the slot pass, and the user opens the list of orders again and again, which reconciles
them; nothing else in the code would.

*Proved* (`BackOffice_proofs`), with no assumption but that the periods and limits are
positive and the names distinct:

| theorem | for | the invariant adds |
|---|---|---|
| `BillingIsSafe` | any requests at once, orders and hashes, deaths anywhere | `Slots` (the unique slot, and which orders may lack it), `KnowsOrders` and `KnowsPayer` (what a request has read still holds of rows that are not `stale`), `Grants`, `Sums` and `Rewards` (grants, days and rewards, with what is still to be written) |
| `AccountsSound` | any links, codes, passwords and sessions | `OneLink`, `OneCode`, `SessionsOfEra`: an open session is of the present era of the account |
| `StatisticsSafe` | finitely many trades and resets, all at once | `Ticks` and `Periods` (when periods start, and what they knew), `Hidden` (a reservation that a query cannot see is remembered), `Moved` (a trade opened before the current period is counted or has moved), `Calls`: what a call has found is still so, of trades that did not move |

## Findings

Each is a run that TLC ends with a counterexample, and an entry of `PROJECT.json` with
the sentence it contradicts.

- `entry_unsent`: a LIVE decision that fails between reserve and place keeps the
  account reserved for an order that was never sent.  The failure is not rare as the
  code stands: `_round_price` uses `math`, which `coinw/executor.py` does not import.
- `setup_stuck`: a watch that expires between two polls is followed by nobody, and the
  scanner does not search its symbol while it is there.
- `manager_stop`: a moved stop never reaches CoinW, although the scanner keeps asking and
  CoinW refuses nothing, for the same missing import.
- `journal_reopened`: a close that is reported as saved is not the stored position.  A
  save of the first runtime is given up and its thread lives on; the runtime built
  meanwhile restores the older row, counts its own revisions and closes; the thread lands
  a higher revision first, and the guard (`storage/database.py:270`) refuses the close,
  which counts as a success.  The next restart has the position open.

TLC also finds these, which are kept as properties and constants but not as runs:

| property | with | what happens |
|---|---|---|
| `DrainBeforeHandover` (`WorkerLease`) | ttl 2, time to 4 | nothing renews the lease while a stopping worker drains its writes |
| `OneEntryAtATime` (`EntryPipeline`) | `Rebuilds` in DEMO | a replaced runtime and its successor both enter: `snapshot_lock` belongs to one `UserRuntime`, and `refresh` (`trading/runtime.py:464`) installs the next while the old one is inside `on_snapshot` or saves its fill.  `IMPLEMENTACION_Y_DESPLIEGUE.md:57` promises one operation per account at a time; `OverlapIsReplacement` names the ways, and `DemoEntries` proves that there are no others |
| `OneEntryAtATime` (`EntryPipeline`) | `PartialFills` in LIVE | an order cancelled after a partial fill gives up its reservation before its position was seen |
| `RejectedHasNoExposure`, `LiveExposureIsDurable` (`EntryPipeline`) | `PartialFills` in LIVE | the same cancellation: the decision is recorded as rejected, and its position is found by the next pass only |
| `LiveExposureIsDurable` (`EntryPipeline`) | `Rebuilds` in LIVE | a replaced runtime and its successor have both passed the checks; the reservation of the second overwrites that of the order which the first has at CoinW |
| `PaymentGrantedOnce` (`Billing`) | as `back_office` | two requests for one payment both pass the check that it is confirmed (`billing/service.py:289`): its days are granted twice.  `tests/test_backend_hardening.py:28` promises that days are not added twice, and tests one request after the other |
| `CountedOnce` (`StatisticsPeriod`) | as `back_office` | two resets with different ids overlap and both measure the trades of one period (`trading/statistics.py:61`); `IMPLEMENTACION_Y_DESPLIEGUE.md:34` says that each reset starts an independent stage |
| `FillIsReportedOpened` (`EntryPipeline`) | LIVE | a stored fill is recorded as PIPELINE_ERROR when clearing its reservation raises |

And these follow from the models, as behaviours that the properties above allow for:

- After a restart from a row older than the stop at CoinW, a pass whose sync fails may
  send a looser stop (`orchestrator.py:686`); `ExchangeStopKeptInRun` is about one run
  of the worker.  A DEMO snapshot that waited for its lock may close at a quote older than
  the one that moved the stop.
- A close whose retries are exhausted is only logged, and one that a replaced runtime still
  retries when the worker ends is cancelled without a log (`main.py:80`): the position is
  open again after a restart.
- A request that dies between `CONFIRMED` and the grant loses the days: a repeated
  request finds the order confirmed and returns (`billing/service.py:339`); no other write gives them back.
- A trade that moves from pending to open to closed between the queries of a reset
  is in no period (`trading/statistics.py:68` has them one after another).
- Only the last watch of a symbol leaves a tombstone, and only until the watch itself
  would have expired (`orchestrator.py:381`).
- A wide spread that appears after the first snapshot of a bar does not make a SHOCK of
  it: the state moves once per bar.  The monitors do not ask
  the state at all: watches are routed by the raw regime (`strategy/router.py:245`), and
  an armed setup may trigger right after a shock (`orchestrator.py:922`, `1064`).
- A setup may be armed that no price can trigger: the band around its trigger and the
  ratio it needs need not meet.

## What is only model-checked, and what is not covered

Liveness (`LostLeaseIsNoticed`, `DrainEnds`, `AcceptedIsResolved`, `CloseIsLearned`,
`SlotReleased`, `SpentIsCleared`, `ExposureIsStreamed`, `EventIsSent`) is beyond the prover and stays with TLC, under the
fairness that each section states.  Every other property of a run is a theorem, or a
conjunct of one, with the limits that are named above: the LIVE exposure properties in
`LiveScope`, the lease with `SkewWithinMargin`.

Not modelled, and why:

- the legacy engines (`strategy/armed_entry.py`, `prearm_policy.py`, `breakout_retest.py`,
  `liquidity_sweep.py`, `regime/advanced.py`, `state_machine.py`), kept as rollback and
  reference: a snapshot that the V2 regime engine classified never takes their path
  (`strategy/router.py:78`);
- scores and indicators, position sizing, metrics, the DEMO balance: arithmetic of one
  call over floating point numbers, data in the models;
- overlapping requests of one user to `auth/service.py`: `Accounts` has requests that
  die between writes but serves one at a time;
- two worker processes at once, outside `WorkerLease`: the journal, the entry pipeline
  and the outbox have one after the other;
- dashboards, capital and fan-out of the runtimes: what they do to one account is modelled,
  and accounts share only quotes;
- HTTP, signatures and response formats, whose effect is the exchange's nondeterminism;
  hashing and encryption; request handlers that read or write one row; logging,
  configuration, the backtest and the frontends.
