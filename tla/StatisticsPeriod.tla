-------------------------- MODULE StatisticsPeriod --------------------------
(***************************************************************************)
(* TradingStatistics: an administrator closes a statistics period while    *)
(* the worker trades.  reset asks the database, one query at a time, for   *)
(* open positions, for unsettled ones and for pending orders, measures the *)
(* period and records the next one.  Resets take no lock: they overlap.    *)
(* The mode is LIVE, where an order is reserved before it is sent.         *)
(***************************************************************************)
EXTENDS Integers, FiniteSets

CONSTANTS
    Trade,        \* LIVE positions, each of an account of its own
    Request,      \* calls of reset
    ResetId(_)    \* request_id of a call: a repeated call carries it again

ASSUME StatisticsAssumption == IsFiniteSet(Trade) /\ IsFiniteSet(Request)

VARIABLES
    pending,    \* trades with an active execution_pending row
    position,   \* the positions row; "filled": filled, and the row not stored yet
    opened,     \* opened_at
    shown,      \* trades whose account's profile says LIVE
    switching,  \* trades whose account's profile is being saved with another mode
    clock,      \* moments that are told apart
    periods,    \* statistics_periods: [id, started, counted]
    call,       \* the calls: what each does next, started and counted
    touched     \* ghost: trades that changed while a reset looked at them, or were
                \* reserved while their profile did not say LIVE
                \* (known, of periods and calls, is one too: the ids that were
                \* recorded when the period was measured)

tradeVars == <<pending, position, opened, shown, switching>>
statsVars == <<tradeVars, clock, periods, call, touched>>

Id == {ResetId(q) : q \in Request}
Times == 0..Cardinality(Request)
At == {"idle", "open", "settling", "pending", "report", "record", "done", "refused"}
NoCall == [at |-> "idle", started |-> 0, counted |-> {}, known |-> {}]

StatsTypeOK ==
    /\ pending \subseteq Trade /\ shown \subseteq Trade /\ switching \subseteq Trade
    /\ position \in [Trade -> {"none", "filled", "open", "settling", "closed"}]
    /\ opened \in [Trade -> Times] /\ clock \in Times
    /\ periods \subseteq [id : Id, started : Times, counted : SUBSET Trade, known : SUBSET Id]
    /\ call \in [Request -> [at : At, started : Times, counted : SUBSET Trade, known : SUBSET Id]]
    /\ touched \subseteq Trade

StatsInit ==
    /\ pending = {} /\ position = [p \in Trade |-> "none"]
    /\ opened = [p \in Trade |-> 0] /\ clock = 0
    /\ shown = Trade /\ switching = {}
    /\ periods = {} /\ call = [q \in Request |-> NoCall]
    /\ touched = {}

-----------------------------------------------------------------------------
(* The worker: an order is reserved, filled, its fill is stored and then    *)
(* the reservation is cleared, or it is cleared without a fill.  The        *)
(* position closes and is settled, at once or later.                        *)

Looking(q) == call[q].at \in {"settling", "pending", "report", "record"}
Looked == \E q \in Request : Looking(q)
Touch(p, cond) == touched' = IF cond THEN touched \cup {p} ELSE touched

Becomes(p, status) ==
    /\ position' = [position EXCEPT ![p] = status]
    /\ Touch(p, Looked)
    /\ UNCHANGED <<pending, shown, switching, clock, periods, call>>

Reserve(p) ==
    /\ position[p] = "none" /\ p \notin pending
    /\ pending' = pending \cup {p}
    /\ Touch(p, Looked \/ p \notin shown)
    /\ UNCHANGED <<position, opened, shown, switching, clock, periods, call>>

\* The exchange fills the order: opened_at is its time.
Execute(p) ==
    /\ position[p] = "none" /\ p \in pending
    /\ opened' = [opened EXCEPT ![p] = clock]
    /\ Becomes(p, "filled")

StoreFill(p) ==
    /\ position[p] = "filled"
    /\ Becomes(p, "open") /\ UNCHANGED opened

Clear(p) ==
    /\ p \in pending /\ position[p] # "filled"
    /\ pending' = pending \ {p}
    /\ Touch(p, Looked)
    /\ UNCHANGED <<position, opened, shown, switching, clock, periods, call>>

Close(p) ==
    /\ position[p] = "open"
    /\ \E status \in {"settling", "closed"} : Becomes(p, status)
    /\ UNCHANGED opened

SettleTrade(p) ==
    /\ position[p] = "settling"
    /\ Becomes(p, "closed") /\ UNCHANGED opened

\* UserTradingProfileService.save with another execution_mode: refused while an
\* order is pending, which may be reserved before the profile is written, or a
\* position of the present mode is open.
StartSwitch(p) ==
    /\ p \notin pending \cup switching
    /\ p \in shown => position[p] # "open"
    /\ switching' = switching \cup {p}
    /\ UNCHANGED <<pending, position, opened, shown, clock, periods, call, touched>>

SaveMode(p) ==
    /\ p \in switching
    /\ switching' = switching \ {p}
    /\ shown' = IF p \in shown THEN shown \ {p} ELSE shown \cup {p}
    /\ Touch(p, p \in pending)
    /\ UNCHANGED <<pending, position, opened, clock, periods, call>>

-----------------------------------------------------------------------------
(* reset.                                                                   *)

Goes(q, at) == call' = [call EXCEPT ![q].at = at]
Reads(q, at) == Goes(q, at) /\ UNCHANGED <<tradeVars, clock, periods, touched>>

Recorded == {r.id : r \in periods}

\* The receipt of an earlier call with the same request_id is returned.
Begin(q) ==
    /\ call[q].at = "idle"
    /\ Reads(q, IF ResetId(q) \in Recorded THEN "done" ELSE "open")

With(status) == {p \in Trade : position[p] = status}

\* Mutant: open positions are allowed.
OpenIgnored(q) == call[q].at = "open" /\ Reads(q, "settling")

CountOpen(q) ==
    /\ call[q].at = "open"
    /\ Reads(q, IF With("open") # {} THEN "refused" ELSE "settling")

CountSettling(q) ==
    /\ call[q].at = "settling"
    /\ Reads(q, IF With("settling") # {} THEN "refused" ELSE "pending")

\* An order counts when its account's profile says LIVE.
FindPending(q) ==
    /\ call[q].at = "pending"
    /\ Reads(q, IF pending \cap shown # {} THEN "refused" ELSE "report")

\* current_period: the last one to start, or all of the past.
Since == IF periods = {} THEN 0
         ELSE (CHOOSE r \in periods : \A x \in periods : x.started <= r.started).started

Selected == {p \in With("closed") : opened[p] >= Since}

\* report, and then time_ns for the document.
Measure(q) ==
    /\ call[q].at = "report"
    /\ clock' = clock + 1
    /\ call' = [call EXCEPT ![q] = [at |-> "record", started |-> clock + 1,
                                    counted |-> Selected, known |-> Recorded]]
    /\ UNCHANGED <<tradeVars, periods, touched>>

\* set_once: of two calls with one request_id the first keeps its period.
Receipt(q) == [id |-> ResetId(q), started |-> call[q].started,
               counted |-> call[q].counted, known |-> call[q].known]

Record(q) ==
    /\ call[q].at = "record"
    /\ periods' = IF ResetId(q) \in Recorded THEN periods ELSE periods \cup {Receipt(q)}
    /\ Goes(q, "done")
    /\ UNCHANGED <<tradeVars, clock, touched>>

StatsNext ==
    \/ \E p \in Trade :
          \/ Reserve(p) \/ Execute(p) \/ StoreFill(p) \/ Clear(p) \/ Close(p) \/ SettleTrade(p)
          \/ StartSwitch(p) \/ SaveMode(p)
    \/ \E q \in Request :
          \/ Begin(q) \/ CountOpen(q) \/ CountSettling(q) \/ FindPending(q)
          \/ Measure(q) \/ Record(q)

-----------------------------------------------------------------------------
(* Properties.                                                              *)

Counted(p) == {r \in periods : p \in r.counted}

\* A settled trade that belongs to no measured period and not to the current
\* one is in no statistics any more.
Missed(p) == position[p] = "closed" /\ Counted(p) = {} /\ opened[p] < Since

\* A trade is measured in one period at most.  Two resets that overlap both
\* measure it: no invariant of the module.
CountedOnce == \A p \in Trade : Cardinality(Counted(p)) <= 1

\* A period that was recorded when another one was measured shares no trade
\* with it, whatever else overlaps.
SuccessorsAreDisjoint ==
    \A r, s \in periods : r.id \in s.known => r.counted \cap s.counted = {}

\* Only a trade that moved on while a reset looked at it, or whose order was
\* reserved while its account's profile was leaving LIVE, is missed.
MissedWasMoving == \A p \in Trade : Missed(p) => p \in touched

\* However resets interleave with the worker, with changes of mode and with each
\* other, a trade that rests is lost to no period, and one that was measured
\* is not measured again by a reset that could know.
StatsSafe == StatsTypeOK /\ SuccessorsAreDisjoint /\ MissedWasMoving
=============================================================================
