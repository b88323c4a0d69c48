--------------------------- MODULE EntryPipeline ---------------------------
(***************************************************************************)
(* TradingOrchestrator.on_snapshot for one account: from a market snapshot *)
(* to an order and its position, one action between two awaits, together   *)
(* with what runs at the same time: the realtime exits of DEMO, the        *)
(* exchange in LIVE, the background saves of positions, the rebuild of the *)
(* account's runtime after a change of credentials, and a crash.           *)
(*                                                                         *)
(* The strategy, the quotes and the risk rules are abstracted to their     *)
(* outcome.  A setup stands for what claim_id names, and has a symbol of   *)
(* its own.                                                                *)
(***************************************************************************)
EXTENDS Integers, FiniteSets

CONSTANTS
    Runtime,          \* UserRuntime objects, in the order they are built
    Setup,            \* armed setups, each of its own symbol
    Decision,         \* decision ids: one for each snapshot that gets that far
    None,
    Live,             \* TRUE: LIVE, FALSE: DEMO
    SubmitRaises,     \* TRUE: CoinWExecutor.submit_intent always raises
    Rebuilds,         \* TRUE: the credentials may change while the worker runs
    PartialFills      \* TRUE: the exchange may cancel the rest of a filled order

ASSUME EntryAssumption ==
    /\ {Live, SubmitRaises, Rebuilds, PartialFills} \subseteq BOOLEAN
    /\ None \notin Decision \cup Setup

VARIABLES
    phase,        \* phase[r]: "new", "building", "current", "replaced", "gone"
    stale,        \* the profile's fingerprint is not the current runtime's
    pc,           \* pc[r]: where on_snapshot of r is waiting
    task,         \* task[r]: its snapshot, allow_entries and the decision id
    book,         \* book[r][d]: status in PositionManager.positions
    pending,      \* pending[r]: pending_execution
    setupOf,      \* setupOf[d]: the setup that d was made for
    verdict,      \* verdict[d]: the outcome recorded for d
    sent,         \* decisions whose order was submitted
    exch,         \* exch[d]: the order and its position at the exchange
    rows,         \* rows[d]: status of the row in positions
    writes,       \* saves of positions under way
    reservation,  \* the execution_pending row of the user
    claims        \* claims[s]: the decision that claimed s

mem == <<phase, stale, pc, task, book, pending>>
log == <<setupOf, verdict, sent>>
store == <<rows, writes, reservation, claims>>
vars == <<mem, log, exch, store>>

Status == {"none", "OPEN", "CLOSED"}
Stage == {"idle", "queued", "sync", "promote", "clearPromoted", "clearCancelled",
          "gate", "checkPosition", "checkPending", "decide", "claim", "reserve",
          "submit", "clearExpired", "clearRejected", "placed", "noteOrder",
          "saving", "clearFilled"}
NoTask == [setup |-> None, entries |-> FALSE, dec |-> None]
NoPending == [dec |-> None, order |-> FALSE]
NoOrder == [order |-> "none", position |-> "none"]

TypeOK ==
    /\ phase \in [Runtime -> {"new", "building", "current", "replaced", "gone"}]
    /\ stale \in BOOLEAN
    /\ pc \in [Runtime -> Stage]
    /\ task \in [Runtime -> [setup : Setup \cup {None}, entries : BOOLEAN,
                           dec : Decision \cup {None}]]
    /\ book \in [Runtime -> [Decision -> Status]]
    /\ pending \in [Runtime -> [dec : Decision \cup {None}, order : BOOLEAN]]
    /\ setupOf \in [Decision -> Setup \cup {None}]
    /\ verdict \in [Decision -> {"none", "accepted", "REJECTED", "PENDING", "OPENED", "ERROR"}]
    /\ sent \subseteq Decision
    /\ exch \in [Decision -> [order : {"none", "working", "finish", "cancel"},
                              position : {"none", "open", "closed"}]]
    /\ rows \in [Decision -> Status]
    /\ writes \subseteq [dec : Decision, status : {"OPEN", "CLOSED"}]
    /\ reservation \in [active : BOOLEAN, dec : Decision \cup {None}, order : BOOLEAN]
    /\ claims \in [Setup -> Decision \cup {None}]

OfSymbol(r) == {d \in Decision : setupOf[d] = task[r].setup}
OpenIn(r) == {d \in Decision : book[r][d] = "OPEN"}
Goto(r, stage) == pc' = [pc EXCEPT ![r] = stage]
Log(d, event) == verdict' = [verdict EXCEPT ![d] = event]
\* on_snapshot returns after recording the outcome of its decision
Finish(r, event) == Goto(r, "idle") /\ Log(task[r].dec, event)

Init ==
    /\ phase = [r \in Runtime |-> "new"]
    /\ stale = FALSE
    /\ pc = [r \in Runtime |-> "idle"]
    /\ task = [r \in Runtime |-> NoTask]
    /\ book = [r \in Runtime |-> [d \in Decision |-> "none"]]
    /\ pending = [r \in Runtime |-> NoPending]
    /\ setupOf = [d \in Decision |-> None]
    /\ verdict = [d \in Decision |-> "none"]
    /\ sent = {}
    /\ exch = [d \in Decision |-> NoOrder]
    /\ rows = [d \in Decision |-> "none"]
    /\ writes = {}
    /\ reservation = [active |-> FALSE, dec |-> None, order |-> FALSE]
    /\ claims = [s \in Setup |-> None]

-----------------------------------------------------------------------------
(* UserTradingRuntimeManager.                                               *)

\* profile.save: refused with a pending order, and in LIVE with an open row.  That
\* LIVE trading must be off as well is left out: it may be off and a snapshot under
\* way.
ChangeCredentials ==
    /\ Rebuilds
    /\ ~reservation.active
    /\ Live => \A d \in Decision : rows[d] # "OPEN"
    /\ \E r \in Runtime : phase[r] = "current"
    /\ ~stale
    /\ stale' = TRUE
    /\ UNCHANGED <<phase, pc, task, book, pending, log, exch, store>>

\* _build_runtime reads the positions: at a start, or from refresh.
StartBuild(r) ==
    /\ phase[r] = "new"
    /\ \A q \in Runtime : phase[q] # "building"
    /\ stale \/ \A q \in Runtime : phase[q] \in {"new", "gone"}
    /\ phase' = [phase EXCEPT ![r] = "building"]
    /\ book' = [book EXCEPT ![r] =
           [d \in Decision |-> IF rows[d] = "OPEN" THEN "OPEN" ELSE "none"]]
    /\ UNCHANGED <<stale, pc, task, pending, log, exch, store>>

\* _build_runtime reads the reservation and gives up one that it knows the position
\* of, in one step; then refresh installs the runtime in the place of the one before.
Install(r) ==
    /\ phase[r] = "building"
    /\ phase' = [q \in Runtime |-> IF q = r THEN "current"
                                   ELSE IF phase[q] = "current" THEN "replaced"
                                   ELSE phase[q]]
    /\ stale' = FALSE
    /\ LET active == Live /\ reservation.active
           known == reservation.dec \in OpenIn(r)
       IN /\ pending' = [pending EXCEPT ![r] =
                 IF active /\ ~known
                 THEN [dec |-> reservation.dec, order |-> reservation.order]
                 ELSE NoPending]
          /\ reservation' = IF active /\ known
                            THEN [reservation EXCEPT !.active = FALSE]
                            ELSE reservation
    /\ UNCHANGED <<pc, task, book, log, exch, rows, writes, claims>>

\* The build raises: nothing of it remains, and the runtime that was there is popped
\* all the same.  The next refresh builds again.
FailBuild(r) ==
    /\ phase[r] = "building"
    /\ phase' = [q \in Runtime |-> IF q = r THEN "new"
                                   ELSE IF phase[q] = "current" THEN "replaced"
                                   ELSE phase[q]]
    /\ book' = [book EXCEPT ![r] = [d \in Decision |-> "none"]]
    /\ UNCHANGED <<stale, pc, task, pending, log, exch, store>>

\* run_snapshot captures the runtimes it visits; each waits for its lock.
Queue(r, s, entries) ==
    /\ phase[r] = "current"
    /\ pc[r] = "idle"
    /\ Goto(r, "queued")
    /\ task' = [task EXCEPT ![r] = [setup |-> s, entries |-> entries, dec |-> None]]
    /\ UNCHANGED <<phase, stale, book, pending, log, exch, store>>

\* The process dies; its commands to the database may still arrive.
Crash ==
    /\ \E r \in Runtime : phase[r] \in {"current", "replaced"}
    /\ phase' = [r \in Runtime |-> IF phase[r] = "new" THEN "new" ELSE "gone"]
    /\ stale' = FALSE
    /\ pc' = [r \in Runtime |-> "idle"]
    /\ task' = [r \in Runtime |-> NoTask]
    /\ book' = [r \in Runtime |-> [d \in Decision |-> "none"]]
    /\ pending' = [r \in Runtime |-> NoPending]
    /\ UNCHANGED <<log, exch, store>>

\* mark closes a DEMO position: in run_exit_quote, whatever on_snapshot waits
\* for, and at the start of on_snapshot.
LocalExit(r, d) ==
    /\ ~Live
    /\ phase[r] = "current" \/ (pc[r] = "queued" /\ d \in OfSymbol(r))
    /\ book[r][d] = "OPEN"
    /\ book' = [book EXCEPT ![r][d] = "CLOSED"]
    /\ writes' = writes \cup {[dec |-> d, status |-> "CLOSED"]}
    /\ UNCHANGED <<phase, stale, pc, task, pending, log, exch, rows, reservation, claims>>

-----------------------------------------------------------------------------
(* on_snapshot: reconciliation with the exchange.                           *)

\* The snapshot gets its turn; DEMO has nothing to reconcile.
Start(r) ==
    /\ pc[r] = "queued"
    /\ Goto(r, IF Live THEN "sync" ELSE "gate")
    /\ UNCHANGED <<phase, stale, task, book, pending, log, exch, store>>

\* sync_symbol, settlements, reconcile_exchange: a position of the symbol that
\* is gone from the exchange is closed once its settlement is found, one that
\* is not in the book is added, and the one a pending order waits for is saved
\* before the reservation is given up.
Sync(r) ==
    /\ pc[r] = "sync"
    /\ LET missing == {d \in OfSymbol(r) : book[r][d] = "OPEN" /\ exch[d].position # "open"}
           opened == {d \in OfSymbol(r) : book[r][d] # "OPEN" /\ exch[d].position = "open"}
       IN \E settled \in SUBSET missing :
            /\ book' = [book EXCEPT ![r] =
                   [d \in Decision |-> IF d \in settled THEN "CLOSED"
                                       ELSE IF d \in opened THEN "OPEN" ELSE book[r][d]]]
            /\ writes' = writes \cup {[dec |-> d, status |-> "CLOSED"] : d \in settled}
                                \cup {[dec |-> d, status |-> "OPEN"] : d \in opened}
            /\ Goto(r, IF opened # {} /\ pending[r].dec \in OfSymbol(r)
                       THEN "promote" ELSE "gate")
    /\ UNCHANGED <<phase, stale, task, pending, log, exch, rows, reservation, claims>>

\* The exchange did not answer: no entries from this snapshot.
SyncFails(r) ==
    /\ pc[r] = "sync"
    /\ Goto(r, "gate")
    /\ task' = [task EXCEPT ![r] = [setup |-> task[r].setup, entries |-> FALSE, dec |-> None]]
    /\ UNCHANGED <<phase, stale, book, pending, log, exch, store>>

\* Mutant: the reservation is given up whether the position was saved or not.
PromoteUnsaved(r) ==
    /\ pc[r] = "promote"
    /\ Goto(r, "clearPromoted")
    /\ UNCHANGED <<phase, stale, task, book, pending, log, exch, store>>

\* save_position of the promoted position: its row is there, or it gave up.
Promote(r) ==
    /\ pc[r] = "promote"
    /\ \/ /\ \A d \in OpenIn(r) \cap OfSymbol(r) : rows[d] # "none"
          /\ Goto(r, "clearPromoted")
       \/ Goto(r, "gate")
    /\ UNCHANGED <<phase, stale, task, book, pending, log, exch, store>>

\* _clear_pending: the row first, then the memory.  A command that raises may
\* have been applied, and leaves the memory as it is.
Release(r) ==
    /\ reservation' = [reservation EXCEPT !.active = FALSE]
    /\ pending' = [pending EXCEPT ![r] = NoPending]
ReleaseFails(r) ==
    /\ reservation' \in {reservation, [reservation EXCEPT !.active = FALSE]}
    /\ pending' = pending

ClearPromoted(r) ==
    /\ pc[r] = "clearPromoted"
    /\ Release(r) \/ ReleaseFails(r)
    /\ Goto(r, "gate")
    /\ UNCHANGED <<phase, stale, task, book, log, exch, rows, writes, claims>>

-----------------------------------------------------------------------------
(* on_snapshot: may this snapshot lead to an entry?                         *)

\* Mutant: an order the exchange reports as finished is cleared like a cancelled one.
CancelledOrFinished(r) ==
    /\ pending[r].dec \in OfSymbol(r)
    /\ pending[r].order
    /\ exch[pending[r].dec].order \in {"cancel", "finish"}

\* pending_order_status of the reservation's own symbol.
Cancelled(r) ==
    /\ pending[r].dec \in OfSymbol(r)
    /\ pending[r].order
    /\ exch[pending[r].dec].order = "cancel"

GateCancelled(r) ==
    /\ pc[r] = "gate"
    /\ OpenIn(r) = {}
    /\ Cancelled(r)
    /\ Log(pending[r].dec, "REJECTED")
    /\ Goto(r, "clearCancelled")
    /\ UNCHANGED <<phase, stale, task, book, pending, setupOf, sent, exch, store>>

\* An error leaves process_user_snapshot, not only on_snapshot.
ClearCancelled(r) ==
    /\ pc[r] = "clearCancelled"
    /\ \/ Release(r) /\ Goto(r, "gate")
       \/ ReleaseFails(r) /\ Goto(r, "idle")
    /\ UNCHANGED <<phase, stale, task, book, log, exch, rows, writes, claims>>

\* A pending order (its status may be unknown), an open position, no entries
\* allowed, a cooldown, or no signal.
GateSkips(r) ==
    /\ pc[r] = "gate"
    /\ Goto(r, "idle")
    /\ UNCHANGED <<phase, stale, task, book, pending, log, exch, store>>

\* The strategies trigger the setup of this snapshot, under a fresh decision.
Trigger(r, d) ==
    /\ pc[r] = "gate"
    /\ pending[r].dec = None
    /\ OpenIn(r) = {}
    /\ task[r].entries
    /\ setupOf[d] = None
    /\ setupOf' = [setupOf EXCEPT ![d] = task[r].setup]
    /\ task' = [task EXCEPT ![r] = [setup |-> task[r].setup, entries |-> TRUE, dec |-> d]]
    /\ Goto(r, "checkPosition")
    /\ UNCHANGED <<phase, stale, book, pending, verdict, sent, exch, store>>

CheckPosition(r) ==
    /\ pc[r] = "checkPosition"
    /\ IF \E d \in Decision : rows[d] = "OPEN"
       THEN Finish(r, "REJECTED")
       ELSE Goto(r, "checkPending") /\ verdict' = verdict
    /\ UNCHANGED <<phase, stale, task, book, pending, setupOf, sent, exch, store>>

CheckPending(r) ==
    /\ pc[r] = "checkPending"
    /\ IF reservation.active
       THEN Finish(r, "REJECTED")
       ELSE Goto(r, "decide") /\ verdict' = verdict
    /\ UNCHANGED <<phase, stale, task, book, pending, setupOf, sent, exch, store>>

\* A query to the database, or a strategy, raised.
CheckFails(r) ==
    /\ pc[r] \in {"checkPosition", "checkPending", "decide"}
    /\ Finish(r, "ERROR")
    /\ UNCHANGED <<phase, stale, task, book, pending, setupOf, sent, exch, store>>

\* Fresh quote, price guards, risk, geometry, and the first entry_guard.
Decide(r) ==
    /\ pc[r] = "decide"
    /\ \/ Finish(r, "REJECTED")
       \/ Goto(r, "claim") /\ Log(task[r].dec, "accepted")
    /\ UNCHANGED <<phase, stale, task, book, pending, setupOf, sent, exch, store>>

-----------------------------------------------------------------------------
(* on_snapshot: claim, reserve, submit.                                     *)

\* Mutant: upsert instead of set_once.
ClaimedAgain(r) == [claims EXCEPT ![task[r].setup] = task[r].dec]

\* set_once: the first decision to claim a setup keeps it.
Claimed(r) == [claims EXCEPT ![task[r].setup] = IF @ = None THEN task[r].dec ELSE @]

Claim(r) ==
    /\ pc[r] = "claim"
    /\ claims' = Claimed(r)
    /\ IF claims'[task[r].setup] = task[r].dec
       THEN Goto(r, IF Live THEN "reserve" ELSE "submit") /\ verdict' = verdict
       ELSE Finish(r, "REJECTED")
    /\ UNCHANGED <<phase, stale, task, book, pending, setupOf, sent, exch, rows, writes, reservation>>

\* entry_guard is closed, or set_once raised: before or after it took effect.
ClaimFails(r) ==
    /\ pc[r] = "claim"
    /\ claims' \in {claims, Claimed(r)}
    /\ Finish(r, "ERROR")
    /\ UNCHANGED <<phase, stale, task, book, pending, setupOf, sent, exch, rows, writes, reservation>>

\* Mutant: the reservation names the setup instead of the decision.
ReservedSetup(r) == [active |-> TRUE, dec |-> task[r].setup, order |-> FALSE]
Reserved(r) == [active |-> TRUE, dec |-> task[r].dec, order |-> FALSE]

Reserve(r) ==
    /\ pc[r] = "reserve"
    /\ reservation' = Reserved(r)
    /\ pending' = [pending EXCEPT ![r] = [dec |-> task[r].dec, order |-> FALSE]]
    /\ Goto(r, "submit")
    /\ UNCHANGED <<phase, stale, task, book, log, exch, rows, writes, claims>>

ReserveFails(r) ==
    /\ pc[r] = "reserve"
    /\ reservation' \in {reservation, Reserved(r)}
    /\ Finish(r, "ERROR")
    /\ UNCHANGED <<phase, stale, task, book, pending, setupOf, sent, exch, rows, writes, claims>>

\* The quote grew older than ten seconds while claim and reserve waited.
QuoteExpired(r) ==
    /\ pc[r] = "submit"
    /\ IF Live THEN Goto(r, "clearExpired") /\ verdict' = verdict
               ELSE Finish(r, "REJECTED")
    /\ UNCHANGED <<phase, stale, task, book, pending, setupOf, sent, exch, store>>

ClearExpired(r) ==
    /\ pc[r] = "clearExpired"
    /\ \/ Release(r) /\ Finish(r, "REJECTED")
       \/ ReleaseFails(r) /\ Finish(r, "ERROR")
    /\ UNCHANGED <<phase, stale, task, book, setupOf, sent, exch, rows, writes, claims>>

\* Mutant: the handler of submit returns without an event.
SubmitFailsQuietly(r) ==
    /\ pc[r] = "submit"
    /\ Goto(r, "idle")
    /\ UNCHANGED <<phase, stale, task, book, pending, log, exch, store>>

\* The second entry_guard is closed, or submit raises before the order is
\* placed: the instrument query, the protection prices, the connection.
SubmitFails(r) ==
    /\ pc[r] = "submit"
    /\ Finish(r, "ERROR")
    /\ UNCHANGED <<phase, stale, task, book, pending, setupOf, sent, exch, store>>

\* The executor refuses: spread, margin, geometry; instrument, size, leverage.
Blocked(r) ==
    /\ pc[r] = "submit"
    /\ Live => ~SubmitRaises
    /\ Log(task[r].dec, "REJECTED")
    /\ Goto(r, IF Live THEN "clearRejected" ELSE "idle")
    /\ UNCHANGED <<phase, stale, task, book, pending, setupOf, sent, exch, store>>

ClearRejected(r) ==
    /\ pc[r] = "clearRejected"
    /\ Release(r) \/ ReleaseFails(r)
    /\ Goto(r, "idle")
    /\ UNCHANGED <<phase, stale, task, book, log, exch, rows, writes, claims>>

\* The finalization stage up to save_fill: the book first, then the database.
Finalize(r) ==
    LET d == task[r].dec
    IN /\ book' = [book EXCEPT ![r] = [book[r] EXCEPT ![d] = "OPEN"]]
       /\ pending' = [pending EXCEPT ![r] = NoPending]
       /\ writes' = writes \cup {[dec |-> d, status |-> "OPEN"]}
       /\ Goto(r, "saving")

PaperFill(r) ==
    /\ ~Live
    /\ pc[r] = "submit"
    /\ sent' = sent \cup {task[r].dec}
    /\ Finalize(r)
    /\ UNCHANGED <<phase, stale, task, setupOf, verdict, exch, rows, reservation, claims>>

\* orders.place
Place(r) ==
    /\ Live
    /\ ~SubmitRaises
    /\ pc[r] = "submit"
    /\ sent' = sent \cup {task[r].dec}
    /\ exch' = [exch EXCEPT ![task[r].dec] = [order |-> "working", position |-> "none"]]
    /\ Goto(r, "placed")
    /\ UNCHANGED <<phase, stale, task, book, pending, setupOf, verdict, store>>

\* Mutant: a lost answer is taken for a rejection.
PlaceRejected(r) ==
    /\ pc[r] = "placed"
    /\ Finish(r, "REJECTED")
    /\ UNCHANGED <<phase, stale, task, book, pending, setupOf, sent, exch, store>>

\* The answer to orders.place is lost.
PlaceFails(r) ==
    /\ pc[r] = "placed"
    /\ Finish(r, "ERROR")
    /\ UNCHANGED <<phase, stale, task, book, pending, setupOf, sent, exch, store>>

\* _confirm_order saw the position.
Confirmed(r) ==
    /\ pc[r] = "placed"
    /\ exch[task[r].dec].position = "open"
    /\ Finalize(r)
    /\ UNCHANGED <<phase, stale, task, log, exch, rows, reservation, claims>>

\* It did not, or the answer carried no order id.
Unconfirmed(r) ==
    /\ pc[r] = "placed"
    /\ \E known \in BOOLEAN :
         pending' = [pending EXCEPT ![r] = [dec |-> task[r].dec, order |-> known]]
    /\ Log(task[r].dec, "PENDING")
    /\ Goto(r, "noteOrder")
    /\ UNCHANGED <<phase, stale, task, book, setupOf, sent, exch, store>>

NoteOrder(r) ==
    /\ pc[r] = "noteOrder"
    /\ reservation' \in {[reservation EXCEPT !.active = TRUE, !.order = pending[r].order],
                         reservation}
    /\ Goto(r, "idle")
    /\ UNCHANGED <<phase, stale, task, book, pending, log, exch, rows, writes, claims>>

\* save_fill returns: the position has its row, or the bounded wait is over and
\* schedule_fill_retry takes over.
Saved(r) ==
    /\ pc[r] = "saving"
    /\ rows[task[r].dec] # "none"
    /\ IF Live THEN Goto(r, "clearFilled") /\ verdict' = verdict
               ELSE Finish(r, "OPENED")
    /\ UNCHANGED <<phase, stale, task, book, pending, setupOf, sent, exch, store>>

\* Mutant: a fill that could not be stored is recorded as a rejection.
NotSavedRejects(r) ==
    /\ pc[r] = "saving"
    /\ Finish(r, "REJECTED")
    /\ UNCHANGED <<phase, stale, task, book, pending, setupOf, sent, exch, store>>

NotSaved(r) ==
    /\ pc[r] = "saving"
    /\ Finish(r, "OPENED")
    /\ UNCHANGED <<phase, stale, task, book, pending, setupOf, sent, exch, store>>

\* An error here ends in the handler that logs PIPELINE_ERROR.
ClearFilled(r) ==
    /\ pc[r] = "clearFilled"
    /\ \/ Release(r) /\ Finish(r, "OPENED")
       \/ ReleaseFails(r) /\ Finish(r, "ERROR")
    /\ UNCHANGED <<phase, stale, task, book, setupOf, sent, exch, rows, writes, claims>>

-----------------------------------------------------------------------------
(* The exchange, and the saves under way.                                   *)

\* The order is filled; is cancelled, in part or in full; its position closes.
Exchange(d) ==
    /\ \/ /\ exch[d].order = "working"
          /\ \/ exch' = [exch EXCEPT ![d] = [order |-> "finish", position |-> "open"]]
             \/ exch' = [exch EXCEPT ![d] = [order |-> "cancel", position |-> "none"]]
             \/ /\ PartialFills
                /\ exch' = [exch EXCEPT ![d] = [order |-> "cancel", position |-> "open"]]
       \/ /\ exch[d].position = "open"
          /\ exch' = [exch EXCEPT ![d] = [order |-> exch[d].order, position |-> "closed"]]
    /\ UNCHANGED <<mem, log, store>>

\* Database._save_position never reopens a row.
Land(w) ==
    /\ writes' = writes \ {w}
    /\ rows' = [rows EXCEPT ![w.dec] = IF @ = "CLOSED" THEN "CLOSED" ELSE w.status]
    /\ UNCHANGED <<mem, log, exch, reservation, claims>>

\* Every attempt failed, or the process died.
Lose(w) ==
    /\ writes' = writes \ {w}
    /\ UNCHANGED <<mem, log, exch, rows, reservation, claims>>

OnSnapshot(r) ==
    \/ Start(r) \/ Sync(r) \/ SyncFails(r) \/ Promote(r) \/ ClearPromoted(r)
    \/ GateCancelled(r) \/ ClearCancelled(r) \/ GateSkips(r)
    \/ \E d \in Decision : Trigger(r, d)
    \/ CheckPosition(r) \/ CheckPending(r) \/ CheckFails(r) \/ Decide(r)
    \/ Claim(r) \/ ClaimFails(r) \/ Reserve(r) \/ ReserveFails(r)
    \/ QuoteExpired(r) \/ ClearExpired(r) \/ SubmitFails(r)
    \/ Blocked(r) \/ ClearRejected(r) \/ PaperFill(r) \/ Place(r)
    \/ PlaceFails(r) \/ Confirmed(r) \/ Unconfirmed(r) \/ NoteOrder(r)
    \/ Saved(r) \/ NotSaved(r) \/ ClearFilled(r)

Next ==
    \/ ChangeCredentials
    \/ Crash
    \/ \E r \in Runtime :
         \/ StartBuild(r)
         \/ Install(r)
         \/ FailBuild(r)
         \/ OnSnapshot(r)
         \/ \E s \in Setup, entries \in BOOLEAN : Queue(r, s, entries)
         \/ \E d \in Decision : LocalExit(r, d)
    \/ \E d \in Decision : Exchange(d)
    \/ \E w \in writes : Land(w) \/ Lose(w)

Spec == Init /\ [][Next]_vars

\* Every await of on_snapshot returns: the event loop runs, the driver and the
\* exchange client have timeouts.
FairSpec == Spec /\ \A r \in Runtime : WF_vars(OnSnapshot(r))

-----------------------------------------------------------------------------
(* Properties.                                                              *)

\* The account holds d: in LIVE at the exchange, in DEMO in a runtime's book.
Exposed(d) ==
    IF Live
    THEN exch[d].order = "working" \/ exch[d].position = "open"
    ELSE /\ \E r \in Runtime : book[r][d] = "OPEN"
         /\ \A r \in Runtime : book[r][d] # "CLOSED"

\* "Cada usuario abre como máximo una operación a la vez ... posiciones abiertas
\* y órdenes pendientes" (IMPLEMENTACION_Y_DESPLIEGUE.md): at the moment an
\* order is sent the account has neither a position nor a working order,
\* whatever its saves, crashes and restarts left in the database.
OneEntryAtATime ==
    [][sent' # sent => \A d \in Decision : ~Exposed(d)]_vars

\* A setup leads to one order in all, across restarts and concurrent runtimes
\* (the comment on claim_id in on_snapshot).
OneOrderPerSetup ==
    \A d, e \in sent : setupOf[d] = setupOf[e] => d = e

\* A decision recorded as rejected has no order or position (EXECUTION_REJECTED
\* of on_snapshot).
RejectedHasNoExposure ==
    \A d \in Decision : verdict[d] = "REJECTED" => ~Exposed(d)

\* An order or a position at the exchange can be found again after a crash at
\* any point: its reservation is active or its position is stored as open.
LiveExposureIsDurable ==
    Live => \A d \in Decision : Exposed(d) =>
        \/ reservation.active /\ reservation.dec = d
        \/ rows[d] = "OPEN"

\* "A confirmed fill is inserted into in-memory position state immediately ...
\* POSITION_OPENED is emitted" (CORE_PIPELINE_REFACTOR.md; the finalization
\* stage of on_snapshot): once its position is in the book, the only outcome
\* still recorded for a decision is that it was opened.
FillIsReportedOpened ==
    [][\A d \in Decision :
         (\E r \in Runtime : book[r][d] # "none") /\ verdict'[d] # verdict[d]
             => verdict'[d] = "OPENED"]_vars

\* The lock of a runtime keeps its own entries apart, whatever exits do meanwhile:
\* an account that enters beside an open position does not know the position, and
\* has had a runtime replaced, or is about to have one replaced by a runtime that
\* has read the position, which a process that died saved late.
OverlapIsReplacement ==
    [][\A r \in Runtime, d \in Decision :
         task[r].dec \in sent' \ sent /\ Exposed(d)
             => /\ book[r][d] = "none"
                /\ \/ phase[r] = "replaced"
                   \/ \E q \in Runtime : phase[q] = "replaced" /\ book[q][d] = "OPEN"
                   \/ \E q, p \in Runtime :
                        phase[q] = "building" /\ book[q][d] = "OPEN" /\ phase[p] = "gone"]_vars

\* Paper entries: a fill that is in the book is reported as opened, a rejected
\* decision has no position, and positions overlap only around a replacement.
PaperEntriesAreSound ==
    /\ FillIsReportedOpened
    /\ OverlapIsReplacement
    /\ [](TypeOK /\ RejectedHasNoExposure)

\* "En LIVE se limpia la reserva de esa orden aún no enviada" (FIX_V6_21.md): a
\* decision that ended without sending its order does not hold the account.
UnsentOrderReleased ==
    \A r \in Runtime, d \in Decision :
        /\ verdict[d] \in {"REJECTED", "ERROR"}
        /\ d \notin sent
        /\ pc[r] = "idle"
        => pending[r].dec # d

\* An accepted signal gets its outcome, however the database and the exchange
\* answer (the pipeline contract of CORE_PIPELINE_REFACTOR.md).
AcceptedIsResolved ==
    \A r \in Runtime, d \in Decision :
        task[r].dec = d /\ verdict[d] = "accepted"
            ~> task[r].dec # d \/ verdict[d] # "accepted"
=============================================================================
