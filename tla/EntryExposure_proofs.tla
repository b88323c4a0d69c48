------------------------ MODULE EntryExposure_proofs ------------------------
(***************************************************************************)
(* Proofs about what EntryPipeline lets an account hold.  In LIVE, what it *)
(* holds at the exchange can be found again after a crash at any point, a  *)
(* rejected decision holds nothing, and an order is sent only by an        *)
(* account that holds nothing.  In DEMO, with runtimes rebuilt at any      *)
(* point, a fill is reported as opened, a rejected decision holds nothing, *)
(* and positions overlap only around the replacement of a runtime.         *)
(***************************************************************************)
EXTENDS EntryPipeline_proofs

\* The account trades at the exchange, under the credentials it started with,
\* and an order is cancelled as a whole.
LiveScope == Live /\ ~Rebuilds /\ ~PartialFills

-----------------------------------------------------------------------------
(* The inductive invariant. *)

\* A worker has one runtime of the account at a time, and only that one is busy.
Solo ==
    /\ stale = FALSE
    /\ \A r \in Runtime : phase[r] # "replaced"
    /\ \A r, q \in Runtime :
         phase[r] \in {"building", "current"} /\ phase[q] \in {"building", "current"} => r = q
    /\ \A r \in Runtime : phase[r] # "current" => pc[r] = "idle" /\ pending[r].dec = None

Filled(d) == exch[d].order = "finish" /\ exch[d].position # "none"
Closed(d) == exch[d].order = "finish" /\ exch[d].position = "closed"

\* What the worker and its database say of a position is true, if perhaps late.
Truthful ==
    /\ \A d \in Decision : exch[d].position # "none" => Filled(d)
    /\ \A d \in Decision : setupOf[d] = None => exch[d] = NoOrder /\ verdict[d] = "none"
    /\ \A r \in Runtime, d \in Decision :
         /\ book[r][d] # "none" => Filled(d)
         /\ book[r][d] = "CLOSED" => Closed(d)
         /\ phase[r] = "building" /\ book[r][d] = "OPEN" => rows[d] # "none"
    /\ \A d \in Decision :
         /\ rows[d] # "none" => Filled(d)
         /\ rows[d] = "CLOSED" => Closed(d)
    /\ \A w \in writes :
         /\ Filled(w.dec)
         /\ w.status = "CLOSED" => Closed(w.dec)

\* The memory of a pending order is that of the row.
Reserving == \A r \in Runtime : pending[r].dec # None => reservation.dec = pending[r].dec

OneExposed == \A d, e \in Decision : Exposed(d) /\ Exposed(e) => d = e

Core ==
    Solo /\ Truthful /\ Reserving /\ OneExposed /\ LiveExposureIsDurable /\ RejectedHasNoExposure

Unsent == {"checkPosition", "checkPending", "decide", "claim", "reserve", "submit", "clearExpired"}
Flat == {"decide", "claim", "reserve", "submit", "clearExpired", "clearRejected"}
Sending == {"placed", "noteOrder", "saving", "clearFilled"}

\* The decision at hand is one that was made; until it is sent it has no order,
\* and until it is reserved none is pending.
FreshAt(r) ==
    /\ pc[r] \in Unsent \cup Flat \cup Sending =>
         task[r].dec \in Decision /\ setupOf[task[r].dec] # None
    /\ pc[r] \in Unsent =>
         exch[task[r].dec] = NoOrder /\ verdict[task[r].dec] # "REJECTED"
    /\ pc[r] \in Unsent \ {"submit", "clearExpired"} => pending[r].dec = None

\* What an entry may rely on: the account holds nothing, or nothing that the
\* next check would miss, or its own order.
HoldsAt(r) ==
    /\ pc[r] = "checkPending" =>
         \A d \in Decision : Exposed(d) => reservation.active /\ reservation.dec = d
    /\ pc[r] \in Flat => \A d \in Decision : ~Exposed(d)
    /\ pc[r] \in {"submit", "placed"} => reservation.active /\ reservation.dec = task[r].dec
    /\ pc[r] \in Sending => \A d \in Decision : Exposed(d) => d = task[r].dec

\* What a reservation that is about to be given up no longer protects.
SpareAt(r) ==
    /\ pc[r] = "promote" =>
         \A d \in Decision : Exposed(d) => book[r][d] = "OPEN" /\ setupOf[d] = task[r].setup
    /\ pc[r] \in {"clearPromoted", "clearFilled"} =>
         \A d \in Decision : Exposed(d) => rows[d] = "OPEN"
    /\ pc[r] = "clearCancelled" =>
         pending[r].dec \in Decision /\ exch[pending[r].dec].order = "cancel"

StageAt(r) == FreshAt(r) /\ HoldsAt(r) /\ SpareAt(r)
Stages == \A r \in Runtime : StageAt(r)

LiveInv == TypeOK /\ ClaimFacts /\ Core /\ Stages

\* While one runtime is busy, the others are idle and have nothing pending.
LEMMA Lone ==
  ASSUME LiveInv, NEW r \in Runtime, pc[r] # "idle"
  PROVE  /\ phase[r] = "current"
         /\ \A q \in Runtime \ {r} : pc[q] = "idle" /\ pending[q].dec = None
  BY DEF LiveInv, Core, Solo

\* A step of the busy runtime has to establish only what its own stage says.
LEMMA OneStage ==
  ASSUME LiveInv, NEW r \in Runtime, pc[r] # "idle", NEW stage, Goto(r, stage), StageAt(r)'
  PROVE  Stages'
  <1> SUFFICES ASSUME NEW q \in Runtime, q # r PROVE StageAt(q)'
    BY DEF Stages
  <1>1. pc'[q] = "idle"
    BY Lone, Typed DEF LiveInv, Goto
  <1> QED BY <1>1 DEF StageAt, FreshAt, HoldsAt, SpareAt, Unsent, Flat, Sending

\* A stage outside every group asks for nothing.
LEMMA FreeStage ==
  ASSUME LiveInv, NEW r \in Runtime, pc[r] # "idle",
         NEW stage \in {"idle", "queued", "sync", "gate"}, Goto(r, stage)
  PROVE  Stages'
  <1>1. pc'[r] = stage
    BY Typed DEF LiveInv, Goto
  <1>2. StageAt(r)'
    BY <1>1 DEF StageAt, FreshAt, HoldsAt, SpareAt, Unsent, Flat, Sending
  <1> QED BY <1>2, OneStage

\* The record of a decision: only one that holds nothing may be recorded as rejected.
Recorded ==
    \/ verdict' = verdict
    \/ \E d \in Decision, event \in Verdict :
         setupOf[d] # None /\ Log(d, event) /\ (event = "REJECTED" => ~Exposed(d))

\* The reservation of the busy runtime: given up only when it protects nothing.
GivenUp(r) ==
    \/ reservation' = reservation /\ pending' = pending
    \/ /\ Release(r) \/ ReleaseFails(r)
       /\ \A d \in Decision : Exposed(d) => rows[d] = "OPEN"

\* What most steps of on_snapshot do to the facts: nothing but these two.
LEMMA CoreKept ==
  ASSUME LiveScope, LiveInv, NEW r \in Runtime, pc[r] # "idle", NEW stage, Goto(r, stage),
         UNCHANGED <<phase, stale, book, setupOf, exch, rows, writes>>,
         Recorded, GivenUp(r)
  PROVE  Core'
  <1>1. Core /\ pc' = [pc EXCEPT ![r] = stage] /\ pc \in [Runtime -> Stage]
    BY Typed DEF LiveInv, Goto
  <1>2. phase[r] = "current"
    BY Lone
  <1>3. /\ pending \in [Runtime -> Pending] /\ reservation \in Reservation
        /\ verdict \in [Decision -> Verdict]
    BY Typed DEF LiveInv
  <1>4. pending' = pending \/ pending' = [pending EXCEPT ![r] = NoPending]
    BY DEF GivenUp, Release, ReleaseFails
  <1>5. reservation'.dec = reservation.dec
    BY <1>3 DEF GivenUp, Release, ReleaseFails, Reservation
  <1>6. \A q \in Runtime : pending'[q] = pending[q] \/ pending'[q].dec = None
    BY <1>3, <1>4 DEF NoPending
  <1>11. Solo'
    <2>1. \A q \in Runtime : phase[q] # "current" => pc'[q] = "idle" /\ pending'[q].dec = None
      BY <1>1, <1>2, <1>6 DEF Core, Solo
    <2> QED BY <1>1, <2>1 DEF Core, Solo
  <1>7. Truthful'
    <2>1. \A d \in Decision : setupOf[d] = None => verdict'[d] = verdict[d]
      BY <1>3 DEF Recorded, Log
    <2> QED BY <1>1, <2>1 DEF Core, Truthful, Filled, Closed
  <1>8. Reserving'
    BY <1>1, <1>5, <1>6 DEF Core, Reserving
  <1>9. OneExposed' /\ LiveExposureIsDurable'
    <2>1. \A d \in Decision : Exposed(d) =>
            \/ reservation'.active /\ reservation'.dec = d
            \/ rows[d] = "OPEN"
      BY <1>1 DEF Core, LiveExposureIsDurable, GivenUp, LiveScope
    <2> QED BY <1>1, <2>1 DEF Core, OneExposed, LiveExposureIsDurable, Exposed, LiveScope
  <1>10. RejectedHasNoExposure'
    <2>1. \A d \in Decision : verdict'[d] = "REJECTED" => ~Exposed(d)
      BY <1>1, <1>3 DEF Core, RejectedHasNoExposure, Recorded, Log
    <2> QED BY <2>1 DEF RejectedHasNoExposure, Exposed, LiveScope
  <1> QED BY <1>7, <1>8, <1>9, <1>10, <1>11 DEF Core

\* The decision at hand may be recorded, as rejected too until its order is sent.
LEMMA OwnRecord ==
  ASSUME LiveScope, LiveInv, NEW r \in Runtime, pc[r] \in Unsent \cup Flat \cup Sending,
         NEW event \in Verdict, Log(task[r].dec, event),
         event = "REJECTED" => pc[r] \in Unsent \cup Flat
  PROVE  Recorded
  <1>1. StageAt(r)
    BY DEF LiveInv, Stages
  <1>2. task[r].dec \in Decision /\ setupOf[task[r].dec] # None
    BY <1>1 DEF StageAt, FreshAt
  <1>3. event = "REJECTED" => ~Exposed(task[r].dec)
    BY <1>1, <1>2 DEF StageAt, FreshAt, HoldsAt, Exposed, LiveScope, NoOrder
  <1> QED BY <1>2, <1>3 DEF Recorded

\* Reconciliation: what a stage claims of the exchange, the book and the rows.
LEMMA SyncKept ==
  ASSUME LiveScope, LiveInv, NEW r \in Runtime, Sync(r)
  PROVE  Core' /\ Stages'
  <1> DEFINE missing == {d \in OfSymbol(r) : book[r][d] = "OPEN" /\ exch[d].position # "open"}
             opened == {d \in OfSymbol(r) : book[r][d] # "OPEN" /\ exch[d].position = "open"}
  <1>1. PICK settled \in SUBSET missing :
          /\ book' = [book EXCEPT ![r] =
                 [d \in Decision |-> IF d \in settled THEN "CLOSED"
                                     ELSE IF d \in opened THEN "OPEN" ELSE book[r][d]]]
          /\ writes' = writes \cup {[dec |-> d, status |-> "CLOSED"] : d \in settled}
                              \cup {[dec |-> d, status |-> "OPEN"] : d \in opened}
          /\ Goto(r, IF opened # {} /\ pending[r].dec \in OfSymbol(r)
                     THEN "promote" ELSE "gate")
    BY Zenon DEF Sync
  <1> HIDE DEF missing, opened
  <1>2. /\ UNCHANGED <<phase, stale, pending, setupOf, verdict, exch, rows, reservation, task>>
        /\ pc[r] = "sync"
    BY DEF Sync, log
  <1>3. Core /\ TypeOK
    BY DEF LiveInv
  <1>4. phase[r] = "current"
    BY <1>2, Lone
  <1>5. \A d \in settled : d \in Decision /\ Closed(d)
    BY <1>1, <1>3, Typed DEF missing, OfSymbol, Core, Truthful, Filled, Closed, OrderState
  <1>6. \A d \in opened : d \in Decision /\ Filled(d)
    BY <1>3 DEF opened, OfSymbol, Core, Truthful
  <1>7. /\ \A q \in Runtime, d \in Decision : q # r => book'[q][d] = book[q][d]
        /\ \A d \in Decision :
             book'[r][d] = IF d \in settled THEN "CLOSED"
                           ELSE IF d \in opened THEN "OPEN" ELSE book[r][d]
    BY <1>1, <1>3, Typed
  <1>8. Solo'
    <2>1. \A q \in Runtime : q # r => pc'[q] = pc[q]
      BY <1>1, <1>3, Typed DEF Goto
    <2> QED BY <1>2, <1>3, <1>4, <2>1 DEF Core, Solo
  <1>9. Truthful'
    <2>1. \A d \in Decision : Closed(d) => Filled(d)
      BY DEF Closed, Filled
    <2>2. \A q \in Runtime, d \in Decision :
           /\ book'[q][d] # "none" => Filled(d)
           /\ book'[q][d] = "CLOSED" => Closed(d)
           /\ phase[q] = "building" /\ book'[q][d] = "OPEN" => rows[d] # "none"
      BY <1>3, <1>4, <1>5, <1>6, <1>7, <2>1 DEF Core, Truthful
    <2>3. \A w \in writes' : Filled(w.dec) /\ (w.status = "CLOSED" => Closed(w.dec))
      BY <1>1, <1>3, <1>5, <1>6, <2>1 DEF Core, Truthful
    <2> QED BY <1>2, <1>3, <2>2, <2>3 DEF Core, Truthful, Filled, Closed
  <1>10. Core'
    BY <1>2, <1>3, <1>8, <1>9
       DEF Core, Reserving, OneExposed, LiveExposureIsDurable, RejectedHasNoExposure, Exposed, LiveScope
  <1>11. CASE opened # {} /\ pending[r].dec \in OfSymbol(r)
    <2>1. Goto(r, "promote") /\ pc'[r] = "promote"
      BY <1>1, <1>3, <1>11, Typed DEF Goto
    <2>2. PICK e \in opened : TRUE
      BY <1>11
    <2>3. e \in Decision /\ exch[e].position = "open" /\ setupOf[e] = task[r].setup
      BY <2>2 DEF opened, OfSymbol
    <2>4. e \notin settled
      BY <1>1, <2>3 DEF missing
    <2>5. book'[r][e] = "OPEN"
      BY <1>7, <2>2, <2>3, <2>4
    <2>6. \A d \in Decision : Exposed(d) => d = e
      BY <1>3, <2>3 DEF Core, OneExposed, Exposed, LiveScope
    <2>7. \A d \in Decision : Exposed(d)' => book'[r][d] = "OPEN" /\ setupOf[d] = task[r].setup
      BY <1>2, <2>3, <2>5, <2>6 DEF Exposed, LiveScope
    <2>8. StageAt(r)'
      BY <1>2, <2>1, <2>7 DEF StageAt, FreshAt, HoldsAt, SpareAt, Unsent, Flat, Sending
    <2> QED BY <1>2, <1>10, <2>1, <2>8, OneStage
  <1>12. CASE ~(opened # {} /\ pending[r].dec \in OfSymbol(r))
    BY <1>1, <1>2, <1>10, <1>12, FreeStage
  <1> QED BY <1>11, <1>12

\* The steps that give up a reservation, or lead up to one.
LEMMA ClearingKept ==
  ASSUME LiveScope, LiveInv, NEW r \in Runtime,
         \/ Promote(r) \/ ClearPromoted(r) \/ GateCancelled(r) \/ ClearCancelled(r)
         \/ QuoteExpired(r) \/ ClearExpired(r) \/ Blocked(r) \/ ClearRejected(r)
         \/ Saved(r) \/ ClearFilled(r)
  PROVE  Core' /\ Stages'
  <1> USE DEF mem, log, store
  <1>1. /\ TypeOK /\ ClaimFacts /\ Core /\ StageAt(r)
        /\ pc \in [Runtime -> Stage] /\ verdict \in [Decision -> Verdict]
        /\ pending \in [Runtime -> Pending] /\ rows \in [Decision -> Status]
    BY Typed DEF LiveInv, Stages
  <1>2. \A stage : Goto(r, stage) => pc'[r] = stage
    BY <1>1 DEF Goto
  <1>3. None \notin Decision /\ None \notin Setup
    BY EntryAssumption DEF EntryAssumption
  <1>4. \A d \in Decision : Exposed(d) /\ rows[d] # "none" => rows[d] = "OPEN"
    BY <1>1 DEF Core, Truthful, Closed, Exposed, LiveScope, Status
  <1>5. CASE Promote(r)
    <2>1. CASE Goto(r, "clearPromoted") /\ \A d \in OpenIn(r) \cap OfSymbol(r) : rows[d] # "none"
      <3>1. \A d \in Decision : Exposed(d) => rows[d] = "OPEN"
        BY <1>1, <1>4, <1>5, <2>1 DEF Promote, StageAt, SpareAt, OpenIn, OfSymbol
      <3>2. StageAt(r)'
        BY <1>2, <1>5, <2>1, <3>1
           DEF Promote, StageAt, FreshAt, HoldsAt, SpareAt, Unsent, Flat, Sending, Exposed, LiveScope
      <3>3. Core'
        BY <1>5, <2>1, CoreKept DEF Promote, Recorded, GivenUp
      <3> QED BY <1>5, <2>1, <3>2, <3>3, OneStage DEF Promote
    <2>2. CASE Goto(r, "gate")
      BY <1>5, <2>2, CoreKept, FreeStage DEF Promote, Recorded, GivenUp
    <2> QED BY <1>5, <2>1, <2>2 DEF Promote
  <1>6. CASE ClearPromoted(r)
    <2>1. GivenUp(r)
      BY <1>1, <1>6 DEF ClearPromoted, GivenUp, StageAt, SpareAt
    <2> QED BY <1>6, <2>1, CoreKept, FreeStage DEF ClearPromoted, Recorded
  <1>7. CASE GateCancelled(r)
    <2>1. /\ pending[r].dec \in Decision /\ setupOf[pending[r].dec] = task[r].setup
          /\ exch[pending[r].dec].order = "cancel"
      BY <1>7 DEF GateCancelled, Cancelled, OfSymbol
    <2>2. task[r].setup \in Setup
      BY <1>1, <1>7 DEF GateCancelled, ClaimFacts, Running
    <2>3. ~Exposed(pending[r].dec)
      BY <1>1, <2>1 DEF Core, Truthful, Filled, Exposed, LiveScope
    <2>4. Recorded
      BY <1>3, <1>7, <2>1, <2>2, <2>3 DEF GateCancelled, Recorded, Verdict
    <2>5. Core'
      BY <1>7, <2>4, CoreKept DEF GateCancelled, GivenUp
    <2>6. StageAt(r)'
      BY <1>2, <1>7, <2>1
         DEF GateCancelled, StageAt, FreshAt, HoldsAt, SpareAt, Unsent, Flat, Sending
    <2> QED BY <1>7, <2>5, <2>6, OneStage DEF GateCancelled
  <1>8. CASE ClearCancelled(r)
    <2>1. pending[r].dec \in Decision /\ exch[pending[r].dec].order = "cancel"
      BY <1>1, <1>8 DEF ClearCancelled, StageAt, SpareAt
    <2>2. reservation.dec = pending[r].dec /\ ~Exposed(reservation.dec)
      BY <1>1, <1>3, <2>1 DEF Core, Reserving, Truthful, Filled, Exposed, LiveScope
    <2>3. \A d \in Decision : Exposed(d) => rows[d] = "OPEN"
      BY <1>1, <2>2 DEF Core, LiveExposureIsDurable, LiveScope
    <2>4. GivenUp(r)
      BY <1>8, <2>3 DEF ClearCancelled, GivenUp
    <2> QED BY <1>8, <2>4, CoreKept, FreeStage DEF ClearCancelled, Recorded
  <1>9. CASE QuoteExpired(r)
    <2>1. Goto(r, "clearExpired") /\ verdict' = verdict /\ pc[r] = "submit"
      BY <1>9 DEF QuoteExpired, LiveScope
    <2>2. Core'
      BY <1>9, <2>1, CoreKept DEF QuoteExpired, Recorded, GivenUp
    <2>3. pc'[r] = "clearExpired" /\ UNCHANGED <<task, setupOf, exch>>
      BY <1>2, <1>9, <2>1 DEF QuoteExpired
    <2>4. StageAt(r)'
      BY <1>1, <2>1, <2>3
         DEF StageAt, FreshAt, HoldsAt, SpareAt, Unsent, Flat, Sending, Exposed, LiveScope
    <2> QED BY <2>1, <2>2, <2>4, OneStage
  <1>10. CASE ClearExpired(r)
    <2>1. GivenUp(r)
      BY <1>1, <1>10 DEF ClearExpired, GivenUp, StageAt, HoldsAt, Flat
    <2>2. Recorded
      BY <1>10, OwnRecord DEF ClearExpired, Finish, Unsent, Verdict
    <2> QED BY <1>10, <2>1, <2>2, CoreKept, FreeStage DEF ClearExpired, Finish
  <1>11. CASE Blocked(r)
    <2>1. Goto(r, "clearRejected") /\ Log(task[r].dec, "REJECTED") /\ pc[r] = "submit"
      BY <1>11 DEF Blocked, LiveScope
    <2>2. Recorded
      BY <2>1, OwnRecord DEF Unsent, Verdict
    <2>3. Core'
      BY <1>11, <2>1, <2>2, CoreKept DEF Blocked, GivenUp
    <2>4. pc'[r] = "clearRejected" /\ UNCHANGED <<task, setupOf, exch>>
      BY <1>2, <1>11, <2>1 DEF Blocked
    <2>5. StageAt(r)'
      BY <1>1, <2>1, <2>4
         DEF StageAt, FreshAt, HoldsAt, SpareAt, Unsent, Flat, Sending, Exposed, LiveScope
    <2> QED BY <2>1, <2>3, <2>5, OneStage
  <1>12. CASE ClearRejected(r)
    <2>1. GivenUp(r)
      BY <1>1, <1>12 DEF ClearRejected, GivenUp, StageAt, HoldsAt, Flat
    <2> QED BY <1>12, <2>1, CoreKept, FreeStage DEF ClearRejected, Recorded
  <1>13. CASE Saved(r)
    <2>1. /\ Goto(r, "clearFilled") /\ verdict' = verdict /\ pc[r] = "saving"
          /\ rows[task[r].dec] # "none"
      BY <1>13 DEF Saved, LiveScope
    <2>2. Core'
      BY <1>13, <2>1, CoreKept DEF Saved, Recorded, GivenUp
    <2>3. \A d \in Decision : Exposed(d) => rows[d] = "OPEN"
      BY <1>1, <1>4, <2>1 DEF StageAt, HoldsAt, Sending
    <2>4. pc'[r] = "clearFilled" /\ UNCHANGED <<task, setupOf, exch, rows>>
      BY <1>2, <1>13, <2>1 DEF Saved
    <2>5. StageAt(r)'
      BY <1>1, <2>1, <2>3, <2>4
         DEF StageAt, FreshAt, HoldsAt, SpareAt, Unsent, Flat, Sending, Exposed, LiveScope
    <2> QED BY <2>1, <2>2, <2>5, OneStage
  <1>14. CASE ClearFilled(r)
    <2>1. GivenUp(r)
      BY <1>1, <1>14 DEF ClearFilled, GivenUp, StageAt, SpareAt
    <2>2. Recorded
      BY <1>14, OwnRecord DEF ClearFilled, Finish, Sending, Verdict
    <2> QED BY <1>14, <2>1, <2>2, CoreKept, FreeStage DEF ClearFilled, Finish
  <1> QED BY <1>5, <1>6, <1>7, <1>8, <1>9, <1>10, <1>11, <1>12, <1>13, <1>14

\* The steps from the gate to the claim, which find the account empty.
LEMMA CheckingKept ==
  ASSUME LiveScope, LiveInv, NEW r \in Runtime,
         \/ Start(r) \/ SyncFails(r) \/ GateSkips(r) \/ CheckPosition(r) \/ CheckPending(r)
         \/ CheckFails(r) \/ Decide(r) \/ Claim(r) \/ ClaimFails(r)
         \/ SubmitFails(r) \/ PlaceFails(r) \/ NotSaved(r)
  PROVE  Core' /\ Stages'
  <1> USE DEF mem, log, store
  <1>1. /\ TypeOK /\ Core /\ StageAt(r)
        /\ pc \in [Runtime -> Stage] /\ verdict \in [Decision -> Verdict]
    BY Typed DEF LiveInv, Stages
  <1>2. \A stage : Goto(r, stage) => pc'[r] = stage
    BY <1>1 DEF Goto
  <1>3. \A event \in {"REJECTED", "ERROR", "OPENED"} :
          /\ pc[r] \in Unsent \cup Flat \cup Sending
          /\ event = "REJECTED" => pc[r] \in Unsent \cup Flat
          /\ Finish(r, event)
          /\ UNCHANGED <<phase, stale, book, pending, setupOf, exch, rows, writes, reservation>>
          => Core' /\ Stages'
    <2> SUFFICES ASSUME NEW event \in {"REJECTED", "ERROR", "OPENED"},
                        pc[r] \in Unsent \cup Flat \cup Sending,
                        event = "REJECTED" => pc[r] \in Unsent \cup Flat,
                        Finish(r, event),
                        UNCHANGED <<phase, stale, book, pending, setupOf, exch, rows, writes,
                                    reservation>>
                 PROVE  Core' /\ Stages'
      OBVIOUS
    <2>1. Goto(r, "idle") /\ Log(task[r].dec, event)
      BY DEF Finish
    <2>2. Recorded
      BY <2>1, OwnRecord DEF Verdict
    <2>3. pc[r] # "idle"
      BY DEF Unsent, Flat, Sending
    <2> QED BY <2>1, <2>2, <2>3, CoreKept, FreeStage DEF GivenUp
  <1>4. CASE Start(r)
    BY <1>4, CoreKept, FreeStage DEF Start, Recorded, GivenUp, LiveScope
  <1>5. CASE SyncFails(r)
    BY <1>5, CoreKept, FreeStage DEF SyncFails, Recorded, GivenUp
  <1>6. CASE GateSkips(r)
    BY <1>6, CoreKept, FreeStage DEF GateSkips, Recorded, GivenUp
  <1>7. CASE CheckPosition(r)
    <2>1. CASE \E d \in Decision : rows[d] = "OPEN"
      BY <1>3, <1>7, <2>1 DEF CheckPosition, Unsent
    <2>2. CASE ~\E d \in Decision : rows[d] = "OPEN"
      <3>1. /\ Goto(r, "checkPending") /\ pc'[r] = "checkPending" /\ verdict' = verdict
            /\ pc[r] = "checkPosition"
            /\ UNCHANGED <<phase, stale, task, book, pending, setupOf, exch, rows, writes,
                           reservation>>
        BY <1>2, <1>7, <2>2 DEF CheckPosition
      <3>2. Core'
        BY <3>1, CoreKept DEF Recorded, GivenUp
      <3>3. \A d \in Decision : Exposed(d) => reservation.active /\ reservation.dec = d
        BY <1>1, <2>2 DEF Core, LiveExposureIsDurable, LiveScope
      <3>4. StageAt(r)'
        BY <1>1, <3>1, <3>3
           DEF StageAt, FreshAt, HoldsAt, SpareAt, Unsent, Flat, Sending, Exposed, LiveScope
      <3> QED BY <3>1, <3>2, <3>4, OneStage
    <2> QED BY <2>1, <2>2
  <1>8. CASE CheckPending(r)
    <2>1. CASE reservation.active
      BY <1>3, <1>8, <2>1 DEF CheckPending, Unsent
    <2>2. CASE ~reservation.active
      <3>1. /\ Goto(r, "decide") /\ pc'[r] = "decide" /\ verdict' = verdict
            /\ pc[r] = "checkPending"
            /\ UNCHANGED <<phase, stale, task, book, pending, setupOf, exch, rows, writes,
                           reservation>>
        BY <1>2, <1>8, <2>2 DEF CheckPending
      <3>2. Core'
        BY <3>1, CoreKept DEF Recorded, GivenUp
      <3>3. StageAt(r)'
        BY <1>1, <2>2, <3>1
           DEF StageAt, FreshAt, HoldsAt, SpareAt, Unsent, Flat, Sending, Exposed, LiveScope
      <3> QED BY <3>1, <3>2, <3>3, OneStage
    <2> QED BY <2>1, <2>2
  <1>9. CASE CheckFails(r)
    BY <1>3, <1>9 DEF CheckFails, Unsent
  <1>10. CASE Decide(r)
    <2>1. CASE Finish(r, "REJECTED")
      BY <1>3, <1>10, <2>1 DEF Decide, Unsent
    <2>2. CASE Goto(r, "claim") /\ Log(task[r].dec, "accepted")
      <3>1. /\ pc'[r] = "claim" /\ pc[r] = "decide"
            /\ UNCHANGED <<phase, stale, task, book, pending, setupOf, exch, rows, writes,
                           reservation>>
        BY <1>2, <1>10, <2>2 DEF Decide
      <3>2. Core'
        BY <2>2, <3>1, OwnRecord, CoreKept DEF GivenUp, Unsent, Verdict
      <3>3. task[r].dec \in Decision /\ verdict'[task[r].dec] = "accepted"
        BY <1>1, <2>2, <3>1 DEF StageAt, FreshAt, Unsent, Log
      <3>4. StageAt(r)'
        BY <1>1, <3>1, <3>3
           DEF StageAt, FreshAt, HoldsAt, SpareAt, Unsent, Flat, Sending, Exposed, LiveScope
      <3> QED BY <2>2, <3>1, <3>2, <3>4, OneStage
    <2> QED BY <1>10, <2>1, <2>2 DEF Decide
  <1>11. CASE Claim(r)
    <2>1. CASE claims'[task[r].setup] = task[r].dec
      <3>1. /\ Goto(r, "reserve") /\ pc'[r] = "reserve" /\ verdict' = verdict /\ pc[r] = "claim"
            /\ UNCHANGED <<phase, stale, task, book, pending, setupOf, exch, rows, writes,
                           reservation>>
        BY <1>2, <1>11, <2>1 DEF Claim, LiveScope
      <3>2. Core'
        BY <3>1, CoreKept DEF Recorded, GivenUp
      <3>3. StageAt(r)'
        BY <1>1, <3>1
           DEF StageAt, FreshAt, HoldsAt, SpareAt, Unsent, Flat, Sending, Exposed, LiveScope
      <3> QED BY <3>1, <3>2, <3>3, OneStage
    <2>2. CASE claims'[task[r].setup] # task[r].dec
      BY <1>3, <1>11, <2>2 DEF Claim, Unsent
    <2> QED BY <2>1, <2>2
  <1>12. CASE ClaimFails(r)
    BY <1>3, <1>12 DEF ClaimFails, Unsent
  <1>13. CASE SubmitFails(r)
    BY <1>3, <1>13 DEF SubmitFails, Unsent
  <1>14. CASE PlaceFails(r)
    BY <1>3, <1>14 DEF PlaceFails, Sending
  <1>15. CASE NotSaved(r)
    BY <1>3, <1>15 DEF NotSaved, Sending
  <1> QED BY <1>4, <1>5, <1>6, <1>7, <1>8, <1>9, <1>10, <1>11, <1>12, <1>13, <1>14, <1>15

\* A fresh decision has no order, and with none pending.
LEMMA TriggerKept ==
  ASSUME LiveScope, LiveInv, NEW r \in Runtime, NEW d \in Decision, Trigger(r, d)
  PROVE  Core' /\ Stages'
  <1>1. /\ TypeOK /\ Core /\ ClaimFacts
        /\ pc \in [Runtime -> Stage] /\ task \in [Runtime -> Task]
        /\ setupOf \in [Decision -> Setup \cup {None}]
    BY Typed DEF LiveInv
  <1>2. /\ pc[r] = "gate" /\ Goto(r, "checkPosition") /\ pc'[r] = "checkPosition"
        /\ pending[r].dec = None
        /\ setupOf[d] = None /\ setupOf' = [setupOf EXCEPT ![d] = task[r].setup]
        /\ task' = [task EXCEPT ![r] = [setup |-> task[r].setup, entries |-> TRUE, dec |-> d]]
        /\ UNCHANGED <<phase, stale, book, pending, verdict, sent, exch, rows, writes, reservation>>
    BY <1>1 DEF Trigger, Goto, store
  <1>3. task'[r].dec = d
    BY <1>1, <1>2
  <1>4. setupOf'[d] # None
    BY <1>1, <1>2, EntryAssumption DEF EntryAssumption, ClaimFacts, Running
  <1>5. exch[d] = NoOrder /\ verdict[d] = "none"
    BY <1>1, <1>2 DEF Core, Truthful
  <1>6. StageAt(r)'
    BY <1>2, <1>3, <1>4, <1>5
       DEF StageAt, FreshAt, HoldsAt, SpareAt, Unsent, Flat, Sending
  <1>7. Stages'
    BY <1>2, <1>6, OneStage
  <1>8. Solo'
    BY <1>1, <1>2, Lone DEF Core, Solo, Goto
  <1>9. Truthful'
    BY <1>1, <1>2 DEF Core, Truthful, Filled, Closed
  <1>10. Core'
    BY <1>1, <1>2, <1>8, <1>9
       DEF Core, Reserving, OneExposed, LiveExposureIsDurable, RejectedHasNoExposure, Exposed, LiveScope
  <1> QED BY <1>7, <1>10

\* The steps that reserve the account and send its order.
LEMMA SendingKept ==
  ASSUME LiveScope, LiveInv, NEW r \in Runtime,
         \/ Reserve(r) \/ ReserveFails(r) \/ Place(r) \/ Confirmed(r) \/ Unconfirmed(r)
         \/ NoteOrder(r)
  PROVE  Core' /\ Stages'
  <1> USE DEF mem, log, store
  <1>1. /\ TypeOK /\ Core /\ StageAt(r)
        /\ pc \in [Runtime -> Stage] /\ verdict \in [Decision -> Verdict]
        /\ pending \in [Runtime -> Pending] /\ exch \in [Decision -> OrderState]
        /\ book \in [Runtime -> [Decision -> Status]] /\ reservation \in Reservation
    BY Typed DEF LiveInv, Stages
  <1>2. \A stage : Goto(r, stage) => pc'[r] = stage
    BY <1>1 DEF Goto
  <1>3. pc[r] # "idle" => phase[r] = "current"
    BY Lone
  <1>4. pc[r] # "idle" => \A q \in Runtime : q # r => pending[q].dec = None
    BY Lone
  <1>5. \A stage : Goto(r, stage) => \A q \in Runtime : q # r => pc'[q] = pc[q]
    BY <1>1 DEF Goto
  <1>6. CASE Reserve(r)
    <2>1. /\ pc[r] = "reserve" /\ Goto(r, "submit") /\ pc'[r] = "submit"
          /\ reservation' = [active |-> TRUE, dec |-> task[r].dec, order |-> FALSE]
          /\ pending' = [pending EXCEPT ![r] = [dec |-> task[r].dec, order |-> FALSE]]
          /\ UNCHANGED <<phase, stale, task, book, setupOf, verdict, exch, rows, writes>>
      BY <1>2, <1>6 DEF Reserve, Reserved
    <2>2. \A q \in Runtime : pending'[q].dec = IF q = r THEN task[r].dec ELSE None
      BY <1>1, <1>4, <2>1
    <2>3. \A d \in Decision : ~Exposed(d)
      BY <1>1, <2>1 DEF StageAt, HoldsAt, Flat
    <2>4. Solo'
      BY <1>1, <1>3, <1>5, <2>1, <2>2 DEF Core, Solo
    <2>5. Truthful'
      BY <1>1, <2>1 DEF Core, Truthful, Filled, Closed
    <2>6. Reserving' /\ OneExposed' /\ LiveExposureIsDurable' /\ RejectedHasNoExposure'
      BY <2>1, <2>2, <2>3
         DEF Reserving, OneExposed, LiveExposureIsDurable, RejectedHasNoExposure, Exposed, LiveScope
    <2>7. StageAt(r)'
      BY <1>1, <2>1, <2>3
         DEF StageAt, FreshAt, HoldsAt, SpareAt, Unsent, Flat, Sending, Exposed, LiveScope
    <2> QED BY <2>1, <2>4, <2>5, <2>6, <2>7, OneStage DEF Core
  <1>7. CASE ReserveFails(r)
    <2>1. /\ pc[r] = "reserve" /\ Goto(r, "idle") /\ Log(task[r].dec, "ERROR")
          /\ UNCHANGED <<phase, stale, task, book, pending, setupOf, exch, rows, writes>>
      BY <1>7 DEF ReserveFails, Finish
    <2>2. pending[r].dec = None
      BY <1>1, <2>1 DEF StageAt, FreshAt, Unsent
    <2>3. \A d \in Decision : ~Exposed(d)
      BY <1>1, <2>1 DEF StageAt, HoldsAt, Flat
    <2>4. setupOf[task[r].dec] # None
      BY <1>1, <2>1 DEF StageAt, FreshAt, Unsent
    <2>5. Solo'
      BY <1>1, <1>3, <1>5, <2>1 DEF Core, Solo
    <2>6. \A d \in Decision : setupOf[d] = None => verdict'[d] = verdict[d]
      BY <1>1, <2>1, <2>4 DEF Log
    <2>7. Truthful'
      BY <1>1, <2>1, <2>6 DEF Core, Truthful, Filled, Closed
    <2>8. Reserving'
      BY <1>4, <2>1, <2>2 DEF Reserving
    <2>9. OneExposed' /\ LiveExposureIsDurable' /\ RejectedHasNoExposure'
      BY <2>1, <2>3
         DEF OneExposed, LiveExposureIsDurable, RejectedHasNoExposure, Exposed, LiveScope
    <2> QED BY <2>1, <2>5, <2>7, <2>8, <2>9, FreeStage DEF Core
  <1>8. CASE Place(r)
    <2>1. /\ pc[r] = "submit" /\ Goto(r, "placed") /\ pc'[r] = "placed"
          /\ exch' = [exch EXCEPT ![task[r].dec] = [order |-> "working", position |-> "none"]]
          /\ UNCHANGED <<phase, stale, task, book, pending, setupOf, verdict, rows, writes,
                         reservation>>
      BY <1>2, <1>8 DEF Place
    <2>2. /\ task[r].dec \in Decision /\ setupOf[task[r].dec] # None
          /\ exch[task[r].dec] = NoOrder /\ verdict[task[r].dec] # "REJECTED"
          /\ reservation.active /\ reservation.dec = task[r].dec
          /\ \A d \in Decision : ~Exposed(d)
      BY <1>1, <2>1 DEF StageAt, FreshAt, HoldsAt, Unsent, Flat
    <2>3. \A d \in Decision :
            exch'[d] = IF d = task[r].dec THEN [order |-> "working", position |-> "none"]
                       ELSE exch[d]
      BY <1>1, <2>1
    <2>4. /\ ~Filled(task[r].dec) /\ ~Closed(task[r].dec)
          /\ \A d \in Decision : d # task[r].dec =>
               (Filled(d)' <=> Filled(d)) /\ (Closed(d)' <=> Closed(d))
      BY <2>2, <2>3 DEF Filled, Closed, NoOrder
    <2>5. \A d \in Decision : Exposed(d)' => d = task[r].dec
      BY <2>2, <2>3 DEF Exposed, LiveScope
    <2>6. Solo'
      BY <1>1, <1>3, <1>5, <2>1 DEF Core, Solo
    <2>7. Truthful'
      <3>1. /\ \A d \in Decision : exch'[d].position # "none" => Filled(d)'
            /\ \A d \in Decision : setupOf[d] = None => exch'[d] = NoOrder /\ verdict[d] = "none"
        BY <1>1, <2>2, <2>3, <2>4 DEF Core, Truthful
      <3>2. \A q \in Runtime, d \in Decision :
              /\ book[q][d] # "none" => Filled(d)'
              /\ book[q][d] = "CLOSED" => Closed(d)'
        BY <1>1, <2>4 DEF Core, Truthful, Filled, Closed
      <3>3. \A d \in Decision :
              /\ rows[d] # "none" => Filled(d)'
              /\ rows[d] = "CLOSED" => Closed(d)'
        BY <1>1, <2>4 DEF Core, Truthful
      <3>4. \A w \in writes : w.dec \in Decision
        BY Typed, <1>1 DEF Write
      <3>5. \A w \in writes : Filled(w.dec)' /\ (w.status = "CLOSED" => Closed(w.dec)')
        BY <1>1, <2>4, <3>4 DEF Core, Truthful
      <3> QED BY <1>1, <2>1, <3>1, <3>2, <3>3, <3>5 DEF Core, Truthful, Filled, Closed
    <2>8. Reserving' /\ OneExposed' /\ LiveExposureIsDurable' /\ RejectedHasNoExposure'
      BY <1>1, <2>1, <2>2, <2>5
         DEF Core, Reserving, OneExposed, LiveExposureIsDurable, RejectedHasNoExposure
    <2>9. StageAt(r)'
      BY <2>1, <2>2, <2>5
         DEF StageAt, FreshAt, HoldsAt, SpareAt, Unsent, Flat, Sending
    <2> QED BY <2>1, <2>6, <2>7, <2>8, <2>9, OneStage DEF Core
  <1>9. CASE Confirmed(r)
    <2>1. /\ pc[r] = "placed" /\ Goto(r, "saving") /\ pc'[r] = "saving"
          /\ exch[task[r].dec].position = "open"
          /\ book' = [book EXCEPT ![r] = [book[r] EXCEPT ![task[r].dec] = "OPEN"]]
          /\ pending' = [pending EXCEPT ![r] = NoPending]
          /\ writes' = writes \cup {[dec |-> task[r].dec, status |-> "OPEN"]}
          /\ UNCHANGED <<phase, stale, task, setupOf, verdict, exch, rows, reservation>>
      BY <1>2, <1>9 DEF Confirmed, Finalize
    <2>2. /\ task[r].dec \in Decision /\ setupOf[task[r].dec] # None
          /\ \A d \in Decision : Exposed(d) => d = task[r].dec
      BY <1>1, <2>1 DEF StageAt, FreshAt, HoldsAt, Sending
    <2>3. Filled(task[r].dec)
      BY <1>1, <2>1, <2>2 DEF Core, Truthful
    <2>4. \A q \in Runtime, d \in Decision :
            \/ book'[q][d] = book[q][d]
            \/ d = task[r].dec /\ q = r /\ book'[q][d] = "OPEN"
      BY <1>1, <2>1
    <2>5. \A q \in Runtime : pending'[q] = pending[q] \/ pending'[q].dec = None
      BY <1>1, <2>1 DEF NoPending
    <2>6. Solo'
      BY <1>1, <1>3, <1>5, <2>1, <2>5 DEF Core, Solo
    <2>7. Truthful'
      <3>1. \A q \in Runtime, d \in Decision :
              /\ book'[q][d] # "none" => Filled(d)
              /\ book'[q][d] = "CLOSED" => Closed(d)
              /\ phase[q] = "building" /\ book'[q][d] = "OPEN" => rows[d] # "none"
        BY <1>1, <1>3, <2>1, <2>3, <2>4 DEF Core, Truthful
      <3>2. \A w \in writes' : Filled(w.dec) /\ (w.status = "CLOSED" => Closed(w.dec))
        BY <1>1, <2>1, <2>3 DEF Core, Truthful
      <3> QED BY <1>1, <2>1, <3>1, <3>2 DEF Core, Truthful, Filled, Closed
    <2>8. Reserving' /\ OneExposed' /\ LiveExposureIsDurable' /\ RejectedHasNoExposure'
      BY <1>1, <2>1, <2>5
         DEF Core, Reserving, OneExposed, LiveExposureIsDurable, RejectedHasNoExposure, Exposed,
             LiveScope
    <2>9. StageAt(r)'
      BY <2>1, <2>2
         DEF StageAt, FreshAt, HoldsAt, SpareAt, Unsent, Flat, Sending, Exposed, LiveScope
    <2> QED BY <2>1, <2>6, <2>7, <2>8, <2>9, OneStage DEF Core
  <1>10. CASE Unconfirmed(r)
    <2>1. /\ pc[r] = "placed" /\ Goto(r, "noteOrder") /\ pc'[r] = "noteOrder"
          /\ Log(task[r].dec, "PENDING")
          /\ \E known \in BOOLEAN :
               pending' = [pending EXCEPT ![r] = [dec |-> task[r].dec, order |-> known]]
          /\ UNCHANGED <<phase, stale, task, book, setupOf, exch, rows, writes, reservation>>
      BY <1>2, <1>10 DEF Unconfirmed
    <2>2. /\ task[r].dec \in Decision /\ setupOf[task[r].dec] # None
          /\ reservation.dec = task[r].dec
          /\ \A d \in Decision : Exposed(d) => d = task[r].dec
      BY <1>1, <2>1 DEF StageAt, FreshAt, HoldsAt, Sending
    <2>3. \A q \in Runtime : pending'[q].dec = IF q = r THEN task[r].dec ELSE None
      BY <1>1, <1>4, <2>1
    <2>4. \A d \in Decision : verdict'[d] = IF d = task[r].dec THEN "PENDING" ELSE verdict[d]
      BY <1>1, <2>1 DEF Log
    <2>5. Solo'
      BY <1>1, <1>3, <1>5, <2>1, <2>3 DEF Core, Solo
    <2>6. Truthful'
      BY <1>1, <2>1, <2>2, <2>4 DEF Core, Truthful, Filled, Closed
    <2>7. Reserving' /\ OneExposed' /\ LiveExposureIsDurable' /\ RejectedHasNoExposure'
      BY <1>1, <2>1, <2>2, <2>3, <2>4
         DEF Core, Reserving, OneExposed, LiveExposureIsDurable, RejectedHasNoExposure, Exposed,
             LiveScope
    <2>8. StageAt(r)'
      BY <2>1, <2>2
         DEF StageAt, FreshAt, HoldsAt, SpareAt, Unsent, Flat, Sending, Exposed, LiveScope
    <2> QED BY <2>1, <2>5, <2>6, <2>7, <2>8, OneStage DEF Core
  <1>11. CASE NoteOrder(r)
    <2>1. /\ pc[r] = "noteOrder" /\ Goto(r, "idle")
          /\ UNCHANGED <<phase, stale, task, book, pending, setupOf, verdict, exch, rows, writes>>
          /\ reservation' \in {[reservation EXCEPT !.active = TRUE, !.order = pending[r].order],
                               reservation}
      BY <1>11 DEF NoteOrder
    <2>2. reservation'.dec = reservation.dec /\ (reservation.active => reservation'.active)
      BY <1>1, <2>1 DEF Reservation
    <2>3. Solo'
      BY <1>1, <1>3, <1>5, <2>1 DEF Core, Solo
    <2>4. Truthful'
      BY <1>1, <2>1 DEF Core, Truthful, Filled, Closed
    <2>5. Reserving' /\ OneExposed' /\ LiveExposureIsDurable' /\ RejectedHasNoExposure'
      BY <1>1, <2>1, <2>2
         DEF Core, Reserving, OneExposed, LiveExposureIsDurable, RejectedHasNoExposure, Exposed,
             LiveScope
    <2> QED BY <2>1, <2>3, <2>4, <2>5, FreeStage DEF Core
  <1> QED BY <1>6, <1>7, <1>8, <1>9, <1>10, <1>11

\* Every step of on_snapshot, one way or the other.
LEMMA SnapshotKept ==
  ASSUME LiveScope, LiveInv, NEW r \in Runtime, OnSnapshot(r)
  PROVE  Core' /\ Stages'
  <1>1. ~PaperFill(r)
    BY DEF PaperFill, LiveScope
  <1>2. CASE Sync(r)
    BY <1>2, SyncKept
  <1>3. ASSUME NEW d \in Decision, Trigger(r, d) PROVE Core' /\ Stages'
    BY <1>3, TriggerKept
  <1>4. CASE \/ Start(r) \/ SyncFails(r) \/ GateSkips(r) \/ CheckPosition(r) \/ CheckPending(r)
             \/ CheckFails(r) \/ Decide(r) \/ Claim(r) \/ ClaimFails(r)
             \/ SubmitFails(r) \/ PlaceFails(r) \/ NotSaved(r)
    BY <1>4, CheckingKept
  <1>5. CASE \/ Promote(r) \/ ClearPromoted(r) \/ GateCancelled(r) \/ ClearCancelled(r)
             \/ QuoteExpired(r) \/ ClearExpired(r) \/ Blocked(r) \/ ClearRejected(r)
             \/ Saved(r) \/ ClearFilled(r)
    BY <1>5, ClearingKept
  <1>6. CASE \/ Reserve(r) \/ ReserveFails(r) \/ Place(r) \/ Confirmed(r) \/ Unconfirmed(r)
             \/ NoteOrder(r)
    BY <1>6, SendingKept
  <1> QED BY <1>1, <1>2, <1>3, <1>4, <1>5, <1>6, Zenon DEF OnSnapshot

\* A runtime is built from rows that are true, one at a time; the reservation it
\* gives up is that of a position whose row it has just read as open.
LEMMA BuildKept ==
  ASSUME LiveScope, LiveInv, NEW r \in Runtime, StartBuild(r) \/ Install(r) \/ FailBuild(r)
  PROVE  Core' /\ Stages'
  <1> USE DEF log, store
  <1>1. /\ Core /\ Stages
        /\ phase \in [Runtime -> {"new", "building", "current", "replaced", "gone"}]
        /\ book \in [Runtime -> [Decision -> Status]] /\ rows \in [Decision -> Status]
        /\ pending \in [Runtime -> Pending] /\ reservation \in Reservation
    BY Typed DEF LiveInv
  <1>2. phase[r] \in {"new", "building"} /\ pc[r] = "idle"
    BY <1>1 DEF StartBuild, Install, FailBuild, Core, Solo
  <1>3. CASE StartBuild(r)
    <2>1. /\ phase' = [phase EXCEPT ![r] = "building"]
          /\ book' = [book EXCEPT ![r] =
                 [d \in Decision |-> IF rows[d] = "OPEN" THEN "OPEN" ELSE "none"]]
          /\ \A q \in Runtime : phase[q] \in {"new", "gone"}
          /\ UNCHANGED <<stale, pc, task, pending, setupOf, verdict, exch, rows, writes,
                         reservation>>
      BY <1>1, <1>3 DEF StartBuild, Core, Solo
    <2>2. \A q \in Runtime : pc[q] = "idle"
      BY <1>1, <2>1 DEF Core, Solo
    <2>3. Stages'
      BY <2>1, <2>2 DEF Stages, StageAt, FreshAt, HoldsAt, SpareAt, Unsent, Flat, Sending
    <2>4. Solo'
      BY <1>1, <2>1 DEF Core, Solo
    <2>5. \A q \in Runtime, d \in Decision :
            book'[q][d] = IF q = r THEN IF rows[d] = "OPEN" THEN "OPEN" ELSE "none"
                          ELSE book[q][d]
      BY <1>1, <2>1
    <2>6. \A q \in Runtime : q # r => phase'[q] = phase[q]
      BY <1>1, <2>1
    <2>7. Truthful'
      BY <1>1, <2>1, <2>5, <2>6 DEF Core, Truthful, Filled, Closed
    <2>8. Core'
      BY <1>1, <2>1, <2>4, <2>7
         DEF Core, Reserving, OneExposed, LiveExposureIsDurable, RejectedHasNoExposure, Exposed,
             LiveScope
    <2> QED BY <2>3, <2>8
  <1>4. CASE Install(r)
    <2> DEFINE active == reservation.active
               known == reservation.dec \in OpenIn(r)
    <2>1. /\ phase[r] = "building"
          /\ phase' = [q \in Runtime |-> IF q = r THEN "current"
                                         ELSE IF phase[q] = "current" THEN "replaced"
                                         ELSE phase[q]]
          /\ stale' = FALSE
          /\ UNCHANGED <<pc, task, book, setupOf, verdict, exch, rows, writes>>
      BY <1>4 DEF Install
    <2>2. /\ pending' = [pending EXCEPT ![r] =
                 IF active /\ ~known
                 THEN [dec |-> reservation.dec, order |-> reservation.order]
                 ELSE NoPending]
          /\ reservation' = IF active /\ known
                            THEN [reservation EXCEPT !.active = FALSE]
                            ELSE reservation
      BY <1>4 DEF Install, LiveScope
    <2> HIDE DEF active, known
    <2>3. \A q \in Runtime : q # r => phase[q] \notin {"building", "current"}
      BY <1>1, <2>1 DEF Core, Solo
    <2>4. \A q \in Runtime : pc[q] = "idle" /\ pending[q].dec = None
      BY <1>1, <2>1, <2>3 DEF Core, Solo
    <2>5. \A q \in Runtime : phase'[q] = IF q = r THEN "current" ELSE phase[q]
      BY <2>1, <2>3
    <2>6. Stages'
      BY <2>1, <2>4 DEF Stages, StageAt, FreshAt, HoldsAt, SpareAt, Unsent, Flat, Sending
    <2>7. \A q \in Runtime : q # r => pending'[q] = pending[q]
      BY <1>1, <2>2
    <2>8. Solo'
      BY <1>1, <2>1, <2>3, <2>4, <2>5, <2>7 DEF Core, Solo
    <2>9. Truthful'
      BY <1>1, <2>1, <2>5 DEF Core, Truthful, Filled, Closed
    <2>10. reservation'.dec = reservation.dec
      BY <1>1, <2>2 DEF Reservation
    <2>11. pending'[r].dec \in {None, reservation.dec}
      BY <1>1, <2>2 DEF NoPending
    <2>12. Reserving'
      BY <2>4, <2>7, <2>10, <2>11 DEF Reserving
    <2>13. LiveExposureIsDurable'
      <3>1. CASE active /\ known
        <4>1. reservation.dec \in Decision /\ book[r][reservation.dec] = "OPEN"
          BY <3>1 DEF known, OpenIn
        <4>2. rows[reservation.dec] # "none"
          BY <1>1, <2>1, <4>1 DEF Core, Truthful
        <4>3. Exposed(reservation.dec) => rows[reservation.dec] = "OPEN"
          BY <1>1, <4>1, <4>2 DEF Core, Truthful, Closed, Exposed, LiveScope, Status
        <4> QED BY <1>1, <2>1, <4>3 DEF Core, LiveExposureIsDurable, Exposed, LiveScope
      <3>2. CASE ~(active /\ known)
        BY <1>1, <2>1, <2>2, <3>2 DEF Core, LiveExposureIsDurable, Exposed, LiveScope
      <3> QED BY <3>1, <3>2
    <2>14. OneExposed' /\ RejectedHasNoExposure'
      BY <1>1, <2>1 DEF Core, OneExposed, RejectedHasNoExposure, Exposed, LiveScope
    <2> QED BY <2>6, <2>8, <2>9, <2>12, <2>13, <2>14 DEF Core
  <1>5. CASE FailBuild(r)
    <2>1. /\ phase[r] = "building"
          /\ phase' = [q \in Runtime |-> IF q = r THEN "new"
                                         ELSE IF phase[q] = "current" THEN "replaced"
                                         ELSE phase[q]]
          /\ book' = [book EXCEPT ![r] = [d \in Decision |-> "none"]]
          /\ UNCHANGED <<stale, pc, task, pending, setupOf, verdict, exch, rows, writes,
                         reservation>>
      BY <1>5 DEF FailBuild
    <2>2. \A q \in Runtime : phase[q] = "current" => q = r
      BY <1>1, <2>1 DEF Core, Solo
    <2>3. \A q \in Runtime : phase'[q] = IF q = r THEN "new" ELSE phase[q]
      BY <2>1, <2>2
    <2>4. \A q \in Runtime, d \in Decision : book'[q][d] = IF q = r THEN "none" ELSE book[q][d]
      BY <1>1, <2>1
    <2>5. \A q \in Runtime : pc[q] = "idle"
      BY <1>1, <2>1 DEF Core, Solo
    <2>6. Stages'
      BY <2>1, <2>5 DEF Stages, StageAt, FreshAt, HoldsAt, SpareAt, Unsent, Flat, Sending
    <2>7. Solo'
      BY <1>1, <1>2, <2>1, <2>3, <2>5 DEF Core, Solo
    <2>8. Truthful'
      BY <1>1, <2>1, <2>3, <2>4 DEF Core, Truthful, Filled, Closed
    <2>9. Core'
      BY <1>1, <2>1, <2>7, <2>8
         DEF Core, Reserving, OneExposed, LiveExposureIsDurable, RejectedHasNoExposure, Exposed,
             LiveScope
    <2> QED BY <2>6, <2>9
  <1> QED BY <1>3, <1>4, <1>5

\* A crash forgets the runtimes, and nothing of what they left behind.
LEMMA CrashKept ==
  ASSUME LiveScope, LiveInv, Crash
  PROVE  Core' /\ Stages'
  <1>1. /\ phase' = [r \in Runtime |-> IF phase[r] = "new" THEN "new" ELSE "gone"]
        /\ stale' = FALSE
        /\ pc' = [r \in Runtime |-> "idle"]
        /\ book' = [r \in Runtime |-> [d \in Decision |-> "none"]]
        /\ pending' = [r \in Runtime |-> NoPending]
        /\ UNCHANGED <<setupOf, verdict, exch, rows, writes, reservation>>
    BY DEF Crash, log, store
  <1>2. Core
    BY DEF LiveInv
  <1>3. Stages'
    BY <1>1 DEF Stages, StageAt, FreshAt, HoldsAt, SpareAt, Unsent, Flat, Sending
  <1>4. Solo' /\ Reserving'
    BY <1>1 DEF Solo, Reserving, NoPending
  <1>5. Truthful'
    BY <1>1, <1>2 DEF Core, Truthful, Filled, Closed
  <1> QED
    BY <1>1, <1>2, <1>3, <1>4, <1>5
       DEF Core, OneExposed, LiveExposureIsDurable, RejectedHasNoExposure, Exposed, LiveScope

\* A snapshot is queued on the runtime that is current.
LEMMA QueueKept ==
  ASSUME LiveScope, LiveInv, NEW r \in Runtime, NEW s \in Setup, NEW entries \in BOOLEAN,
         Queue(r, s, entries)
  PROVE  Core' /\ Stages'
  <1>1. /\ phase[r] = "current"
        /\ pc' = [pc EXCEPT ![r] = "queued"]
        /\ task' = [task EXCEPT ![r] = [setup |-> s, entries |-> entries, dec |-> None]]
        /\ UNCHANGED <<phase, stale, book, pending, setupOf, verdict, exch, rows, writes,
                       reservation>>
    BY DEF Queue, Goto, log, store
  <1>2. Core /\ Stages /\ pc \in [Runtime -> Stage] /\ task \in [Runtime -> Task]
    BY Typed DEF LiveInv
  <1>3. \A q \in Runtime : q # r => pc[q] = "idle"
    BY <1>1, <1>2 DEF Core, Solo
  <1>4. \A q \in Runtime : pc'[q] \in {"idle", "queued"}
    BY <1>1, <1>2, <1>3
  <1>5. Stages'
    BY <1>4 DEF Stages, StageAt, FreshAt, HoldsAt, SpareAt, Unsent, Flat, Sending
  <1>6. Solo'
    BY <1>1, <1>2 DEF Core, Solo
  <1>7. Truthful'
    BY <1>1, <1>2 DEF Core, Truthful, Filled, Closed
  <1> QED
    BY <1>1, <1>2, <1>5, <1>6, <1>7
       DEF Core, Reserving, OneExposed, LiveExposureIsDurable, RejectedHasNoExposure, Exposed, LiveScope

\* The exchange takes what the account holds from working to open to closed, or
\* cancels it: it never makes the account hold something new.
LEMMA ExchangeKept ==
  ASSUME LiveScope, LiveInv, NEW d \in Decision, Exchange(d)
  PROVE  Core' /\ Stages'
  <1>1. UNCHANGED <<phase, stale, pc, task, book, pending, setupOf, verdict, rows, writes,
                    reservation>>
    BY DEF Exchange, mem, log, store
  <1>2. /\ TypeOK /\ Core /\ Stages /\ exch \in [Decision -> OrderState]
        /\ \A w \in writes : w.dec \in Decision
    BY Typed DEF LiveInv, Write
  <1>3. PICK o \in OrderState :
          /\ exch' = [exch EXCEPT ![d] = o]
          /\ \/ exch[d].order = "working" /\ o.order = "finish" /\ o.position = "open"
             \/ exch[d].order = "working" /\ o.order = "cancel" /\ o.position = "none"
             \/ exch[d].position = "open" /\ o.order = exch[d].order /\ o.position = "closed"
    <2>1. exch[d].order \in {"none", "working", "finish", "cancel"}
      BY <1>2 DEF OrderState
    <2>2. \A order \in {"none", "working", "finish", "cancel"},
             position \in {"none", "open", "closed"} :
             [order |-> order, position |-> position] \in OrderState
      BY DEF OrderState
    <2> QED BY <2>1, <2>2 DEF Exchange, LiveScope
  <1>4. \A e \in Decision : exch'[e] = IF e = d THEN o ELSE exch[e]
    BY <1>2, <1>3
  <1>5. exch[d].position # "none" => exch[d].order = "finish"
    BY <1>2 DEF Core, Truthful, Filled
  <1>6. \A e \in Decision :
          /\ Filled(e) => Filled(e)'
          /\ Closed(e) => Closed(e)'
          /\ exch[e] = NoOrder => exch'[e] = NoOrder
          /\ exch[e].order = "cancel" => exch'[e].order = "cancel"
          /\ exch'[e].position # "none" => Filled(e)'
    BY <1>2, <1>3, <1>4, <1>5 DEF Core, Truthful, Filled, Closed, NoOrder, OrderState
  <1>7. \A e \in Decision : Exposed(e)' => Exposed(e)
    BY <1>3, <1>4, <1>5 DEF Exposed, LiveScope
  <1>8. Truthful'
    <2>1. /\ \A e \in Decision : exch'[e].position # "none" => Filled(e)'
          /\ \A e \in Decision : setupOf[e] = None => exch'[e] = NoOrder /\ verdict[e] = "none"
      BY <1>2, <1>6 DEF Core, Truthful
    <2>2. \A q \in Runtime, e \in Decision :
            /\ book[q][e] # "none" => Filled(e)'
            /\ book[q][e] = "CLOSED" => Closed(e)'
            /\ phase[q] = "building" /\ book[q][e] = "OPEN" => rows[e] # "none"
      BY <1>2, <1>6 DEF Core, Truthful
    <2>3. \A e \in Decision :
            /\ rows[e] # "none" => Filled(e)'
            /\ rows[e] = "CLOSED" => Closed(e)'
      BY <1>2, <1>6 DEF Core, Truthful
    <2>4. \A w \in writes : Filled(w.dec)' /\ (w.status = "CLOSED" => Closed(w.dec)')
      BY <1>2, <1>6 DEF Core, Truthful
    <2> QED BY <1>1, <2>1, <2>2, <2>3, <2>4 DEF Truthful, Filled, Closed
  <1>9. Core'
    BY <1>1, <1>2, <1>7, <1>8
       DEF Core, Solo, Reserving, OneExposed, LiveExposureIsDurable, RejectedHasNoExposure
  <1>10. ASSUME NEW r \in Runtime PROVE StageAt(r)'
    <2>1. StageAt(r)
      BY <1>2 DEF Stages
    <2>2. FreshAt(r)'
      BY <1>1, <1>6, <2>1 DEF StageAt, FreshAt, Unsent
    <2>3. HoldsAt(r)'
      BY <1>1, <1>7, <2>1 DEF StageAt, HoldsAt
    <2>4. SpareAt(r)'
      BY <1>1, <1>6, <1>7, <2>1 DEF StageAt, SpareAt
    <2> QED BY <2>2, <2>3, <2>4 DEF StageAt
  <1> QED BY <1>9, <1>10 DEF Stages

\* A save that lands says of the position what was true when it was sent, and is
\* never overtaken by what the account holds; one that is lost says nothing.
LEMMA WriteKept ==
  ASSUME LiveScope, LiveInv, NEW w \in writes, Land(w) \/ Lose(w)
  PROVE  Core' /\ Stages'
  <1>1. /\ UNCHANGED <<phase, stale, pc, task, book, pending, setupOf, verdict, exch, reservation>>
        /\ writes' = writes \ {w}
    BY DEF Land, Lose, mem, log
  <1>2. /\ TypeOK /\ Core /\ Stages /\ rows \in [Decision -> Status]
        /\ w.dec \in Decision /\ w.status \in {"OPEN", "CLOSED"}
    BY Typed DEF LiveInv, Write
  <1>3. \A d \in Decision :
          \/ rows'[d] = rows[d]
          \/ d = w.dec /\ rows'[d] = w.status
    BY <1>2 DEF Land, Lose
  <1>4. Filled(w.dec) /\ (w.status = "CLOSED" => Closed(w.dec))
    BY <1>2 DEF Core, Truthful
  <1>5. \A d \in Decision : Closed(d) => ~Exposed(d)
    BY DEF Closed, Exposed, LiveScope
  <1>6. \A d \in Decision : Exposed(d) /\ rows[d] = "OPEN" => rows'[d] = "OPEN"
    BY <1>2, <1>3, <1>4, <1>5
  <1>7. \A d \in Decision : Exposed(d)' <=> Exposed(d)
    BY <1>1 DEF Exposed, LiveScope
  <1>8. Truthful'
    <2>1. \A d \in Decision :
            /\ rows'[d] # "none" => Filled(d)
            /\ rows'[d] = "CLOSED" => Closed(d)
            /\ rows[d] # "none" => rows'[d] # "none"
      BY <1>2, <1>3, <1>4 DEF Core, Truthful
    <2> QED BY <1>1, <1>2, <2>1 DEF Core, Truthful, Filled, Closed
  <1>9. Core'
    BY <1>1, <1>2, <1>6, <1>7, <1>8
       DEF Core, Solo, Reserving, OneExposed, LiveExposureIsDurable, RejectedHasNoExposure, LiveScope
  <1>10. ASSUME NEW r \in Runtime PROVE StageAt(r)'
    BY <1>1, <1>2, <1>6, <1>7 DEF Stages, StageAt, FreshAt, HoldsAt, SpareAt
  <1> QED BY <1>9, <1>10 DEF Stages

-----------------------------------------------------------------------------
LEMMA LiveInit == LiveScope /\ Init => LiveInv
  <1> SUFFICES ASSUME LiveScope, Init PROVE LiveInv
    OBVIOUS
  <1>1. \A d \in Decision : exch[d] = NoOrder /\ ~Exposed(d)
    BY DEF Init, Exposed, LiveScope, NoOrder
  <1>2. Core
    BY <1>1
       DEF Init, Core, Solo, Truthful, Reserving, OneExposed, LiveExposureIsDurable,
           RejectedHasNoExposure, NoPending, NoOrder
  <1>3. Stages
    BY DEF Init, Stages, StageAt, FreshAt, HoldsAt, SpareAt, Unsent, Flat, Sending
  <1> QED BY <1>2, <1>3, TypesInit, FactsInit DEF LiveInv

LEMMA LiveStep == LiveScope /\ LiveInv /\ [Next]_vars => LiveInv'
  <1> SUFFICES ASSUME LiveScope, LiveInv, [Next]_vars PROVE LiveInv'
    OBVIOUS
  <1>1. TypeOK' /\ ClaimFacts'
    BY TypesStep, FactsStep DEF LiveInv, ClaimFacts
  <1>2. ~ChangeCredentials /\ \A r \in Runtime, d \in Decision : ~LocalExit(r, d)
    BY DEF ChangeCredentials, LocalExit, LiveScope
  <1>3. CASE Crash
    BY <1>3, CrashKept, <1>1 DEF LiveInv
  <1>4. ASSUME NEW r \in Runtime, StartBuild(r) \/ Install(r) \/ FailBuild(r) PROVE LiveInv'
    BY <1>4, BuildKept, <1>1 DEF LiveInv
  <1>5. ASSUME NEW r \in Runtime, OnSnapshot(r) PROVE LiveInv'
    BY <1>5, SnapshotKept, <1>1 DEF LiveInv
  <1>6. ASSUME NEW r \in Runtime, NEW s \in Setup, NEW entries \in BOOLEAN, Queue(r, s, entries)
        PROVE  LiveInv'
    BY <1>6, QueueKept, <1>1 DEF LiveInv
  <1>7. ASSUME NEW d \in Decision, Exchange(d) PROVE LiveInv'
    BY <1>7, ExchangeKept, <1>1 DEF LiveInv
  <1>8. ASSUME NEW w \in writes, Land(w) \/ Lose(w) PROVE LiveInv'
    BY <1>8, WriteKept, <1>1 DEF LiveInv
  <1>9. CASE UNCHANGED vars
    <2>1. UNCHANGED <<phase, stale, pc, task, book, pending, setupOf, verdict, exch, rows, writes,
                      reservation>>
      BY <1>9 DEF vars, mem, log, store
    <2>2. Core'
      BY <2>1
         DEF LiveInv, Core, Solo, Truthful, Filled, Closed, Reserving, OneExposed,
             LiveExposureIsDurable, RejectedHasNoExposure, Exposed
    <2>3. Stages'
      BY <2>1 DEF LiveInv, Stages, StageAt, FreshAt, HoldsAt, SpareAt, Exposed
    <2> QED BY <1>1, <2>2, <2>3 DEF LiveInv
  <1> QED BY <1>2, <1>3, <1>4, <1>5, <1>6, <1>7, <1>8, <1>9, Zenon DEF Next

\* The inductive invariant of the entry pipeline in LIVE.
THEOREM LiveInvariant == LiveScope => (Spec => []LiveInv)
  <1> SUFFICES ASSUME LiveScope PROVE Spec => []LiveInv
    OBVIOUS
  <1>1. Init => LiveInv
    BY LiveInit
  <1>2. LiveInv /\ [Next]_vars => LiveInv'
    BY LiveStep
  <1> QED BY <1>1, <1>2, PTL DEF Spec

\* What the account holds at the exchange can be found again after a crash at any
\* point: in the reservation, or in the row of its position.
THEOREM LiveDurability == LiveScope => (Spec => []LiveExposureIsDurable)
  <1> SUFFICES ASSUME LiveScope PROVE Spec => []LiveExposureIsDurable
    OBVIOUS
  <1>1. LiveInv => LiveExposureIsDurable
    BY DEF LiveInv, Core
  <1>2. Spec => []LiveInv
    BY LiveInvariant
  <1> QED BY <1>1, <1>2, PTL

\* A decision recorded as rejected holds nothing at the exchange, then or later.
THEOREM LiveRejections == LiveScope => (Spec => []RejectedHasNoExposure)
  <1> SUFFICES ASSUME LiveScope PROVE Spec => []RejectedHasNoExposure
    OBVIOUS
  <1>1. LiveInv => RejectedHasNoExposure
    BY DEF LiveInv, Core
  <1>2. Spec => []LiveInv
    BY LiveInvariant
  <1> QED BY <1>1, <1>2, PTL

\* Only Place sends an order, at a stage where the account holds nothing.
LEMMA SentWhenFlat ==
  ASSUME LiveScope, LiveInv, [Next]_vars, sent' # sent
  PROVE  \A d \in Decision : ~Exposed(d)
  <1>1. PICK r \in Runtime : pc[r] = "submit"
    <2>1. PICK r \in Runtime : OnSnapshot(r)
      BY DEF Next, ChangeCredentials, Crash, StartBuild, Install, FailBuild, Queue, LocalExit, Exchange, Land,
             Lose, vars, log
    <2>2. CASE \/ Reserve(r) \/ ReserveFails(r) \/ Confirmed(r) \/ Unconfirmed(r) \/ NoteOrder(r)
               \/ \E d \in Decision : Trigger(r, d)
      BY <2>2 DEF Reserve, ReserveFails, Confirmed, Unconfirmed, NoteOrder, Trigger, log
    <2>3. CASE \/ Promote(r) \/ ClearPromoted(r) \/ GateCancelled(r) \/ ClearCancelled(r)
               \/ QuoteExpired(r) \/ ClearExpired(r) \/ Blocked(r) \/ ClearRejected(r)
               \/ Saved(r) \/ ClearFilled(r)
      BY <2>3 DEF Promote, ClearPromoted, GateCancelled, ClearCancelled, QuoteExpired, ClearExpired,
                  Blocked, ClearRejected, Saved, ClearFilled, log
    <2>4. CASE \/ Start(r) \/ Sync(r) \/ SyncFails(r) \/ GateSkips(r) \/ CheckPosition(r)
               \/ CheckPending(r) \/ CheckFails(r) \/ Decide(r) \/ Claim(r) \/ ClaimFails(r)
               \/ SubmitFails(r) \/ PlaceFails(r) \/ NotSaved(r)
      BY <2>4 DEF Start, Sync, SyncFails, GateSkips, CheckPosition, CheckPending, CheckFails, Decide,
                  Claim, ClaimFails, SubmitFails, PlaceFails, NotSaved, log
    <2>5. CASE PaperFill(r) \/ Place(r)
      BY <2>5 DEF PaperFill, Place
    <2> QED BY <2>1, <2>2, <2>3, <2>4, <2>5, Zenon DEF OnSnapshot
  <1>2. StageAt(r)
    BY DEF LiveInv, Stages
  <1> QED BY <1>1, <1>2 DEF StageAt, HoldsAt, Flat

\* In LIVE one operation at a time: when an order is sent, the account has neither a
\* position nor a working order, whatever its restarts left in the database.
THEOREM LiveOneEntry == LiveScope => (Spec => OneEntryAtATime)
  <1> SUFFICES ASSUME LiveScope PROVE Spec => OneEntryAtATime
    OBVIOUS
  <1>1. LiveInv /\ [Next]_vars => [sent' # sent => \A d \in Decision : ~Exposed(d)]_vars
    BY SentWhenFlat
  <1>2. Spec => []LiveInv
    BY LiveInvariant
  <1> QED BY <1>1, <1>2, PTL DEF Spec, OneEntryAtATime

-----------------------------------------------------------------------------
(* DEMO: the inductive invariant. *)

\* In DEMO nothing is pending, and the stages of reconciliation, reservation and
\* confirmation are not visited.
Checking == {"checkPosition", "checkPending", "decide", "claim", "submit"}
Paper ==
    /\ \A r \in Runtime : pending[r].dec = None
    /\ \A r \in Runtime : pc[r] \in {"idle", "queued", "gate", "saving"} \cup Checking

\* One runtime is current; one that is busy was installed, and so was one that is
\* not being built and knows a position.
Installed ==
    /\ \A r, q \in Runtime : phase[r] = "current" /\ phase[q] = "current" => r = q
    /\ \A r \in Runtime : pc[r] # "idle" => phase[r] \in {"current", "replaced"}
    /\ \A r \in Runtime, d \in Decision :
         book[r][d] # "none" => phase[r] \in {"building", "current", "replaced"}

\* A decision belongs to one snapshot of one runtime.
OwnDecision ==
    /\ \A r \in Runtime : task[r].dec # None => setupOf[task[r].dec] # None
    /\ \A r, q \in Runtime : task[r].dec = task[q].dec /\ task[r].dec # None => r = q
    /\ \A d \in Decision : setupOf[d] = None => verdict[d] = "none"

\* Until its order is sent, a decision is not rejected, and its runtime knows of no
\* open position.
AtWork ==
    \A r \in Runtime :
        /\ pc[r] \in Checking \cup {"saving"} => task[r].dec \in Decision
        /\ pc[r] \in Checking =>
             /\ task[r].dec \notin sent
             /\ verdict[task[r].dec] # "REJECTED"
             /\ \A d \in Decision : book[r][d] # "OPEN"

\* Only what was sent is in a book, in a row or on its way to one, and no rejected
\* decision was sent.
SentFirst ==
    /\ \A r \in Runtime, d \in Decision : book[r][d] # "none" => d \in sent
    /\ \A d \in Decision : rows[d] # "none" => d \in sent
    /\ \A w \in writes : w.dec \in sent
    /\ \A d \in Decision : verdict[d] = "REJECTED" => d \notin sent

\* The runtime that sent an order knows it, until a crash forgets it.
Remembered ==
    \A d \in sent :
        \/ \E p \in Runtime : phase[p] = "gone"
        \/ \E q \in Runtime : phase[q] \in {"current", "replaced"} /\ book[q][d] # "none"

DemoInv ==
    /\ TypeOK /\ ClaimFacts
    /\ Paper /\ Installed /\ OwnDecision /\ AtWork /\ SentFirst /\ Remembered

DemoFacts == Paper /\ Installed /\ OwnDecision /\ AtWork /\ SentFirst /\ Remembered

\* A snapshot records the outcome of its own decision, as rejected only before the
\* order is sent.
OwnOutcome(r) ==
    \/ verdict' = verdict
    \/ /\ pc[r] \in Checking \cup {"saving"}
       /\ \E event \in Verdict :
            Log(task[r].dec, event) /\ (event = "REJECTED" => pc[r] \in Checking)

\* What most steps of on_snapshot do: they move their runtime, away from an order or
\* towards it, and record the outcome.
LEMMA DemoQuiet ==
  ASSUME DemoInv, NEW r \in Runtime, pc[r] # "idle",
         NEW stage \in {"idle", "gate"} \cup Checking, Goto(r, stage),
         stage \in Checking => pc[r] \in Checking /\ verdict'[task[r].dec] # "REJECTED",
         UNCHANGED <<phase, task, book, pending, setupOf, sent, rows, writes>>,
         OwnOutcome(r)
  PROVE  DemoFacts'
  <1>1. /\ DemoFacts /\ pc \in [Runtime -> Stage] /\ verdict \in [Decision -> Verdict]
        /\ pc' = [pc EXCEPT ![r] = stage]
    BY Typed DEF DemoInv, DemoFacts, Goto
  <1>2. \A q \in Runtime : q # r => pc'[q] = pc[q]
    BY <1>1
  <1>3. pc'[r] = stage
    BY <1>1
  <1>4. pc[r] \in Checking \cup {"saving"} => task[r].dec \in Decision
    BY <1>1 DEF DemoFacts, AtWork
  <1>5. None \notin Decision
    BY EntryAssumption DEF EntryAssumption
  <1>6. \A d \in Decision : verdict'[d] = verdict[d] \/ d = task[r].dec
    BY <1>1 DEF OwnOutcome, Log
  <1>7. Paper' /\ Installed' /\ Remembered'
    BY <1>1, <1>2, <1>3 DEF DemoFacts, Paper, Installed, Remembered, Checking
  <1>8. OwnDecision'
    <2>1. \A d \in Decision : setupOf[d] = None => verdict'[d] = "none"
      BY <1>1, <1>4, <1>5, <1>6 DEF DemoFacts, OwnDecision
    <2> QED BY <1>1, <2>1 DEF DemoFacts, OwnDecision
  <1>9. AtWork'
    <2> SUFFICES ASSUME NEW q \in Runtime
                 PROVE  /\ pc'[q] \in Checking \cup {"saving"} => task[q].dec \in Decision
                        /\ pc'[q] \in Checking =>
                             /\ task[q].dec \notin sent
                             /\ verdict'[task[q].dec] # "REJECTED"
                             /\ \A d \in Decision : book[q][d] # "OPEN"
      BY DEF AtWork
    <2>1. CASE q = r
      BY <1>1, <1>3, <2>1 DEF DemoFacts, AtWork, Checking
    <2>2. CASE q # r
      <3>1. pc[q] \in Checking \cup {"saving"} => task[q].dec \in Decision /\ task[q].dec # task[r].dec
        BY <1>1, <1>5, <2>2 DEF DemoFacts, AtWork, OwnDecision
      <3> QED BY <1>1, <1>2, <1>6, <2>2, <3>1 DEF DemoFacts, AtWork
    <2> QED BY <2>1, <2>2
  <1>10. SentFirst'
    <2>1. \A d \in Decision : verdict'[d] = "REJECTED" => d \notin sent
      BY <1>1, <1>4 DEF DemoFacts, SentFirst, AtWork, OwnOutcome, Log
    <2> QED BY <1>1, <2>1 DEF DemoFacts, SentFirst
  <1> QED BY <1>7, <1>8, <1>9, <1>10 DEF DemoFacts

\* The steps that DEMO takes, but for the signal and the fill.
LEMMA DemoSnapshot ==
  ASSUME ~Live, DemoInv, NEW r \in Runtime,
         \/ Start(r) \/ GateSkips(r) \/ CheckPosition(r) \/ CheckPending(r) \/ CheckFails(r)
         \/ Decide(r) \/ Claim(r) \/ ClaimFails(r) \/ QuoteExpired(r) \/ SubmitFails(r)
         \/ Blocked(r) \/ Saved(r) \/ NotSaved(r)
  PROVE  DemoFacts' /\ OwnOutcome(r) /\ UNCHANGED <<book, sent>>
  <1> USE DEF mem, log, store
  <1>1. /\ DemoFacts /\ pc \in [Runtime -> Stage] /\ verdict \in [Decision -> Verdict]
    BY Typed DEF DemoInv, DemoFacts
  <1>2. pc[r] \in Checking => task[r].dec \in Decision /\ verdict[task[r].dec] # "REJECTED"
    BY <1>1 DEF DemoFacts, AtWork
  <1>3. ASSUME NEW event \in {"REJECTED", "ERROR", "OPENED"}, Finish(r, event),
               pc[r] \in Checking \cup {"saving"}, event = "REJECTED" => pc[r] \in Checking,
               UNCHANGED <<phase, task, book, pending, setupOf, sent, rows, writes>>
        PROVE  DemoFacts' /\ OwnOutcome(r) /\ UNCHANGED <<book, sent>>
    <2>1. OwnOutcome(r)
      BY <1>3 DEF Finish, OwnOutcome, Verdict
    <2>2. "idle" \notin Checking \cup {"saving"}
      BY DEF Checking
    <2> QED BY <1>3, <2>1, <2>2, DemoQuiet DEF Finish
  <1>4. ASSUME NEW stage \in Checking, Goto(r, stage), pc[r] \in Checking, verdict' = verdict,
               UNCHANGED <<phase, task, book, pending, setupOf, sent, rows, writes>>
        PROVE  DemoFacts' /\ OwnOutcome(r) /\ UNCHANGED <<book, sent>>
    <2>1. "idle" \notin Checking
      BY DEF Checking
    <2> QED BY <1>2, <1>4, <2>1, DemoQuiet DEF OwnOutcome
  <1>5. CASE Start(r)
    BY <1>5, DemoQuiet DEF Start, OwnOutcome, Checking
  <1>6. CASE GateSkips(r)
    BY <1>6, DemoQuiet DEF GateSkips, OwnOutcome, Checking
  <1>7. CASE CheckPosition(r)
    BY <1>3, <1>4, <1>7 DEF CheckPosition, Checking
  <1>8. CASE CheckPending(r)
    BY <1>3, <1>4, <1>8 DEF CheckPending, Checking
  <1>9. CASE CheckFails(r)
    BY <1>3, <1>9 DEF CheckFails, Checking
  <1>10. CASE Decide(r)
    <2>1. CASE Finish(r, "REJECTED")
      BY <1>3, <1>10, <2>1 DEF Decide, Checking
    <2>2. CASE Goto(r, "claim") /\ Log(task[r].dec, "accepted")
      <3>1. verdict'[task[r].dec] = "accepted"
        BY <1>1, <1>2, <1>10, <2>2 DEF Decide, Checking, Log
      <3>2. OwnOutcome(r)
        BY <1>10, <2>2 DEF Decide, OwnOutcome, Checking, Verdict
      <3> QED BY <1>10, <2>2, <3>1, <3>2, DemoQuiet DEF Decide, Checking
    <2> QED BY <1>10, <2>1, <2>2 DEF Decide
  <1>11. CASE Claim(r)
    BY <1>3, <1>4, <1>11 DEF Claim, Checking
  <1>12. CASE ClaimFails(r)
    BY <1>3, <1>12 DEF ClaimFails, Checking
  <1>13. CASE QuoteExpired(r)
    BY <1>3, <1>13 DEF QuoteExpired, Checking
  <1>14. CASE SubmitFails(r)
    BY <1>3, <1>14 DEF SubmitFails, Checking
  <1>15. CASE Blocked(r)
    BY <1>3, <1>15 DEF Blocked, Finish, Checking
  <1>16. CASE Saved(r)
    BY <1>3, <1>16 DEF Saved, Checking
  <1>17. CASE NotSaved(r)
    BY <1>3, <1>17 DEF NotSaved, Checking
  <1> QED
    BY <1>5, <1>6, <1>7, <1>8, <1>9, <1>10, <1>11, <1>12, <1>13, <1>14, <1>15, <1>16, <1>17

\* A signal gets a decision that no snapshot has and that was never sent.
LEMMA DemoTrigger ==
  ASSUME DemoInv, NEW r \in Runtime, NEW d \in Decision, Trigger(r, d)
  PROVE  DemoFacts'
  <1>1. /\ DemoFacts /\ ClaimFacts /\ pc \in [Runtime -> Stage] /\ task \in [Runtime -> Task]
        /\ setupOf \in [Decision -> Setup \cup {None}] /\ sent \subseteq Decision
        /\ book \in [Runtime -> [Decision -> Status]]
    BY Typed DEF DemoInv, DemoFacts
  <1>2. /\ pc[r] = "gate" /\ pc' = [pc EXCEPT ![r] = "checkPosition"]
        /\ OpenIn(r) = {}
        /\ setupOf[d] = None /\ setupOf' = [setupOf EXCEPT ![d] = task[r].setup]
        /\ task' = [task EXCEPT ![r] = [setup |-> task[r].setup, entries |-> TRUE, dec |-> d]]
        /\ UNCHANGED <<phase, book, pending, verdict, sent, rows, writes>>
    BY DEF Trigger, Goto, store
  <1>3. None \notin Setup /\ None \notin Decision
    BY EntryAssumption DEF EntryAssumption
  <1>4. task[r].setup \in Setup
    BY <1>1, <1>2 DEF ClaimFacts, Running
  <1>5. d \notin sent /\ verdict[d] = "none"
    BY <1>1, <1>2, <1>3 DEF ClaimFacts, SentUnderClaim, DemoFacts, OwnDecision
  <1>6. \A q \in Runtime : task'[q].dec = IF q = r THEN d ELSE task[q].dec
    BY <1>1, <1>2
  <1>7. \A q \in Runtime : pc'[q] = IF q = r THEN "checkPosition" ELSE pc[q]
    BY <1>1, <1>2
  <1>8. \A e \in Decision : setupOf'[e] = IF e = d THEN task[r].setup ELSE setupOf[e]
    BY <1>1, <1>2
  <1>9. \A e \in Decision : book[r][e] # "OPEN"
    BY <1>2 DEF OpenIn
  <1>10. Paper' /\ Installed' /\ SentFirst' /\ Remembered'
    BY <1>1, <1>2, <1>7 DEF DemoFacts, Paper, Installed, SentFirst, Remembered, Checking
  <1>11. OwnDecision'
    <2>1. \A q \in Runtime : task[q].dec \in Decision \cup {None}
      BY <1>1 DEF Task
    <2>2. \A q \in Runtime : task[q].dec # d
      BY <1>1, <1>2, <1>3 DEF DemoFacts, OwnDecision
    <2> QED BY <1>1, <1>2, <1>3, <1>4, <1>6, <1>8, <2>1, <2>2 DEF DemoFacts, OwnDecision
  <1>12. AtWork'
    BY <1>1, <1>2, <1>5, <1>6, <1>7, <1>9 DEF DemoFacts, AtWork
  <1> QED BY <1>10, <1>11, <1>12 DEF DemoFacts

\* A fill is known to its runtime before anything else happens to it.
LEMMA DemoFill ==
  ASSUME DemoInv, NEW r \in Runtime, PaperFill(r)
  PROVE  DemoFacts'
  <1>1. /\ DemoFacts /\ pc \in [Runtime -> Stage] /\ pending \in [Runtime -> Pending]
        /\ book \in [Runtime -> [Decision -> Status]]
    BY Typed DEF DemoInv, DemoFacts
  <1> DEFINE d == task[r].dec
  <1>2. /\ pc[r] = "submit" /\ pc' = [pc EXCEPT ![r] = "saving"]
        /\ sent' = sent \cup {d}
        /\ book' = [book EXCEPT ![r] = [book[r] EXCEPT ![d] = "OPEN"]]
        /\ pending' = [pending EXCEPT ![r] = NoPending]
        /\ writes' = writes \cup {[dec |-> d, status |-> "OPEN"]}
        /\ UNCHANGED <<phase, task, setupOf, verdict, rows>>
    BY DEF PaperFill, Finalize, Goto
  <1>3. d \in Decision /\ verdict[d] # "REJECTED"
    BY <1>1, <1>2 DEF DemoFacts, AtWork, Checking
  <1>4. phase[r] \in {"current", "replaced"}
    BY <1>1, <1>2 DEF DemoFacts, Installed
  <1>5. None \notin Decision
    BY EntryAssumption DEF EntryAssumption
  <1> HIDE DEF d
  <1>6. \A q \in Runtime, e \in Decision :
          book'[q][e] = IF q = r /\ e = d THEN "OPEN" ELSE book[q][e]
    BY <1>1, <1>2, <1>3
  <1>7. \A q \in Runtime : pc'[q] = IF q = r THEN "saving" ELSE pc[q]
    BY <1>1, <1>2
  <1>8. \A q \in Runtime : pending'[q].dec = None
    BY <1>1, <1>2 DEF DemoFacts, Paper, NoPending
  <1>9. Paper' /\ OwnDecision'
    BY <1>1, <1>2, <1>7, <1>8 DEF DemoFacts, Paper, OwnDecision
  <1>10. Installed'
    BY <1>1, <1>2, <1>4, <1>6, <1>7 DEF DemoFacts, Installed
  <1>11. AtWork'
    <2>1. \A q \in Runtime : q # r /\ pc[q] \in Checking => task[q].dec # d
      BY <1>1, <1>3, <1>5 DEF DemoFacts, AtWork, OwnDecision, d
    <2>2. "saving" \notin Checking /\ task[r].dec \in Decision
      BY <1>3 DEF Checking, d
    <2> QED BY <1>1, <1>2, <1>6, <1>7, <2>1, <2>2 DEF DemoFacts, AtWork
  <1>12. SentFirst'
    BY <1>1, <1>2, <1>3, <1>6 DEF DemoFacts, SentFirst
  <1>13. Remembered'
    <2>1. book'[r][d] = "OPEN"
      BY <1>3, <1>6
    <2>2. \A q \in Runtime, e \in Decision : book[q][e] # "none" => book'[q][e] # "none"
      BY <1>6
    <2>3. \A e \in sent : e \in Decision
      BY Typed DEF DemoInv
    <2> QED BY <1>1, <1>2, <1>4, <2>1, <2>2, <2>3 DEF DemoFacts, Remembered
  <1> QED BY <1>9, <1>10, <1>11, <1>12, <1>13 DEF DemoFacts

\* The steps of on_snapshot that DEMO never takes.
LEMMA DemoNever ==
  ASSUME ~Live, DemoInv, NEW r \in Runtime
  PROVE  ~(\/ Sync(r) \/ SyncFails(r) \/ Promote(r) \/ ClearPromoted(r) \/ GateCancelled(r)
           \/ ClearCancelled(r) \/ Reserve(r) \/ ReserveFails(r) \/ ClearExpired(r)
           \/ ClearRejected(r) \/ Place(r) \/ PlaceFails(r) \/ Confirmed(r) \/ Unconfirmed(r)
           \/ NoteOrder(r) \/ ClearFilled(r))
  <1>1. pc[r] \in {"idle", "queued", "gate", "saving"} \cup Checking /\ pending[r].dec = None
    BY DEF DemoInv, Paper
  <1>2. ~(\/ Sync(r) \/ SyncFails(r) \/ Promote(r) \/ ClearPromoted(r)
          \/ ClearCancelled(r) \/ Reserve(r) \/ ReserveFails(r) \/ ClearExpired(r))
    BY <1>1 DEF Checking, Sync, SyncFails, Promote, ClearPromoted, ClearCancelled, Reserve,
                ReserveFails, ClearExpired
  <1>3. ~(\/ ClearRejected(r) \/ Place(r) \/ PlaceFails(r) \/ Confirmed(r) \/ Unconfirmed(r)
          \/ NoteOrder(r) \/ ClearFilled(r))
    BY <1>1 DEF Checking, ClearRejected, Place, PlaceFails, Confirmed, Unconfirmed, NoteOrder,
                ClearFilled
  <1>4. ~GateCancelled(r)
    BY <1>1, EntryAssumption DEF EntryAssumption, GateCancelled, Cancelled, OfSymbol
  <1> QED BY <1>2, <1>3, <1>4

\* What is not a step of on_snapshot records nothing and sends nothing.
LEMMA DemoAround ==
  ASSUME ~Live, DemoInv,
         \/ ChangeCredentials \/ Crash
         \/ \E r \in Runtime : StartBuild(r) \/ Install(r) \/ FailBuild(r)
         \/ \E r \in Runtime, s \in Setup, entries \in BOOLEAN : Queue(r, s, entries)
         \/ \E r \in Runtime, d \in Decision : LocalExit(r, d)
         \/ \E d \in Decision : Exchange(d)
         \/ \E w \in writes : Land(w) \/ Lose(w)
  PROVE  DemoFacts' /\ UNCHANGED <<verdict, sent>>
  <1> USE DEF log, store
  <1>1. /\ DemoFacts /\ pc \in [Runtime -> Stage] /\ pending \in [Runtime -> Pending]
        /\ phase \in [Runtime -> {"new", "building", "current", "replaced", "gone"}]
        /\ task \in [Runtime -> Task] /\ sent \subseteq Decision
        /\ book \in [Runtime -> [Decision -> Status]] /\ rows \in [Decision -> Status]
    BY Typed DEF DemoInv, DemoFacts
  <1>2. CASE ChangeCredentials
    <2>1. UNCHANGED <<phase, pc, task, book, pending, setupOf, verdict, sent, rows, writes>>
      BY <1>2 DEF ChangeCredentials
    <2> QED BY <1>1, <2>1 DEF DemoFacts, Paper, Installed, OwnDecision, AtWork, SentFirst, Remembered
  <1>3. CASE Crash
    <2>1. /\ phase' = [r \in Runtime |-> IF phase[r] = "new" THEN "new" ELSE "gone"]
          /\ pc' = [r \in Runtime |-> "idle"]
          /\ task' = [r \in Runtime |-> NoTask]
          /\ book' = [r \in Runtime |-> [d \in Decision |-> "none"]]
          /\ pending' = [r \in Runtime |-> NoPending]
          /\ UNCHANGED <<setupOf, verdict, sent, rows, writes>>
          /\ \E r \in Runtime : phase[r] \in {"current", "replaced"}
      BY <1>3 DEF Crash
    <2>2. \E r \in Runtime : phase'[r] = "gone"
      BY <2>1
    <2>3. Paper' /\ Installed' /\ AtWork'
      BY <2>1 DEF Paper, Installed, AtWork, NoPending, Checking
    <2>4. OwnDecision' /\ SentFirst' /\ Remembered'
      BY <1>1, <2>1, <2>2 DEF DemoFacts, OwnDecision, SentFirst, Remembered, NoTask
    <2> QED BY <2>1, <2>3, <2>4 DEF DemoFacts
  <1>4. ASSUME NEW r \in Runtime, StartBuild(r) PROVE DemoFacts' /\ UNCHANGED <<verdict, sent>>
    <2>1. /\ phase[r] = "new" /\ phase' = [phase EXCEPT ![r] = "building"]
          /\ book' = [book EXCEPT ![r] =
                 [d \in Decision |-> IF rows[d] = "OPEN" THEN "OPEN" ELSE "none"]]
          /\ UNCHANGED <<pc, task, pending, setupOf, verdict, sent, rows, writes>>
      BY <1>4 DEF StartBuild
    <2>2. \A q \in Runtime, d \in Decision :
            book'[q][d] = IF q = r THEN IF rows[d] = "OPEN" THEN "OPEN" ELSE "none"
                          ELSE book[q][d]
      BY <1>1, <2>1
    <2>3. \A q \in Runtime : phase'[q] = IF q = r THEN "building" ELSE phase[q]
      BY <1>1, <2>1
    <2>4. pc[r] = "idle"
      BY <1>1, <2>1 DEF DemoFacts, Installed
    <2>5. Paper' /\ Installed' /\ OwnDecision' /\ AtWork'
      BY <1>1, <2>1, <2>2, <2>3, <2>4
         DEF DemoFacts, Paper, Installed, OwnDecision, AtWork, Checking
    <2>6. SentFirst'
      BY <1>1, <2>1, <2>2 DEF DemoFacts, SentFirst
    <2>7. Remembered'
      BY <1>1, <2>1, <2>2, <2>3 DEF DemoFacts, Remembered
    <2> QED BY <2>1, <2>5, <2>6, <2>7 DEF DemoFacts
  <1>5. ASSUME NEW r \in Runtime, Install(r) PROVE DemoFacts' /\ UNCHANGED <<verdict, sent>>
    <2>1. /\ phase[r] = "building"
          /\ phase' = [q \in Runtime |-> IF q = r THEN "current"
                                         ELSE IF phase[q] = "current" THEN "replaced"
                                         ELSE phase[q]]
          /\ pending' = [pending EXCEPT ![r] = NoPending]
          /\ UNCHANGED <<pc, task, book, setupOf, verdict, sent, rows, writes>>
      BY <1>5 DEF Install
    <2>2. \A q \in Runtime : pending'[q].dec = None
      BY <1>1, <2>1 DEF DemoFacts, Paper, NoPending
    <2>3. Paper' /\ Installed' /\ OwnDecision' /\ AtWork' /\ SentFirst'
      BY <1>1, <2>1, <2>2 DEF DemoFacts, Paper, Installed, OwnDecision, AtWork, SentFirst
    <2>4. Remembered'
      BY <1>1, <2>1 DEF DemoFacts, Remembered
    <2> QED BY <2>1, <2>3, <2>4 DEF DemoFacts
  <1>6. ASSUME NEW r \in Runtime, NEW s \in Setup, NEW entries \in BOOLEAN, Queue(r, s, entries)
        PROVE  DemoFacts' /\ UNCHANGED <<verdict, sent>>
    <2>1. /\ phase[r] = "current" /\ pc' = [pc EXCEPT ![r] = "queued"]
          /\ task' = [task EXCEPT ![r] = [setup |-> s, entries |-> entries, dec |-> None]]
          /\ UNCHANGED <<phase, book, pending, setupOf, verdict, sent, rows, writes>>
      BY <1>6 DEF Queue, Goto
    <2>2. \A q \in Runtime : task'[q].dec = IF q = r THEN None ELSE task[q].dec
      BY <1>1, <2>1
    <2>3. \A q \in Runtime : pc'[q] = IF q = r THEN "queued" ELSE pc[q]
      BY <1>1, <2>1
    <2>4. Paper' /\ Installed' /\ AtWork'
      BY <1>1, <2>1, <2>2, <2>3 DEF DemoFacts, Paper, Installed, AtWork, Checking
    <2>5. OwnDecision' /\ SentFirst' /\ Remembered'
      BY <1>1, <2>1, <2>2 DEF DemoFacts, OwnDecision, SentFirst, Remembered
    <2> QED BY <2>1, <2>4, <2>5 DEF DemoFacts
  <1>7. ASSUME NEW r \in Runtime, NEW d \in Decision, LocalExit(r, d)
        PROVE  DemoFacts' /\ UNCHANGED <<verdict, sent>>
    <2>1. /\ book[r][d] = "OPEN" /\ book' = [book EXCEPT ![r][d] = "CLOSED"]
          /\ writes' = writes \cup {[dec |-> d, status |-> "CLOSED"]}
          /\ UNCHANGED <<phase, pc, task, pending, setupOf, verdict, sent, rows>>
      BY <1>7 DEF LocalExit
    <2>2. \A q \in Runtime, e \in Decision :
            book'[q][e] = IF q = r /\ e = d THEN "CLOSED" ELSE book[q][e]
      BY <1>1, <2>1
    <2>3. \A q \in Runtime, e \in Decision :
            /\ book'[q][e] # "none" <=> book[q][e] # "none"
            /\ book'[q][e] = "OPEN" => book[q][e] = "OPEN"
      BY <2>1, <2>2
    <2>4. d \in sent
      BY <1>1, <2>1 DEF DemoFacts, SentFirst
    <2>5. Paper' /\ Installed' /\ OwnDecision' /\ AtWork'
      BY <1>1, <2>1, <2>3 DEF DemoFacts, Paper, Installed, OwnDecision, AtWork
    <2>6. SentFirst'
      BY <1>1, <2>1, <2>3, <2>4 DEF DemoFacts, SentFirst
    <2>7. Remembered'
      BY <1>1, <2>1, <2>3 DEF DemoFacts, Remembered
    <2> QED BY <2>1, <2>5, <2>6, <2>7 DEF DemoFacts
  <1>8. ASSUME NEW d \in Decision, Exchange(d) PROVE DemoFacts' /\ UNCHANGED <<verdict, sent>>
    <2>1. UNCHANGED <<phase, pc, task, book, pending, setupOf, verdict, sent, rows, writes>>
      BY <1>8 DEF Exchange, mem
    <2> QED BY <1>1, <2>1 DEF DemoFacts, Paper, Installed, OwnDecision, AtWork, SentFirst, Remembered
  <1>9. ASSUME NEW w \in writes, Land(w) \/ Lose(w) PROVE DemoFacts' /\ UNCHANGED <<verdict, sent>>
    <2>1. /\ writes' = writes \ {w}
          /\ UNCHANGED <<phase, pc, task, book, pending, setupOf, verdict, sent>>
          /\ rows' = rows \/ rows' = [rows EXCEPT ![w.dec] = IF @ = "CLOSED" THEN "CLOSED" ELSE w.status]
      BY <1>9 DEF Land, Lose, mem
    <2>2. w.dec \in sent
      BY <1>1 DEF DemoFacts, SentFirst
    <2>3. \A d \in Decision : rows'[d] # "none" => d \in sent
      BY <1>1, <2>1, <2>2 DEF DemoFacts, SentFirst
    <2> QED
      BY <1>1, <2>1, <2>3 DEF DemoFacts, Paper, Installed, OwnDecision, AtWork, SentFirst, Remembered
  <1>10. ASSUME NEW r \in Runtime, FailBuild(r) PROVE DemoFacts' /\ UNCHANGED <<verdict, sent>>
    <2>1. /\ phase[r] = "building"
          /\ phase' = [q \in Runtime |-> IF q = r THEN "new"
                                         ELSE IF phase[q] = "current" THEN "replaced"
                                         ELSE phase[q]]
          /\ book' = [book EXCEPT ![r] = [d \in Decision |-> "none"]]
          /\ UNCHANGED <<pc, task, pending, setupOf, verdict, sent, rows, writes>>
      BY <1>10 DEF FailBuild
    <2>2. \A q \in Runtime, d \in Decision : book'[q][d] = IF q = r THEN "none" ELSE book[q][d]
      BY <1>1, <2>1
    <2>3. pc[r] = "idle"
      BY <1>1, <2>1 DEF DemoFacts, Installed
    <2>4. Paper' /\ OwnDecision' /\ AtWork' /\ SentFirst'
      BY <1>1, <2>1, <2>2 DEF DemoFacts, Paper, OwnDecision, AtWork, SentFirst
    <2>5. Installed'
      BY <1>1, <2>1, <2>2, <2>3 DEF DemoFacts, Installed
    <2>6. Remembered'
      BY <1>1, <2>1, <2>2 DEF DemoFacts, Remembered
    <2> QED BY <2>1, <2>4, <2>5, <2>6 DEF DemoFacts
  <1> QED BY <1>2, <1>3, <1>4, <1>5, <1>6, <1>7, <1>8, <1>9, <1>10

LEMMA DemoInit == Init => DemoInv
  BY TypesInit, FactsInit
     DEF Init, DemoInv, Paper, Installed, OwnDecision, AtWork, SentFirst, Remembered, NoTask,
         NoPending, Checking

\* Every step keeps the invariant; the outcome that a step of on_snapshot records is
\* its own, and a step that sends an order is a fill.
LEMMA DemoStep ==
  ASSUME ~Live, DemoInv, [Next]_vars
  PROVE  /\ DemoInv'
         /\ verdict' = verdict \/ \E r \in Runtime : OwnOutcome(r)
         /\ sent' = sent \/ \E r \in Runtime : PaperFill(r)
  <1>1. TypeOK' /\ ClaimFacts'
    BY TypesStep, FactsStep DEF DemoInv, ClaimFacts
  <1>2. \/ DemoFacts' /\ UNCHANGED <<verdict, sent>>
        \/ \E r \in Runtime : DemoFacts' /\ OwnOutcome(r) /\ UNCHANGED <<book, sent>>
        \/ \E r \in Runtime : DemoFacts' /\ PaperFill(r) /\ verdict' = verdict
    <2>1. CASE \/ ChangeCredentials \/ Crash
               \/ \E r \in Runtime : StartBuild(r) \/ Install(r) \/ FailBuild(r)
               \/ \E r \in Runtime, s \in Setup, entries \in BOOLEAN : Queue(r, s, entries)
               \/ \E r \in Runtime, d \in Decision : LocalExit(r, d)
               \/ \E d \in Decision : Exchange(d)
               \/ \E w \in writes : Land(w) \/ Lose(w)
      BY <2>1, DemoAround
    <2>2. ASSUME NEW r \in Runtime, OnSnapshot(r)
          PROVE  \/ DemoFacts' /\ UNCHANGED <<verdict, sent>>
                 \/ DemoFacts' /\ OwnOutcome(r) /\ UNCHANGED <<book, sent>>
                 \/ DemoFacts' /\ PaperFill(r) /\ verdict' = verdict
      <3>1. CASE PaperFill(r)
        BY <3>1, DemoFill DEF PaperFill
      <3>2. ASSUME NEW d \in Decision, Trigger(r, d) PROVE DemoFacts' /\ UNCHANGED <<verdict, sent>>
        BY <3>2, DemoTrigger DEF Trigger
      <3>3. CASE \/ Start(r) \/ GateSkips(r) \/ CheckPosition(r) \/ CheckPending(r) \/ CheckFails(r)
                 \/ Decide(r) \/ Claim(r) \/ ClaimFails(r) \/ QuoteExpired(r) \/ SubmitFails(r)
                 \/ Blocked(r) \/ Saved(r) \/ NotSaved(r)
        BY <3>3, DemoSnapshot
      <3> QED BY <2>2, <3>1, <3>2, <3>3, DemoNever, Zenon DEF OnSnapshot
    <2>3. CASE UNCHANGED vars
      <3>1. UNCHANGED <<phase, pc, task, book, pending, setupOf, verdict, sent, rows, writes>>
        BY <2>3 DEF vars, mem, log, store
      <3> QED BY <3>1
        DEF DemoInv, DemoFacts, Paper, Installed, OwnDecision, AtWork, SentFirst, Remembered
    <2> QED BY <2>1, <2>2, <2>3, Zenon DEF Next
  <1>3. DemoFacts' => DemoInv'
    BY <1>1 DEF DemoFacts, DemoInv
  <1> QED BY <1>2, <1>3

\* The inductive invariant of the entry pipeline in DEMO.
THEOREM DemoInvariant == ~Live => (Spec => []DemoInv)
  <1> SUFFICES ASSUME ~Live PROVE Spec => []DemoInv
    OBVIOUS
  <1>1. Init => DemoInv
    BY DemoInit
  <1>2. DemoInv /\ [Next]_vars => DemoInv'
    BY DemoStep
  <1> QED BY <1>1, <1>2, PTL DEF Spec

\* The only outcome recorded for a decision whose position is in a book is OPENED.
LEMMA DemoReports ==
  ASSUME ~Live, DemoInv, [Next]_vars, NEW d \in Decision, NEW q \in Runtime, book[q][d] # "none",
         verdict'[d] # verdict[d]
  PROVE  verdict'[d] = "OPENED"
  <1>1. verdict \in [Decision -> Verdict] /\ d \in sent
    BY Typed DEF DemoInv, SentFirst
  <1>2. PICK r \in Runtime : OnSnapshot(r)
    BY DemoStep DEF Next, ChangeCredentials, Crash, StartBuild, Install, FailBuild, Queue, LocalExit, Exchange,
                    Land, Lose, vars, log
  <1>3. \A event \in Verdict : Log(task[r].dec, event) => d = task[r].dec /\ verdict'[d] = event
    BY <1>1 DEF Log
  <1>4. pc[r] \in Checking => task[r].dec # d
    BY <1>1 DEF DemoInv, AtWork
  <1>5. ~(\/ Start(r) \/ GateSkips(r) \/ PaperFill(r) \/ \E e \in Decision : Trigger(r, e))
    BY DEF Start, GateSkips, PaperFill, Trigger, log
  <1>6. CASE CheckPosition(r) \/ CheckPending(r) \/ CheckFails(r) \/ Decide(r)
    BY <1>3, <1>4, <1>6
       DEF CheckPosition, CheckPending, CheckFails, Decide, Checking, Finish, Verdict
  <1>7. CASE Claim(r) \/ ClaimFails(r) \/ QuoteExpired(r) \/ SubmitFails(r) \/ Blocked(r)
    BY <1>3, <1>4, <1>7
       DEF Claim, ClaimFails, QuoteExpired, SubmitFails, Blocked, Checking, Finish, Verdict
  <1>8. CASE Saved(r) \/ NotSaved(r)
    BY <1>3, <1>8 DEF Saved, NotSaved, Finish, Verdict
  <1> QED BY <1>2, <1>5, <1>6, <1>7, <1>8, DemoNever DEF OnSnapshot

\* Where a position can be that the runtime that enters does not know.
LEMMA DemoOverlap ==
  ASSUME ~Live, DemoInv, [Next]_vars, NEW r \in Runtime, NEW d \in Decision,
         task[r].dec \in sent' \ sent, Exposed(d)
  PROVE  /\ book[r][d] = "none"
         /\ \/ phase[r] = "replaced"
            \/ \E q \in Runtime : phase[q] = "replaced" /\ book[q][d] = "OPEN"
            \/ \E q, p \in Runtime :
                 phase[q] = "building" /\ book[q][d] = "OPEN" /\ phase[p] = "gone"
  <1>1. book \in [Runtime -> [Decision -> Status]] /\ None \notin Decision
    BY Typed, EntryAssumption DEF DemoInv, EntryAssumption
  <1>2. PICK x \in Runtime : PaperFill(x)
    BY DemoStep
  <1>3. pc[x] = "submit" /\ task[x].dec \in Decision /\ task[x].dec = task[r].dec
    BY <1>2 DEF PaperFill, DemoInv, AtWork, Checking
  <1>4. pc[r] = "submit"
    BY <1>1, <1>3 DEF DemoInv, OwnDecision
  <1>5. phase[r] \in {"current", "replaced"} /\ book[r][d] # "OPEN"
    BY <1>4 DEF DemoInv, Installed, AtWork, Checking
  <1>6. PICK h \in Runtime : book[h][d] = "OPEN"
    BY DEF Exposed
  <1>7. \A q \in Runtime : book[q][d] # "CLOSED"
    BY DEF Exposed
  <1>8. book[r][d] = "none"
    BY <1>1, <1>5, <1>7 DEF Status
  <1>9. CASE phase[h] = "building" /\ phase[r] = "current"
    <2>1. d \in sent
      BY <1>6 DEF DemoInv, SentFirst
    <2>2. CASE \E p \in Runtime : phase[p] = "gone"
      BY <1>6, <1>8, <1>9, <2>2
    <2>3. ASSUME NEW q \in Runtime, phase[q] \in {"current", "replaced"}, book[q][d] # "none"
          PROVE  phase[q] = "replaced" /\ book[q][d] = "OPEN"
      BY <1>1, <1>7, <1>8, <1>9, <2>3 DEF DemoInv, Installed, Status
    <2> QED BY <1>8, <2>1, <2>2, <2>3 DEF DemoInv, Remembered
  <1>10. phase[h] \in {"building", "current", "replaced"}
    BY <1>6 DEF DemoInv, Installed
  <1>11. CASE phase[h] = "current"
    BY <1>5, <1>6, <1>8, <1>11 DEF DemoInv, Installed
  <1>12. CASE phase[h] = "replaced"
    BY <1>6, <1>8, <1>12
  <1> QED BY <1>5, <1>8, <1>9, <1>10, <1>11, <1>12

\* DEMO entries, with runtimes rebuilt and the process restarted at any point: a fill
\* in a book is reported as opened and nothing else, positions overlap only around
\* the replacement of a runtime, and a rejected decision holds nothing.
THEOREM DemoEntries == ~Live => (Spec => PaperEntriesAreSound)
  <1> SUFFICES ASSUME ~Live PROVE Spec => PaperEntriesAreSound
    OBVIOUS
  <1>1. Spec => []DemoInv
    BY DemoInvariant
  <1>2. DemoInv /\ [Next]_vars =>
          [\A d \in Decision :
             (\E r \in Runtime : book[r][d] # "none") /\ verdict'[d] # verdict[d]
                 => verdict'[d] = "OPENED"]_vars
    BY DemoReports
  <1>3. DemoInv /\ [Next]_vars =>
          [\A r \in Runtime, d \in Decision :
             task[r].dec \in sent' \ sent /\ Exposed(d)
                 => /\ book[r][d] = "none"
                    /\ \/ phase[r] = "replaced"
                       \/ \E q \in Runtime : phase[q] = "replaced" /\ book[q][d] = "OPEN"
                       \/ \E q, p \in Runtime :
                            phase[q] = "building" /\ book[q][d] = "OPEN" /\ phase[p] = "gone"]_vars
    BY DemoOverlap
  <1>4. DemoInv => TypeOK /\ RejectedHasNoExposure
    BY DEF DemoInv, SentFirst, RejectedHasNoExposure, Exposed
  <1>5. Spec => FillIsReportedOpened
    BY <1>1, <1>2, PTL DEF Spec, FillIsReportedOpened
  <1>6. Spec => OverlapIsReplacement
    BY <1>1, <1>3, PTL DEF Spec, OverlapIsReplacement
  <1>7. Spec => [](TypeOK /\ RejectedHasNoExposure)
    BY <1>1, <1>4, PTL
  <1> QED BY <1>5, <1>6, <1>7 DEF PaperEntriesAreSound
=============================================================================
