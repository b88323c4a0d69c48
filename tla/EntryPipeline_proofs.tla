------------------------ MODULE EntryPipeline_proofs ------------------------
(***************************************************************************)
(* Proofs about EntryPipeline: a setup leads to one order in all, for any  *)
(* number of runtimes, setups and decisions, in LIVE and in DEMO, with     *)
(* rebuilt runtimes, partial fills and crashes.                            *)
(***************************************************************************)
EXTENDS EntryPipeline, TLAPS

\* A runtime that has left idle handles the snapshot of a setup's symbol.
Running ==
    \A r \in Runtime : pc[r] # "idle" => task[r].setup \in Setup

\* From the signal to the order, the decision is recorded for that setup.
Deciding ==
    \A r \in Runtime :
        pc[r] \in {"checkPosition", "checkPending", "decide", "claim", "reserve", "submit",
                   "placed"}
            => /\ task[r].dec \in Decision
               /\ setupOf[task[r].dec] = task[r].setup

\* Past Claim, the setup is claimed by the decision.
Holding ==
    \A r \in Runtime :
        pc[r] \in {"reserve", "submit"} => claims[task[r].setup] = task[r].dec

\* An order was sent under the claim of its setup, which still stands.
SentUnderClaim ==
    \A d \in sent : setupOf[d] \in Setup /\ claims[setupOf[d]] = d

ClaimFacts == Running /\ Deciding /\ Holding /\ SentUnderClaim

-----------------------------------------------------------------------------
(* Types.  The sets of TypeOK, by name. *)

Task == [setup : Setup \cup {None}, entries : BOOLEAN, dec : Decision \cup {None}]
Pending == [dec : Decision \cup {None}, order : BOOLEAN]
Verdict == {"none", "accepted", "REJECTED", "PENDING", "OPENED", "ERROR"}
OrderState == [order : {"none", "working", "finish", "cancel"},
               position : {"none", "open", "closed"}]
Write == [dec : Decision, status : {"OPEN", "CLOSED"}]
Reservation == [active : BOOLEAN, dec : Decision \cup {None}, order : BOOLEAN]

LEMMA Typed ==
  TypeOK <=>
    /\ phase \in [Runtime -> {"new", "building", "current", "replaced", "gone"}]
    /\ stale \in BOOLEAN
    /\ pc \in [Runtime -> Stage]
    /\ task \in [Runtime -> Task]
    /\ book \in [Runtime -> [Decision -> Status]]
    /\ pending \in [Runtime -> Pending]
    /\ setupOf \in [Decision -> Setup \cup {None}]
    /\ verdict \in [Decision -> Verdict]
    /\ sent \in SUBSET Decision
    /\ exch \in [Decision -> OrderState]
    /\ rows \in [Decision -> Status]
    /\ writes \in SUBSET Write
    /\ reservation \in Reservation
    /\ claims \in [Setup -> Decision \cup {None}]
  BY DEF TypeOK, Task, Pending, Verdict, OrderState, Write, Reservation

LEMMA TypedNext ==
  TypeOK' <=>
  /\ phase' \in [Runtime -> {"new", "building", "current", "replaced", "gone"}]
  /\ stale' \in BOOLEAN
  /\ pc' \in [Runtime -> Stage]
  /\ task' \in [Runtime -> Task]
  /\ book' \in [Runtime -> [Decision -> Status]]
  /\ pending' \in [Runtime -> Pending]
  /\ setupOf' \in [Decision -> Setup \cup {None}]
  /\ verdict' \in [Decision -> Verdict]
  /\ sent' \in SUBSET Decision
  /\ exch' \in [Decision -> OrderState]
  /\ rows' \in [Decision -> Status]
  /\ writes' \in SUBSET Write
  /\ reservation' \in Reservation
  /\ claims' \in [Setup -> Decision \cup {None}]
  BY DEF TypeOK, Task, Pending, Verdict, OrderState, Write, Reservation

LEMMA GotoTyped ==
  ASSUME TypeOK, NEW r, NEW stage \in Stage, Goto(r, stage)
  PROVE  pc' \in [Runtime -> Stage]
  BY Typed DEF Goto

LEMMA LogTyped ==
  ASSUME TypeOK, NEW d, NEW event \in Verdict, Log(d, event)
  PROVE  verdict' \in [Decision -> Verdict]
  BY Typed DEF Log

LEMMA FinishTyped ==
  ASSUME TypeOK, NEW r, NEW event \in Verdict, Finish(r, event)
  PROVE  pc' \in [Runtime -> Stage] /\ verdict' \in [Decision -> Verdict]
  BY GotoTyped, LogTyped DEF Finish, Stage

\* Giving up a reservation, with or without an error, leaves a reservation that is
\* the same but for its activity.
LEMMA ReleaseTyped ==
  ASSUME TypeOK, NEW r, Release(r) \/ ReleaseFails(r)
  PROVE  reservation' \in Reservation /\ pending' \in [Runtime -> Pending]
  <1>1. [reservation EXCEPT !.active = FALSE] \in Reservation
    BY Typed DEF Reservation
  <1>2. NoPending \in Pending
    BY DEF NoPending, Pending
  <1>3. [pending EXCEPT ![r] = NoPending] \in [Runtime -> Pending]
    BY <1>2, Typed
  <1> QED BY <1>1, <1>3, Typed DEF Release, ReleaseFails

\* A filled order enters the book as an open position.
LEMMA FinalizeTyped ==
  ASSUME TypeOK, NEW r \in Runtime, task[r].dec \in Decision, Finalize(r)
  PROVE  /\ book' \in [Runtime -> [Decision -> Status]]
         /\ pending' \in [Runtime -> Pending]
         /\ writes' \in SUBSET Write
         /\ pc' \in [Runtime -> Stage]
  <1>1. [book[r] EXCEPT ![task[r].dec] = "OPEN"] \in [Decision -> Status]
    BY Typed DEF Status
  <1>2. book' \in [Runtime -> [Decision -> Status]]
    BY <1>1, Typed DEF Finalize
  <1>3. NoPending \in Pending
    BY DEF NoPending, Pending
  <1>4. pending' \in [Runtime -> Pending]
    BY <1>3, Typed DEF Finalize
  <1>5. [dec |-> task[r].dec, status |-> "OPEN"] \in Write
    BY DEF Write
  <1>6. writes' \in SUBSET Write
    BY <1>5, Typed DEF Finalize
  <1> QED BY <1>2, <1>4, <1>6, GotoTyped DEF Finalize, Stage

LEMMA TypesInit == Init => TypeOK
  <1> SUFFICES ASSUME Init PROVE TypeOK
    OBVIOUS
  <1>1. NoTask \in Task /\ NoPending \in Pending /\ NoOrder \in OrderState
    BY DEF NoTask, NoPending, NoOrder, Task, Pending, OrderState
  <1>2. reservation \in Reservation
    BY DEF Init, Reservation
  <1> QED BY <1>1, <1>2, Typed DEF Init, Status, Stage, Verdict

\* The steps of on_snapshot keep the types.
LEMMA SnapshotTyped ==
  ASSUME TypeOK, Deciding, NEW r \in Runtime, OnSnapshot(r)
  PROVE  TypeOK'
  <1> USE DEF log, store, mem
  <1>1. CASE Start(r)
    <2>1. pc' \in [Runtime -> Stage]
      BY <1>1, GotoTyped DEF Start, Stage
    <2> QED BY <1>1, <2>1, Typed, TypedNext DEF Start
  <1>2. CASE Sync(r)
    <2>1. pc' \in [Runtime -> Stage]
      BY <1>2, GotoTyped DEF Sync, Stage
    <2>2. book' \in [Runtime -> [Decision -> Status]]
      BY <1>2, Typed DEF Sync, Status
    <2>3. \A d \in Decision, status \in {"OPEN", "CLOSED"} :
           [dec |-> d, status |-> status] \in Write
      BY DEF Write
    <2>4. PICK settled \in SUBSET Decision, opened \in SUBSET Decision :
           writes' = writes \cup {[dec |-> d, status |-> "CLOSED"] : d \in settled}
                            \cup {[dec |-> d, status |-> "OPEN"] : d \in opened}
      BY <1>2, Zenon DEF Sync, OfSymbol
    <2>5. writes' \in SUBSET Write
      BY <2>3, <2>4, Typed
    <2> QED BY <1>2, <2>1, <2>2, <2>3, <2>4, <2>5, Typed, TypedNext DEF Sync
  <1>3. CASE SyncFails(r)
    <2>1. pc' \in [Runtime -> Stage]
      BY <1>3, GotoTyped DEF SyncFails, Stage
    <2>2. task' \in [Runtime -> Task]
      BY <1>3, Typed DEF SyncFails, Task
    <2> QED BY <1>3, <2>1, <2>2, Typed, TypedNext DEF SyncFails
  <1>4. CASE Promote(r)
    <2>1. pc' \in [Runtime -> Stage]
      BY <1>4, GotoTyped DEF Promote, Stage
    <2> QED BY <1>4, <2>1, Typed, TypedNext DEF Promote
  <1>5. CASE ClearPromoted(r)
    <2>1. pc' \in [Runtime -> Stage]
      BY <1>5, GotoTyped DEF ClearPromoted, Stage
    <2>2. reservation' \in Reservation /\ pending' \in [Runtime -> Pending]
      BY <1>5, ReleaseTyped DEF ClearPromoted
    <2> QED BY <1>5, <2>1, <2>2, Typed, TypedNext DEF ClearPromoted
  <1>6. CASE GateCancelled(r)
    <2>1. pc' \in [Runtime -> Stage]
      BY <1>6, GotoTyped DEF GateCancelled, Stage
    <2>2. verdict' \in [Decision -> Verdict]
      BY <1>6, LogTyped DEF GateCancelled, Verdict
    <2> QED BY <1>6, <2>1, <2>2, Typed, TypedNext DEF GateCancelled
  <1>7. CASE ClearCancelled(r)
    <2>1. pc' \in [Runtime -> Stage]
      BY <1>7, GotoTyped DEF ClearCancelled, Stage
    <2>2. reservation' \in Reservation /\ pending' \in [Runtime -> Pending]
      BY <1>7, ReleaseTyped DEF ClearCancelled
    <2> QED BY <1>7, <2>1, <2>2, Typed, TypedNext DEF ClearCancelled
  <1>8. CASE GateSkips(r)
    <2>1. pc' \in [Runtime -> Stage]
      BY <1>8, GotoTyped DEF GateSkips, Stage
    <2> QED BY <1>8, <2>1, Typed, TypedNext DEF GateSkips
  <1>9. ASSUME NEW d \in Decision, Trigger(r, d) PROVE TypeOK'
    <2>1. pc' \in [Runtime -> Stage]
      BY <1>9, GotoTyped DEF Trigger, Stage
    <2>2. setupOf' \in [Decision -> Setup \cup {None}]
      BY <1>9, Typed DEF Trigger, Task
    <2>3. [setup |-> task[r].setup, entries |-> TRUE, dec |-> d] \in Task
      BY Typed DEF Task
    <2>4. task' \in [Runtime -> Task]
      BY <1>9, <2>3, Typed DEF Trigger
    <2> QED BY <1>9, <2>1, <2>2, <2>4, Typed, TypedNext DEF Trigger
  <1>10. CASE CheckPosition(r)
    <2>1. pc' \in [Runtime -> Stage] /\ verdict' \in [Decision -> Verdict]
      BY <1>10, Typed, GotoTyped, FinishTyped DEF CheckPosition, Stage, Verdict
    <2> QED BY <1>10, <2>1, Typed, TypedNext DEF CheckPosition
  <1>11. CASE CheckPending(r)
    <2>1. pc' \in [Runtime -> Stage] /\ verdict' \in [Decision -> Verdict]
      BY <1>11, Typed, GotoTyped, FinishTyped DEF CheckPending, Stage, Verdict
    <2> QED BY <1>11, <2>1, Typed, TypedNext DEF CheckPending
  <1>12. CASE CheckFails(r)
    <2>1. pc' \in [Runtime -> Stage] /\ verdict' \in [Decision -> Verdict]
      BY <1>12, FinishTyped DEF CheckFails, Verdict
    <2> QED BY <1>12, <2>1, Typed, TypedNext DEF CheckFails
  <1>13. CASE Decide(r)
    <2>1. pc' \in [Runtime -> Stage] /\ verdict' \in [Decision -> Verdict]
      BY <1>13, GotoTyped, LogTyped, FinishTyped DEF Decide, Stage, Verdict
    <2> QED BY <1>13, <2>1, Typed, TypedNext DEF Decide
  <1>14. CASE Claim(r)
    <2>1. pc' \in [Runtime -> Stage] /\ verdict' \in [Decision -> Verdict]
      BY <1>14, Typed, GotoTyped, FinishTyped DEF Claim, Stage, Verdict
    <2>2. claims' \in [Setup -> Decision \cup {None}]
      BY <1>14, Typed DEF Claim, Claimed, Deciding
    <2> QED BY <1>14, <2>1, <2>2, Typed, TypedNext DEF Claim
  <1>15. CASE ClaimFails(r)
    <2>1. pc' \in [Runtime -> Stage] /\ verdict' \in [Decision -> Verdict]
      BY <1>15, FinishTyped DEF ClaimFails, Verdict
    <2>2. claims' \in [Setup -> Decision \cup {None}]
      BY <1>15, Typed DEF ClaimFails, Claimed, Deciding
    <2> QED BY <1>15, <2>1, <2>2, Typed, TypedNext DEF ClaimFails
  <1>16. CASE Reserve(r)
    <2>1. pc' \in [Runtime -> Stage]
      BY <1>16, GotoTyped DEF Reserve, Stage
    <2>2. reservation' \in Reservation
      BY <1>16 DEF Reserve, Reserved, Reservation, Deciding
    <2>3. [dec |-> task[r].dec, order |-> FALSE] \in Pending
      BY <1>16 DEF Reserve, Deciding, Pending
    <2>4. pending' \in [Runtime -> Pending]
      BY <1>16, <2>3, Typed DEF Reserve
    <2> QED BY <1>16, <2>1, <2>2, <2>3, <2>4, Typed, TypedNext DEF Reserve
  <1>17. CASE ReserveFails(r)
    <2>1. pc' \in [Runtime -> Stage] /\ verdict' \in [Decision -> Verdict]
      BY <1>17, FinishTyped DEF ReserveFails, Verdict
    <2>2. Reserved(r) \in Reservation
      BY <1>17 DEF ReserveFails, Reserved, Reservation, Deciding
    <2>3. reservation' \in Reservation
      BY <1>17, <2>2, Typed DEF ReserveFails
    <2> QED BY <1>17, <2>1, <2>2, <2>3, Typed, TypedNext DEF ReserveFails
  <1>18. CASE QuoteExpired(r)
    <2>1. pc' \in [Runtime -> Stage] /\ verdict' \in [Decision -> Verdict]
      BY <1>18, Typed, GotoTyped, FinishTyped DEF QuoteExpired, Stage, Verdict
    <2> QED BY <1>18, <2>1, Typed, TypedNext DEF QuoteExpired
  <1>19. CASE ClearExpired(r)
    <2>1. pc' \in [Runtime -> Stage] /\ verdict' \in [Decision -> Verdict]
      BY <1>19, FinishTyped DEF ClearExpired, Verdict
    <2>2. reservation' \in Reservation /\ pending' \in [Runtime -> Pending]
      BY <1>19, ReleaseTyped DEF ClearExpired
    <2> QED BY <1>19, <2>1, <2>2, Typed, TypedNext DEF ClearExpired
  <1>20. CASE SubmitFails(r)
    <2>1. pc' \in [Runtime -> Stage] /\ verdict' \in [Decision -> Verdict]
      BY <1>20, FinishTyped DEF SubmitFails, Verdict
    <2> QED BY <1>20, <2>1, Typed, TypedNext DEF SubmitFails
  <1>21. CASE Blocked(r)
    <2>1. pc' \in [Runtime -> Stage]
      BY <1>21, GotoTyped DEF Blocked, Stage
    <2>2. verdict' \in [Decision -> Verdict]
      BY <1>21, LogTyped DEF Blocked, Verdict
    <2> QED BY <1>21, <2>1, <2>2, Typed, TypedNext DEF Blocked
  <1>22. CASE ClearRejected(r)
    <2>1. pc' \in [Runtime -> Stage]
      BY <1>22, GotoTyped DEF ClearRejected, Stage
    <2>2. reservation' \in Reservation /\ pending' \in [Runtime -> Pending]
      BY <1>22, ReleaseTyped DEF ClearRejected
    <2> QED BY <1>22, <2>1, <2>2, Typed, TypedNext DEF ClearRejected
  <1>23. CASE PaperFill(r)
    <2>1. task[r].dec \in Decision
      BY <1>23 DEF PaperFill, Deciding
    <2>2. Finalize(r)
      BY <1>23 DEF PaperFill
    <2>3. sent' \in SUBSET Decision
      BY <1>23, <2>1, Typed DEF PaperFill
    <2>4. /\ book' \in [Runtime -> [Decision -> Status]]
           /\ pending' \in [Runtime -> Pending]
           /\ writes' \in SUBSET Write
           /\ pc' \in [Runtime -> Stage]
      BY <1>23, <2>1, <2>2, FinalizeTyped
    <2> QED BY <1>23, <2>1, <2>2, <2>3, <2>4, Typed, TypedNext DEF PaperFill
  <1>24. CASE Place(r)
    <2>1. pc' \in [Runtime -> Stage]
      BY <1>24, GotoTyped DEF Place, Stage
    <2>2. sent' \in SUBSET Decision
      BY <1>24, Typed DEF Place, Deciding
    <2>3. [order |-> "working", position |-> "none"] \in OrderState
      BY <1>24 DEF OrderState
    <2>4. exch' \in [Decision -> OrderState]
      BY <1>24, <2>3, Typed DEF Place
    <2> QED BY <1>24, <2>1, <2>2, <2>3, <2>4, Typed, TypedNext DEF Place
  <1>25. CASE PlaceFails(r)
    <2>1. pc' \in [Runtime -> Stage] /\ verdict' \in [Decision -> Verdict]
      BY <1>25, FinishTyped DEF PlaceFails, Verdict
    <2> QED BY <1>25, <2>1, Typed, TypedNext DEF PlaceFails
  <1>26. CASE Confirmed(r)
    <2>1. task[r].dec \in Decision
      BY <1>26 DEF Confirmed, Deciding
    <2>2. Finalize(r)
      BY <1>26 DEF Confirmed
    <2>3. /\ book' \in [Runtime -> [Decision -> Status]]
           /\ pending' \in [Runtime -> Pending]
           /\ writes' \in SUBSET Write
           /\ pc' \in [Runtime -> Stage]
      BY <1>26, <2>1, <2>2, FinalizeTyped
    <2> QED BY <1>26, <2>1, <2>2, <2>3, Typed, TypedNext DEF Confirmed
  <1>27. CASE Unconfirmed(r)
    <2>1. pc' \in [Runtime -> Stage]
      BY <1>27, GotoTyped DEF Unconfirmed, Stage
    <2>2. verdict' \in [Decision -> Verdict]
      BY <1>27, LogTyped DEF Unconfirmed, Verdict
    <2>3. \A known \in BOOLEAN : [dec |-> task[r].dec, order |-> known] \in Pending
      BY <1>27 DEF Unconfirmed, Deciding, Pending
    <2>4. pending' \in [Runtime -> Pending]
      BY <1>27, <2>3, Typed DEF Unconfirmed
    <2> QED BY <1>27, <2>1, <2>2, <2>3, <2>4, Typed, TypedNext DEF Unconfirmed
  <1>28. CASE NoteOrder(r)
    <2>1. pc' \in [Runtime -> Stage]
      BY <1>28, GotoTyped DEF NoteOrder, Stage
    <2>2. [reservation EXCEPT !.active = TRUE, !.order = pending[r].order] \in Reservation
      BY <1>28, Typed DEF Pending, Reservation
    <2>3. reservation' \in Reservation
      BY <1>28, <2>2, Typed DEF NoteOrder
    <2> QED BY <1>28, <2>1, <2>2, <2>3, Typed, TypedNext DEF NoteOrder
  <1>29. CASE Saved(r)
    <2>1. pc' \in [Runtime -> Stage] /\ verdict' \in [Decision -> Verdict]
      BY <1>29, Typed, GotoTyped, FinishTyped DEF Saved, Stage, Verdict
    <2> QED BY <1>29, <2>1, Typed, TypedNext DEF Saved
  <1>30. CASE NotSaved(r)
    <2>1. pc' \in [Runtime -> Stage] /\ verdict' \in [Decision -> Verdict]
      BY <1>30, FinishTyped DEF NotSaved, Verdict
    <2> QED BY <1>30, <2>1, Typed, TypedNext DEF NotSaved
  <1>31. CASE ClearFilled(r)
    <2>1. pc' \in [Runtime -> Stage] /\ verdict' \in [Decision -> Verdict]
      BY <1>31, FinishTyped DEF ClearFilled, Verdict
    <2>2. reservation' \in Reservation /\ pending' \in [Runtime -> Pending]
      BY <1>31, ReleaseTyped DEF ClearFilled
    <2> QED BY <1>31, <2>1, <2>2, Typed, TypedNext DEF ClearFilled
  <1> QED BY <1>1, <1>2, <1>3, <1>4, <1>5, <1>6, <1>7, <1>8, <1>9, <1>10, <1>11, <1>12, <1>13, <1>14, <1>15, <1>16, <1>17, <1>18, <1>19, <1>20, <1>21, <1>22, <1>23, <1>24, <1>25, <1>26, <1>27, <1>28, <1>29, <1>30, <1>31 DEF OnSnapshot

\* So do the steps of the manager, of the exchange and of the saves.
LEMMA TypesStep ==
  ASSUME TypeOK, Deciding, [Next]_vars
  PROVE  TypeOK'
  <1> USE DEF log, store, mem
  <1>1. CASE ChangeCredentials
    BY <1>1, Typed, TypedNext DEF ChangeCredentials
  <1>2. CASE Crash
    <2>1. NoTask \in Task /\ NoPending \in Pending
      BY DEF NoTask, NoPending, Task, Pending
    <2>2. /\ phase' \in [Runtime -> {"new", "building", "current", "replaced", "gone"}]
          /\ pc' \in [Runtime -> Stage]
          /\ book' \in [Runtime -> [Decision -> Status]]
      BY <1>2, Typed DEF Crash, Stage, Status
    <2> QED BY <1>2, <2>1, <2>2, Typed, TypedNext DEF Crash
  <1>3. ASSUME NEW r \in Runtime, StartBuild(r) PROVE TypeOK'
    <2>1. [d \in Decision |-> IF rows[d] = "OPEN" THEN "OPEN" ELSE "none"]
             \in [Decision -> Status]
      BY DEF Status
    <2> QED BY <1>3, <2>1, Typed, TypedNext DEF StartBuild
  <1>4. ASSUME NEW r \in Runtime, Install(r) PROVE TypeOK'
    <2>1. [reservation EXCEPT !.active = FALSE] \in Reservation
      BY Typed DEF Reservation
    <2>2. reservation' \in Reservation
      BY <1>4, <2>1, Typed DEF Install
    <2>3. /\ [dec |-> reservation.dec, order |-> reservation.order] \in Pending
          /\ NoPending \in Pending
      BY Typed DEF Reservation, Pending, NoPending
    <2>4. pending' \in [Runtime -> Pending]
      BY <1>4, <2>3, Typed DEF Install
    <2>5. phase' \in [Runtime -> {"new", "building", "current", "replaced", "gone"}]
      BY <1>4, Typed DEF Install
    <2> QED BY <1>4, <2>2, <2>4, <2>5, Typed, TypedNext DEF Install
  <1>5. ASSUME NEW r \in Runtime, OnSnapshot(r) PROVE TypeOK'
    BY <1>5, SnapshotTyped
  <1>6. ASSUME NEW r \in Runtime, NEW s \in Setup, NEW entries \in BOOLEAN,
               Queue(r, s, entries)
        PROVE  TypeOK'
    <2>1. [setup |-> s, entries |-> entries, dec |-> None] \in Task
      BY DEF Task
    <2>2. pc' \in [Runtime -> Stage]
      BY <1>6, GotoTyped DEF Queue, Stage
    <2> QED BY <1>6, <2>1, <2>2, Typed, TypedNext DEF Queue
  <1>7. ASSUME NEW r \in Runtime, NEW d \in Decision, LocalExit(r, d) PROVE TypeOK'
    <2>1. [dec |-> d, status |-> "CLOSED"] \in Write
      BY DEF Write
    <2>2. book' \in [Runtime -> [Decision -> Status]]
      BY <1>7, Typed DEF LocalExit, Status
    <2> QED BY <1>7, <2>1, <2>2, Typed, TypedNext DEF LocalExit
  <1>8. ASSUME NEW d \in Decision, Exchange(d) PROVE TypeOK'
    <2>1. \A order \in {"none", "working", "finish", "cancel"},
             position \in {"none", "open", "closed"} :
             [order |-> order, position |-> position] \in OrderState
      BY DEF OrderState
    <2>2. exch[d].order \in {"none", "working", "finish", "cancel"}
      BY Typed DEF OrderState
    <2>3. PICK o \in OrderState : exch' = [exch EXCEPT ![d] = o]
      BY <1>8, <2>1, <2>2 DEF Exchange
    <2>4. exch' \in [Decision -> OrderState]
      BY <2>3, Typed
    <2> QED BY <1>8, <2>4, Typed, TypedNext DEF Exchange
  <1>9. ASSUME NEW w \in writes, Land(w) PROVE TypeOK'
    <2>1. w.status \in Status
      BY Typed DEF Write, Status
    <2>2. rows' \in [Decision -> Status]
      BY <1>9, <2>1, Typed DEF Land, Status
    <2> QED BY <1>9, <2>2, Typed, TypedNext DEF Land
  <1>10. ASSUME NEW w \in writes, Lose(w) PROVE TypeOK'
    BY <1>10, Typed, TypedNext DEF Lose
  <1>11. CASE UNCHANGED vars
    BY <1>11, Typed, TypedNext DEF vars
  <1>12. ASSUME NEW r \in Runtime, FailBuild(r) PROVE TypeOK'
    <2>1. [d \in Decision |-> "none"] \in [Decision -> Status]
      BY DEF Status
    <2>2. phase' \in [Runtime -> {"new", "building", "current", "replaced", "gone"}]
      BY <1>12, Typed DEF FailBuild
    <2> QED BY <1>12, <2>1, <2>2, Typed, TypedNext DEF FailBuild
  <1> QED
    BY <1>1, <1>2, <1>3, <1>4, <1>5, <1>6, <1>7, <1>8, <1>9, <1>10, <1>11, <1>12 DEF Next

-----------------------------------------------------------------------------
\* A step that moves no runtime towards the order and changes neither the snapshots
\* nor what is claimed and sent keeps the facts.
LEMMA FactsKept ==
  ASSUME ClaimFacts, UNCHANGED <<task, setupOf, sent, claims>>,
         \A r \in Runtime :
            /\ pc'[r] # "idle" => pc[r] # "idle"
            /\ pc'[r] \in {"checkPosition", "checkPending", "decide", "claim", "reserve",
                           "submit", "placed"}
                 => pc[r] \in {"checkPosition", "checkPending", "decide", "claim", "reserve",
                              "submit", "placed"}
            /\ pc'[r] \in {"reserve", "submit"} => pc[r] \in {"reserve", "submit"}
  PROVE  ClaimFacts'
  BY DEF ClaimFacts, Running, Deciding, Holding, SentUnderClaim

\* Almost every step of on_snapshot is such a step.
LEMMA Bystanders ==
  ASSUME TypeOK, ClaimFacts, NEW r \in Runtime,
         \/ Start(r) \/ Sync(r) \/ Promote(r) \/ ClearPromoted(r) \/ GateCancelled(r)
         \/ ClearCancelled(r) \/ GateSkips(r) \/ CheckPosition(r) \/ CheckPending(r)
         \/ CheckFails(r) \/ Decide(r) \/ Reserve(r) \/ ReserveFails(r) \/ QuoteExpired(r)
         \/ ClearExpired(r) \/ SubmitFails(r) \/ Blocked(r) \/ ClearRejected(r)
         \/ PlaceFails(r) \/ Confirmed(r) \/ Unconfirmed(r) \/ NoteOrder(r) \/ Saved(r)
         \/ NotSaved(r) \/ ClearFilled(r)
  PROVE  ClaimFacts'
  <1> USE Typed, FactsKept DEF Goto, Finish, mem, log, store
  <1>1. CASE Start(r)
    BY <1>1 DEF Start
  <1>2. CASE Sync(r)
    BY <1>2 DEF Sync
  <1>3. CASE Promote(r)
    BY <1>3 DEF Promote
  <1>4. CASE ClearPromoted(r)
    BY <1>4 DEF ClearPromoted
  <1>5. CASE GateCancelled(r)
    BY <1>5 DEF GateCancelled
  <1>6. CASE ClearCancelled(r)
    BY <1>6 DEF ClearCancelled
  <1>7. CASE GateSkips(r)
    BY <1>7 DEF GateSkips
  <1>8. CASE CheckPosition(r)
    BY <1>8 DEF CheckPosition
  <1>9. CASE CheckPending(r)
    BY <1>9 DEF CheckPending
  <1>10. CASE CheckFails(r)
    BY <1>10 DEF CheckFails
  <1>11. CASE Decide(r)
    BY <1>11 DEF Decide
  <1>12. CASE Reserve(r)
    BY <1>12 DEF Reserve
  <1>13. CASE ReserveFails(r)
    BY <1>13 DEF ReserveFails
  <1>14. CASE QuoteExpired(r)
    BY <1>14 DEF QuoteExpired
  <1>15. CASE ClearExpired(r)
    BY <1>15 DEF ClearExpired
  <1>16. CASE SubmitFails(r)
    BY <1>16 DEF SubmitFails
  <1>17. CASE Blocked(r)
    BY <1>17 DEF Blocked
  <1>18. CASE ClearRejected(r)
    BY <1>18 DEF ClearRejected
  <1>19. CASE PlaceFails(r)
    BY <1>19 DEF PlaceFails
  <1>20. CASE Confirmed(r)
    BY <1>20 DEF Confirmed, Finalize
  <1>21. CASE Unconfirmed(r)
    BY <1>21 DEF Unconfirmed
  <1>22. CASE NoteOrder(r)
    BY <1>22 DEF NoteOrder
  <1>23. CASE Saved(r)
    BY <1>23 DEF Saved
  <1>24. CASE NotSaved(r)
    BY <1>24 DEF NotSaved
  <1>25. CASE ClearFilled(r)
    BY <1>25 DEF ClearFilled
  <1> QED BY <1>1, <1>2, <1>3, <1>4, <1>5, <1>6, <1>7, <1>8, <1>9, <1>10, <1>11, <1>12, <1>13, <1>14, <1>15, <1>16, <1>17, <1>18, <1>19, <1>20, <1>21, <1>22, <1>23, <1>24, <1>25

\* set_once never replaces a claim.
LEMMA ClaimsStand ==
  ASSUME TypeOK, NEW r \in Runtime, task[r].setup \in Setup,
         claims' \in {claims, Claimed(r)}
  PROVE  \A s \in Setup : claims[s] # None => claims'[s] = claims[s]
  BY Typed DEF Claimed

\* Hence the facts survive a claim, when a runtime that goes on holds it.
LEMMA FactsAfterClaim ==
  ASSUME TypeOK, ClaimFacts, NEW r \in Runtime, pc[r] = "claim",
         claims' \in {claims, Claimed(r)}, UNCHANGED <<task, setupOf, sent>>,
         NEW stage \in {"idle", "reserve", "submit"}, Goto(r, stage),
         stage # "idle" => claims'[task[r].setup] = task[r].dec
  PROVE  ClaimFacts'
  <1> USE EntryAssumption DEF EntryAssumption
  <1>1. pc' = [pc EXCEPT ![r] = stage] /\ pc \in [Runtime -> Stage]
    BY Typed DEF Goto
  <1>2. \A s \in Setup : claims[s] # None => claims'[s] = claims[s]
    BY ClaimsStand DEF ClaimFacts, Running
  <1>3. Running'
    BY <1>1 DEF ClaimFacts, Running
  <1>4. Deciding'
    BY <1>1 DEF ClaimFacts, Deciding
  <1>5. Holding'
    <2> SUFFICES ASSUME NEW q \in Runtime, pc'[q] \in {"reserve", "submit"}
                 PROVE  claims'[task[q].setup] = task[q].dec
      BY DEF Holding
    <2>1. CASE q = r
      BY <1>1, <2>1
    <2>2. CASE q # r
      <3>1. pc[q] \in {"reserve", "submit"}
        BY <1>1, <2>2
      <3>2. claims[task[q].setup] = task[q].dec /\ task[q].dec \in Decision
            /\ task[q].setup \in Setup
        BY <3>1 DEF ClaimFacts, Holding, Deciding, Running
      <3> QED BY <1>2, <3>2
    <2> QED BY <2>1, <2>2
  <1>6. SentUnderClaim'
    BY <1>2, Typed DEF ClaimFacts, SentUnderClaim
  <1> QED BY <1>3, <1>4, <1>5, <1>6 DEF ClaimFacts

\* They survive the submission, which sends the order of a claimed decision.
LEMMA FactsAfterSubmit ==
  ASSUME TypeOK, ClaimFacts, NEW r \in Runtime, pc[r] = "submit",
         sent' = sent \cup {task[r].dec}, UNCHANGED <<task, setupOf, claims>>,
         NEW stage \in {"placed", "saving"}, Goto(r, stage)
  PROVE  ClaimFacts'
  <1>1. pc' = [pc EXCEPT ![r] = stage] /\ pc \in [Runtime -> Stage]
    BY Typed DEF Goto
  <1>2. Running' /\ Deciding' /\ Holding'
    BY <1>1 DEF ClaimFacts, Running, Deciding, Holding
  <1>3. /\ task[r].setup \in Setup
        /\ setupOf[task[r].dec] = task[r].setup
        /\ claims[task[r].setup] = task[r].dec
    BY DEF ClaimFacts, Running, Deciding, Holding
  <1>4. SentUnderClaim'
    BY <1>3 DEF ClaimFacts, SentUnderClaim
  <1> QED BY <1>2, <1>4 DEF ClaimFacts

\* Every step keeps the facts.
LEMMA FactsStep ==
  ASSUME TypeOK, ClaimFacts, [Next]_vars
  PROVE  ClaimFacts'
  <1> USE DEF mem, log, store
  <1>1. CASE ChangeCredentials
    BY <1>1, FactsKept DEF ChangeCredentials
  <1>2. CASE Crash
    BY <1>2 DEF Crash, ClaimFacts, Running, Deciding, Holding, SentUnderClaim
  <1>3. ASSUME NEW r \in Runtime, StartBuild(r) PROVE ClaimFacts'
    BY <1>3, FactsKept DEF StartBuild
  <1>4. ASSUME NEW r \in Runtime, Install(r) PROVE ClaimFacts'
    BY <1>4, FactsKept DEF Install
  <1>5. ASSUME NEW r \in Runtime, NEW s \in Setup, NEW entries \in BOOLEAN,
               Queue(r, s, entries)
        PROVE  ClaimFacts'
    <2>1. /\ pc' = [pc EXCEPT ![r] = "queued"]
          /\ task' = [task EXCEPT ![r] = [setup |-> s, entries |-> entries, dec |-> None]]
          /\ UNCHANGED <<setupOf, sent, claims>>
      BY <1>5 DEF Queue, Goto
    <2> QED BY <2>1, Typed DEF ClaimFacts, Running, Deciding, Holding, SentUnderClaim
  <1>6. ASSUME NEW r \in Runtime, NEW d \in Decision, LocalExit(r, d) PROVE ClaimFacts'
    BY <1>6, FactsKept DEF LocalExit
  <1>7. ASSUME NEW r \in Runtime, SyncFails(r) PROVE ClaimFacts'
    <2>1. /\ pc[r] = "sync" /\ pc' = [pc EXCEPT ![r] = "gate"]
          /\ task' = [task EXCEPT ![r] =
                 [setup |-> task[r].setup, entries |-> FALSE, dec |-> None]]
          /\ UNCHANGED <<setupOf, sent, claims>>
      BY <1>7 DEF SyncFails, Goto
    <2> QED BY <2>1, Typed DEF ClaimFacts, Running, Deciding, Holding, SentUnderClaim
  <1>8. ASSUME NEW r \in Runtime, NEW d \in Decision, Trigger(r, d) PROVE ClaimFacts'
    <2>1. /\ pc[r] = "gate" /\ pc' = [pc EXCEPT ![r] = "checkPosition"]
          /\ task' = [task EXCEPT ![r] = [setup |-> task[r].setup, entries |-> TRUE, dec |-> d]]
          /\ setupOf[d] = None /\ setupOf' = [setupOf EXCEPT ![d] = task[r].setup]
          /\ UNCHANGED <<sent, claims>>
      BY <1>8 DEF Trigger, Goto
    <2>2. None \notin Setup
      BY EntryAssumption DEF EntryAssumption
    <2>3. Running' /\ Holding'
      BY <2>1, Typed DEF ClaimFacts, Running, Holding
    <2>4. Deciding'
      BY <2>1, <2>2, Typed DEF ClaimFacts, Running, Deciding
    <2>5. SentUnderClaim'
      BY <2>1, <2>2, Typed DEF ClaimFacts, SentUnderClaim
    <2> QED BY <2>3, <2>4, <2>5 DEF ClaimFacts
  <1>9. ASSUME NEW r \in Runtime, Claim(r) PROVE ClaimFacts'
    <2>1. CASE claims'[task[r].setup] = task[r].dec
      BY <1>9, <2>1, FactsAfterClaim DEF Claim
    <2>2. CASE claims'[task[r].setup] # task[r].dec
      BY <1>9, <2>2, FactsAfterClaim DEF Claim, Finish
    <2> QED BY <2>1, <2>2
  <1>10. ASSUME NEW r \in Runtime, ClaimFails(r) PROVE ClaimFacts'
    BY <1>10, FactsAfterClaim DEF ClaimFails, Finish
  <1>11. ASSUME NEW r \in Runtime, PaperFill(r) PROVE ClaimFacts'
    BY <1>11, FactsAfterSubmit DEF PaperFill, Finalize
  <1>12. ASSUME NEW r \in Runtime, Place(r) PROVE ClaimFacts'
    BY <1>12, FactsAfterSubmit DEF Place
  <1>13. ASSUME NEW d \in Decision, Exchange(d) PROVE ClaimFacts'
    BY <1>13, FactsKept DEF Exchange
  <1>14. ASSUME NEW w \in writes, Land(w) \/ Lose(w) PROVE ClaimFacts'
    BY <1>14, FactsKept DEF Land, Lose
  <1>15. CASE UNCHANGED vars
    BY <1>15, FactsKept DEF vars
  <1>16. ASSUME NEW r \in Runtime, OnSnapshot(r) PROVE ClaimFacts'
    BY <1>7, <1>8, <1>9, <1>10, <1>11, <1>12, <1>16, Bystanders DEF OnSnapshot
  <1>17. ASSUME NEW r \in Runtime, FailBuild(r) PROVE ClaimFacts'
    BY <1>17, FactsKept DEF FailBuild
  <1> QED
    BY <1>1, <1>2, <1>3, <1>4, <1>5, <1>6, <1>13, <1>14, <1>15, <1>16, <1>17 DEF Next

LEMMA FactsInit == Init => ClaimFacts
  BY DEF Init, ClaimFacts, Running, Deciding, Holding, SentUnderClaim

\* Types, and the facts that lead from a signal to the order of its claim
\* (on_snapshot between the signal and execution.submit).
THEOREM EntryInvariant == Spec => [](TypeOK /\ ClaimFacts)
  <1>1. Init => TypeOK /\ ClaimFacts
    BY TypesInit, FactsInit
  <1>2. TypeOK /\ ClaimFacts /\ [Next]_vars => TypeOK' /\ ClaimFacts'
    BY TypesStep, FactsStep DEF ClaimFacts
  <1> QED BY <1>1, <1>2, PTL DEF Spec

\* In every state the program reaches, every variable has its type.
THEOREM EntryTypes == Spec => []TypeOK
  BY EntryInvariant, PTL

\* A setup leads to one order in all: in LIVE and in DEMO, whatever the database and
\* the exchange answer, with runtimes replaced and processes restarted at any point.
THEOREM OneOrder == Spec => []OneOrderPerSetup
  <1>1. TypeOK /\ ClaimFacts => OneOrderPerSetup
    BY DEF ClaimFacts, SentUnderClaim, OneOrderPerSetup
  <1> QED BY <1>1, EntryInvariant, PTL
=============================================================================
