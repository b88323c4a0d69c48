----------------------- MODULE PositionManager_proofs -----------------------
(* Proofs about PositionManager: what holds of the stop, locally and at the *)
(* exchange, for every price, distance, price step and number of restarts.  *)
EXTENDS PositionManager, TLAPS

\* The prices the position computes are prices.
LEMMA PriceTypes ==
  ASSUME TypeOK
  PROVE  /\ \A g \in Int : At(g) \in Int
         /\ \A a, b \in Int : Tightest(a, b) \in Int /\ Loosest(a, b) \in Int
         /\ Stop0 \in Int /\ Target \in Int
         /\ \A b \in Int : Candidate(b) \in Int
  <1> USE ManagerAssumption DEF ManagerAssumption
  <1>1. \A g \in Int : At(g) \in Int
    BY DEF At
  <1>2. \A a, b \in Int : Tightest(a, b) \in Int /\ Loosest(a, b) \in Int
    BY DEF Tightest, Loosest
  <1>3. Stop0 \in Int /\ Target \in Int /\ BreakEven \in Int /\ At(Reward - 1) \in Int
    BY <1>1 DEF Stop0, Target, BreakEven
  <1>4. (Reward * 35) \div 100 \in Int
    OBVIOUS
  <1>5. LockPrice \in Int
    BY <1>1, <1>2, <1>3, <1>4 DEF LockPrice
  <1>6. \A b \in Int : Candidate(b) \in Int
    BY <1>2, <1>3, <1>5 DEF Candidate
  <1> QED BY <1>1, <1>2, <1>3, <1>6

\* Rounding a stop to the exchange's price step does not loosen it.
LEMMA RoundStopTightens ==
  ASSUME TypeOK, NEW p \in Int
  PROVE  RoundStop(p) \in Int /\ ~Tighter(p, RoundStop(p))
  <1>1. Tick \in Nat /\ Tick > 0
    BY ManagerAssumption DEF ManagerAssumption
  <1>2. \A a \in Int : a \div Tick \in Int /\ (a \div Tick) * Tick \in Int
                       /\ (a \div Tick) * Tick <= a /\ a < (a \div Tick) * Tick + Tick
    BY <1>1
  <1>3. ((p + Tick - 1) \div Tick) * Tick >= p
    BY <1>1, <1>2
  <1> QED BY <1>1, <1>2, <1>3 DEF RoundStop, Tighter

\* What a mark does to an open position.
LEMMA ProtectedEffect ==
  ASSUME TypeOK, NEW p \in Position, NEW price \in Int, NEW n, n = Protected(p, price)
  PROVE  /\ n \in Position
         /\ n.status = p.status /\ n.protected = p.protected
         /\ Earns(p, price) =>
              /\ n.stop = Candidate(n.best) /\ Tighter(n.stop, p.stop)
              /\ n.stage # "INITIAL" /\ n.pending = Live /\ Dynamic
         /\ ~Earns(p, price) =>
              /\ n.stop = p.stop /\ n.stage = p.stage /\ n.pending = p.pending
              /\ Dynamic /\ Progressed(n.best, 55) => ~Tighter(Candidate(n.best), n.stop)
  <1>1. BestSeen(p, price) \in Int
    BY PriceTypes DEF BestSeen, Position, Price
  <1>2. Candidate(BestSeen(p, price)) \in Int
    BY <1>1, PriceTypes
  <1>3. Live \in BOOLEAN
    BY ManagerAssumption DEF ManagerAssumption
  <1>4. CASE Earns(p, price)
    BY <1>1, <1>2, <1>3, <1>4 DEF Protected, Earns, Position, Price
  <1>5. CASE ~Earns(p, price)
    BY <1>1, <1>5 DEF Protected, Earns, Position, Price
  <1> QED BY <1>4, <1>5

\* What holds of a document still holds when the exchange's stop stays.
LEMMA SoundStays ==
  ASSUME side' = side, ex'.stop = ex.stop, ex'.open => ex.open, NEW d, Sound(d)
  PROVE  Sound(d)'
  <1>1. Honoured(d)' <=> Honoured(d)
    BY DEF Honoured, Tighter, Candidate, Progressed, Gain, LockPrice, BreakEven, At, Tightest,
           Loosest
  <1> QED BY <1>1 DEF Sound, Flagged, Unmanaged, Managed, Tighter, NeedsSync, IsOpen

\* It also holds when the exchange's stop becomes at least as tight as the document's.
LEMMA SoundReached ==
  ASSUME side' = side, NEW d, Sound(d), IsOpen(d) => ~Tighter(d.stop, ex'.stop)
  PROVE  Sound(d)'
  <1>1. Honoured(d)' <=> Honoured(d)
    BY DEF Honoured, Tighter, Candidate, Progressed, Gain, LockPrice, BreakEven, At, Tightest,
           Loosest
  <1> QED BY <1>1 DEF Sound, Flagged, Unmanaged, Managed, Tighter, NeedsSync, IsOpen

\* A document stays behind a position whose stop does not get looser.
LEMMA BehindStays ==
  ASSUME side' = side, pos \in Position \cup {None}, pos' \in Position \cup {None},
         NEW d \in Position \cup {None}, Behind(d),
         IsOpen(pos)' => IsOpen(pos) /\ ~Tighter(pos.stop, pos'.stop)
  PROVE  Behind(d)'
  BY DEF Behind, IsOpen, Tighter, Position, Price

\* A position is not ahead of itself.
LEMMA BehindItself ==
  ASSUME pos \in Position \cup {None}
  PROVE  Behind(pos)
  BY DEF Behind, IsOpen, Tighter, Position, Price

\* A position that is closed, or none, is sound.
LEMMA ClosedSound ==
  ASSUME NEW d, ~IsOpen(d)
  PROVE  Sound(d)
  BY DEF Sound

\* The documents do not change in a step that moves neither them nor a stop.
LEMMA DocumentsStay ==
  ASSUME ManagerInv, side' = side, pos' = pos, job' = job, row' = row,
         ex'.stop = ex.stop, ex'.open => ex.open
  PROVE  Documents'
  <1>1. Sound(pos)' /\ Sound(job)' /\ Sound(row)'
    BY SoundStays DEF ManagerInv, Documents
  <1>2. Behind(job)' /\ Behind(row)'
    BY DEF ManagerInv, Documents, Behind, IsOpen, Tighter
  <1> QED BY <1>1, <1>2 DEF ManagerInv, Documents, IsOpen

\* MarketMoves keeps the invariant.
LEMMA MarketMovesKeeps ==
  ASSUME ManagerInv, MarketMoves
  PROVE  ManagerInv'
  <1> USE DEF MarketMoves, ram, disk
  <1>1. market' \in Int
    BY ManagerAssumption, PriceTypes DEF ManagerAssumption, ManagerInv
  <1>2. ex' \in Row /\ ex'.stop = ex.stop /\ (ex'.open => ex.open)
    BY DEF ManagerInv, TypeOK, Row
  <1>3. TypeOK'
    BY <1>1, <1>2, ManagerAssumption DEF ManagerAssumption, ManagerInv, TypeOK, Price
  <1>4. Documents'
    BY <1>2, DocumentsStay
  <1>5. Reads' /\ Closing'
    BY <1>2 DEF ManagerInv, Reads, Closing, IsOpen
  <1> QED BY <1>3, <1>4, <1>5 DEF ManagerInv

\* HistoryAppears keeps the invariant.
LEMMA HistoryAppearsKeeps ==
  ASSUME ManagerInv, HistoryAppears
  PROVE  ManagerInv'
  <1> USE DEF HistoryAppears, ram, disk
  <1>1. TypeOK'
    BY DEF ManagerInv, TypeOK, Quote
  <1>2. Documents'
    BY DocumentsStay
  <1>3. Reads' /\ Closing'
    BY DEF ManagerInv, TypeOK, Reads, Closing, IsOpen, Row
  <1> QED BY <1>1, <1>2, <1>3 DEF ManagerInv

\* TakeSnapshot keeps the invariant.
LEMMA TakeSnapshotKeeps ==
  ASSUME ManagerInv, TakeSnapshot
  PROVE  ManagerInv'
  <1> USE DEF TakeSnapshot, world, disk
  <1>1. TypeOK' /\ quote' \in Quote
    BY DEF ManagerInv, TypeOK, Quote
  <1>2. Documents'
    BY DocumentsStay
  <1>3. Reads' /\ Closing'
    BY <1>1, NoneAssumption DEF ManagerInv, TypeOK, Reads, Closing, IsOpen, Row
  <1> QED BY <1>1, <1>2, <1>3 DEF ManagerInv

\* SyncSymbol keeps the invariant.
LEMMA SyncSymbolKeeps ==
  ASSUME ManagerInv, SyncSymbol
  PROVE  ManagerInv'
  <1> USE DEF SyncSymbol, world, disk
  <1>1. TypeOK'
    BY DEF ManagerInv, TypeOK, Quote
  <1>2. Documents'
    BY DocumentsStay
  <1>3. Reads' /\ Closing'
    BY NoneAssumption DEF ManagerInv, TypeOK, Reads, Closing, IsOpen, Row
  <1> QED BY <1>1, <1>2, <1>3 DEF ManagerInv

\* Settlements keeps the invariant.
LEMMA SettlementsKeeps ==
  ASSUME ManagerInv, Settlements
  PROVE  ManagerInv'
  <1> USE DEF Settlements, world, disk
  <1>1. TypeOK'
    BY DEF ManagerInv, TypeOK, Quote
  <1>2. Documents'
    BY DocumentsStay
  <1>3. Reads' /\ Closing'
    BY DEF ManagerInv, TypeOK, Reads, Closing, IsOpen, Row
  <1> QED BY <1>1, <1>2, <1>3 DEF ManagerInv

\* SyncFails keeps the invariant.
LEMMA SyncFailsKeeps ==
  ASSUME ManagerInv, SyncFails
  PROVE  ManagerInv'
  <1> USE DEF SyncFails, world, disk
  <1>1. TypeOK'
    BY DEF ManagerInv, TypeOK, Quote
  <1>2. Documents'
    BY DocumentsStay
  <1>3. Reads' /\ Closing'
    BY DEF ManagerInv, TypeOK, Reads, Closing, IsOpen, Row
  <1> QED BY <1>1, <1>2, <1>3 DEF ManagerInv

\* NothingToSync keeps the invariant.
LEMMA NothingToSyncKeeps ==
  ASSUME ManagerInv, NothingToSync
  PROVE  ManagerInv'
  <1> USE DEF NothingToSync, world, disk
  <1>1. TypeOK'
    BY DEF ManagerInv, TypeOK, Quote
  <1>2. Documents'
    BY DocumentsStay
  <1>3. Reads' /\ Closing'
    BY DEF ManagerInv, TypeOK, Reads, Closing, IsOpen, Row
  <1> QED BY <1>1, <1>2, <1>3 DEF ManagerInv

\* SaveChanges keeps the invariant.
LEMMA SaveChangesKeeps ==
  ASSUME ManagerInv, SaveChanges
  PROVE  ManagerInv'
  <1>1. /\ side' = side /\ ex' = ex /\ pos' = pos /\ row' = row
        /\ job' = pos \/ job' = job
        /\ pc' = "mark" /\ Live
    BY DEF SaveChanges, world, ManagerInv, Reads
  <1>2. TypeOK'
    BY DEF ManagerInv, TypeOK, SaveChanges, world
  <1>3. Sound(pos)' /\ Sound(job)' /\ Sound(row)'
    BY <1>1, SoundStays DEF ManagerInv, Documents
  <1>4. Behind(pos)' /\ Behind(job)' /\ Behind(row)'
    BY <1>1 DEF Behind, Tighter, IsOpen, ManagerInv, Documents, TypeOK, Position, Price
  <1>5. Documents'
    BY <1>1, <1>3, <1>4 DEF ManagerInv, Documents, IsOpen
  <1>6. Reads' /\ Closing'
    BY <1>1 DEF ManagerInv, TypeOK, Reads, Closing, IsOpen, Row, SaveChanges, world
  <1> QED BY <1>2, <1>5, <1>6 DEF ManagerInv

\* Save keeps the invariant.
LEMMA SaveKeeps ==
  ASSUME ManagerInv, Save
  PROVE  ManagerInv'
  <1> USE DEF Save, ram, world
  <1>1. TypeOK'
    BY DEF ManagerInv, TypeOK
  <1>2. Sound(pos)' /\ Sound(job)' /\ Sound(row)'
    BY SoundStays, ClosedSound DEF ManagerInv, Documents, IsOpen
  <1>3. Documents'
    BY <1>2 DEF ManagerInv, Documents, Behind, IsOpen, Tighter
  <1>4. Reads' /\ Closing'
    BY DEF ManagerInv, Reads, Closing, IsOpen
  <1> QED BY <1>1, <1>3, <1>4 DEF ManagerInv

\* Restart keeps the invariant.
LEMMA RestartKeeps ==
  ASSUME ManagerInv, Restart
  PROVE  ManagerInv'
  <1>1. /\ side' = side /\ ex' = ex /\ row' = row /\ job' = None /\ pc' = "idle"
        /\ fetched' = None /\ settled' = FALSE /\ history' = history
        /\ IsOpen(row) => pos' = row
        /\ ~IsOpen(row) => pos' = None
    BY DEF Restart, world
  <1>2. TypeOK'
    <2>1. crashes' \in 0 .. MaxCrashes /\ marked' \in 0 .. MaxTime
      BY ManagerAssumption DEF ManagerAssumption, Restart, ManagerInv, TypeOK
    <2>2. pos' \in Position \cup {None}
      BY <1>1 DEF ManagerInv, TypeOK
    <2> QED BY <2>1, <2>2 DEF ManagerInv, TypeOK, Restart, world
  <1>3. ~IsOpen(None)
    BY DEF IsOpen
  <1>4. Sound(row)' /\ Sound(None)'
    BY <1>1, <1>3, SoundStays DEF ManagerInv, Documents, Sound
  <1>5. Behind(row)' /\ Behind(job)'
    BY <1>1, <1>2 DEF Behind, Tighter, IsOpen, TypeOK, Position, Price
  <1>6. Documents'
    BY <1>1, <1>4, <1>5 DEF Documents, IsOpen, Sound
  <1>7. Reads' /\ Closing'
    BY <1>1 DEF ManagerInv, Reads, Closing, IsOpen
  <1> QED BY <1>2, <1>6, <1>7 DEF ManagerInv

\* A mark leaves the position sound, and its stop no looser.
LEMMA ProtectedSound ==
  ASSUME ManagerInv, IsOpen(pos), NEW price \in Int, NEW n, n = Protected(pos, price)
  PROVE  /\ n \in Position /\ IsOpen(n) /\ Sound(n)
         /\ ~Tighter(pos.stop, n.stop)
  <1>1. TypeOK /\ pos \in Position /\ pos.stop \in Int /\ pos.status = "OPEN" /\ ex.stop \in Int
    BY DEF ManagerInv, TypeOK, IsOpen, Position, Price, Row
  <1>2. n \in Position /\ n.status = "OPEN" /\ n.stop \in Int
    <2>1. n \in Position /\ n.status = "OPEN"
      BY <1>1, ProtectedEffect
    <2> QED BY <2>1 DEF Position, Price
  <1>3. IsOpen(n)
    BY <1>2, NoneAssumption DEF IsOpen
  <1>4. Sound(pos) /\ (ex.open => Live)
    BY DEF ManagerInv, Documents, Reads
  <1>5. CASE Earns(pos, price)
    <2>1. /\ n.stop = Candidate(n.best) /\ Tighter(n.stop, pos.stop)
          /\ n.stage # "INITIAL" /\ n.pending = Live /\ Dynamic
      BY <1>1, <1>5, ProtectedEffect
    <2>2. Flagged(n) /\ Unmanaged(n) /\ Managed(n)
      BY <1>3, <1>4, <2>1 DEF Flagged, Unmanaged, Managed, NeedsSync
    <2>3. Honoured(n)
      BY <1>2, <2>1 DEF Honoured, Tighter
    <2> QED BY <1>1, <1>2, <1>3, <2>1, <2>2, <2>3 DEF Sound, Tighter
  <1>6. CASE ~Earns(pos, price)
    <2>1. /\ n.stop = pos.stop /\ n.stage = pos.stage /\ n.pending = pos.pending
          /\ n.protected = pos.protected
          /\ Dynamic /\ Progressed(n.best, 55) => ~Tighter(Candidate(n.best), n.stop)
      BY <1>1, <1>6, ProtectedEffect
    <2>2. Flagged(n) /\ Unmanaged(n) /\ Managed(n)
      BY <1>3, <1>4, <2>1 DEF Sound, Flagged, Unmanaged, Managed, NeedsSync
    <2> QED BY <1>1, <1>2, <1>3, <2>1, <2>2 DEF Sound, Honoured, Tighter
  <1> QED BY <1>5, <1>6

\* What holds of the documents after a step that leaves the exchange and the
\* row alone, replaces the position by a sound one that is no looser, and may
\* schedule it.
LEMMA PositionReplaced ==
  ASSUME ManagerInv, side' = side, ex'.stop = ex.stop, ex'.open => ex.open, row' = row,
         pos # None, pos' \in Position, Sound(pos'),
         IsOpen(pos') => IsOpen(pos) /\ ~Tighter(pos.stop, pos'.stop),
         job' = job \/ job' = pos'
  PROVE  Documents'
  <1>1. Sound(pos)' /\ Sound(job)' /\ Sound(row)'
    BY SoundStays DEF ManagerInv, Documents
  <1>2. /\ pos \in Position \cup {None} /\ pos' \in Position \cup {None}
        /\ job \in Position \cup {None} /\ row \in Position \cup {None}
        /\ Behind(job) /\ Behind(row)
        /\ IsOpen(pos)' => IsOpen(pos) /\ ~Tighter(pos.stop, pos'.stop)
    BY DEF ManagerInv, TypeOK, Documents, IsOpen
  <1>3. Behind(row)' /\ Behind(job)'
    BY <1>2 DEF Behind, IsOpen, Tighter, Position, Price
  <1>4. pos' # None
    BY NoneAssumption
  <1> QED BY <1>1, <1>3, <1>4 DEF Documents

\* A DEMO mark keeps the documents.
LEMMA LocalMarkKeeps ==
  ASSUME ManagerInv, IsOpen(pos), NEW q \in Quote, NEW trigger, LocalMark(q, trigger),
         side' = side, ex' = ex, row' = row
  PROVE  /\ Documents' /\ pos' \in Position /\ marked' \in 0 .. MaxTime
         /\ job' \in Position \cup {None}
         /\ IsOpen(pos') => ~Tighter(pos.stop, pos'.stop)
  <1> DEFINE n == Protected(pos, q.price)
             action == Action(n, trigger)
  <1>1. q.price \in Int /\ q.at \in 0 .. MaxTime
    BY DEF Quote, Price
  <1>2. n \in Position /\ IsOpen(n) /\ Sound(n) /\ ~Tighter(pos.stop, n.stop)
    BY <1>1, ProtectedSound
  <1>3. /\ action = "none" => pos' = n
        /\ action # "none" => pos' = Closed(n, action, q.price)
        /\ job' = pos' \/ job' = job
        /\ marked' = q.at
    BY DEF LocalMark
  <1>4. action \in {"none", "SL", "TP2"}
    BY DEF Action
  <1>5. CASE action = "none"
    <2>1. pos' = n
      BY <1>3, <1>5
    <2> HIDE DEF n, action
    <2>2. Documents'
      BY <1>2, <1>3, <2>1, PositionReplaced DEF IsOpen
    <2> QED BY <1>1, <1>2, <1>3, <2>1, <2>2 DEF ManagerInv, TypeOK
  <1>6. CASE action # "none"
    <2>1. Fill(n, action, q.price) \in Int
      <3>1. At(Gain(q.price) - Slip) \in Int /\ Target \in Int /\ n.stop \in Int
        <4>1. Gain(q.price) - Slip \in Int
          BY <1>1, ManagerAssumption DEF ManagerAssumption, Gain
        <4> QED BY <1>2, <4>1, PriceTypes DEF ManagerInv, Position, Price
      <3> HIDE DEF n, action
      <3> QED BY <3>1, PriceTypes DEF Fill, ManagerInv
    <2>2. pos' = Closed(n, action, q.price)
      BY <1>3, <1>6
    <2> HIDE DEF n, action
    <2>3. pos' \in Position /\ ~IsOpen(pos')
      BY <1>2, <1>4, <1>6, <2>1, <2>2 DEF Closed, Position, Price, IsOpen
    <2>4. Documents'
      BY <1>3, <2>3, ClosedSound, PositionReplaced DEF IsOpen
    <2> QED BY <1>1, <1>3, <2>3, <2>4 DEF ManagerInv, TypeOK
  <1> QED BY <1>5, <1>6

\* RunExitQuote keeps the invariant.
LEMMA RunExitQuoteKeeps ==
  ASSUME ManagerInv, RunExitQuote
  PROVE  ManagerInv'
  <1>1. PICK g \in Gains : LocalMark([price |-> At(g), at |-> time], market)
    BY DEF RunExitQuote
  <1>2. [price |-> At(g), at |-> time] \in Quote
    BY ManagerAssumption, PriceTypes DEF ManagerAssumption, ManagerInv, TypeOK, Quote, Price
  <1>3. side' = side /\ ex' = ex /\ row' = row /\ IsOpen(pos)
    BY DEF RunExitQuote, world
  <1>4. /\ Documents' /\ pos' \in Position /\ marked' \in 0 .. MaxTime
        /\ job' \in Position \cup {None}
    BY <1>1, <1>2, <1>3, LocalMarkKeeps
  <1>5. TypeOK'
    BY <1>4 DEF RunExitQuote, world, ManagerInv, TypeOK
  <1>6. Reads' /\ Closing'
    <2>1. pc # "push" /\ ~Live
      BY DEF RunExitQuote, ManagerInv, Reads
    <2> QED BY <2>1 DEF RunExitQuote, world, ManagerInv, Reads, Closing
  <1> QED BY <1>4, <1>5, <1>6 DEF ManagerInv

\* ScanMark keeps the invariant.
LEMMA ScanMarkKeeps ==
  ASSUME ManagerInv, ScanMark
  PROVE  ManagerInv'
  <1>1. side' = side /\ ex' = ex /\ row' = row /\ quote' = None /\ pc' = "idle" /\ ~Live
    BY DEF ScanMark, world
  <1>2. quote \in Quote
    BY DEF ScanMark, ManagerInv, Reads, TypeOK
  <1>3. Reads' /\ Closing'
    BY <1>1 DEF ScanMark, world, ManagerInv, Reads, Closing
  <1>4. CASE IsOpen(pos)
    <2>1. LocalMark(quote, quote.price)
      BY <1>4 DEF ScanMark
    <2>2. /\ Documents' /\ pos' \in Position /\ marked' \in 0 .. MaxTime
          /\ job' \in Position \cup {None}
      BY <1>1, <1>2, <1>4, <2>1, LocalMarkKeeps
    <2>3. TypeOK'
      BY <2>2 DEF ScanMark, world, ManagerInv, TypeOK
    <2> QED BY <1>3, <2>2, <2>3 DEF ManagerInv
  <1>5. CASE ~IsOpen(pos)
    <2>1. pos' = pos /\ marked' = marked /\ job' = job
      BY <1>5 DEF ScanMark
    <2>2. TypeOK'
      BY <2>1 DEF ScanMark, world, ManagerInv, TypeOK
    <2>3. Documents'
      BY <1>1, <1>5, <2>1, SoundStays DEF ManagerInv, Documents, Behind, IsOpen
    <2> QED BY <1>3, <2>2, <2>3 DEF ManagerInv
  <1> QED BY <1>4, <1>5

\* LiveMark keeps the invariant.
LEMMA LiveMarkKeeps ==
  ASSUME ManagerInv, LiveMark
  PROVE  ManagerInv'
  <1>1. /\ side' = side /\ ex' = ex /\ row' = row /\ quote' = None /\ pc = "mark" /\ Live
        /\ fetched' = fetched /\ settled' = settled /\ history' = history
    BY DEF LiveMark, world
  <1>2. quote \in Quote
    BY <1>1 DEF ManagerInv, Reads, TypeOK
  <1>3. fetched = None
    BY <1>1 DEF ManagerInv, Reads
  <1>4. CASE IsOpen(pos)
    <2> DEFINE n == Protected(pos, quote.price)
    <2>1. /\ pos' = n /\ (job' = n \/ job' = job) /\ pc' \in {"push", "idle"}
      BY <1>4 DEF LiveMark
    <2>2. n \in Position /\ IsOpen(n) /\ Sound(n) /\ ~Tighter(pos.stop, n.stop)
      BY <1>2, <1>4, ProtectedSound DEF Quote, Price
    <2> HIDE DEF n
    <2>3. TypeOK'
      BY <2>1, <2>2 DEF LiveMark, world, ManagerInv, TypeOK
    <2>4. Documents'
      BY <1>1, <1>4, <2>1, <2>2, PositionReplaced DEF IsOpen
    <2>5. Reads' /\ Closing'
      BY <1>1, <1>3, <2>1, <2>2 DEF ManagerInv, Reads, Closing, IsOpen
    <2> QED BY <2>3, <2>4, <2>5 DEF ManagerInv
  <1>5. CASE ~IsOpen(pos)
    <2>1. pos' = pos /\ job' = job /\ pc' = "idle"
      BY <1>5 DEF LiveMark
    <2>2. TypeOK'
      BY <2>1 DEF LiveMark, world, ManagerInv, TypeOK
    <2>3. Documents'
      BY <1>1, <1>5, <2>1, SoundStays DEF ManagerInv, Documents, Behind, IsOpen
    <2>4. Reads' /\ Closing'
      BY <1>1, <1>3, <2>1 DEF ManagerInv, Reads, Closing, IsOpen
    <2> QED BY <2>2, <2>3, <2>4 DEF ManagerInv
  <1> QED BY <1>4, <1>5

\* What a document's best price has earned depends on nothing but the document.
LEMMA HonouredStays ==
  ASSUME side' = side, NEW d
  PROVE  Honoured(d)' <=> Honoured(d)
  BY DEF Honoured, Tighter, Candidate, Progressed, Gain, LockPrice, BreakEven, At, Tightest,
         Loosest

\* A request for protection, acknowledged or not: the position stays open and
\* sound, its stop no looser, and a document behind it stays sound.
LEMMA ProtectionSent ==
  ASSUME ManagerInv, IsOpen(pos), Acknowledged \/ Unacknowledged, side' = side,
         NEW n, pos' = n
  PROVE  /\ n \in Position /\ IsOpen(n) /\ ~Tighter(pos.stop, n.stop) /\ Sound(n)'
         /\ ex' \in Row /\ ex'.open = ex.open
         /\ \A d \in Position \cup {None} : Sound(d) /\ Behind(d) => Sound(d)'
  <1> DEFINE s == RoundStop(pos.stop)
  <1>1. /\ pos \in Position /\ pos.stop \in Int /\ pos.status = "OPEN"
        /\ ex \in Row /\ ex.stop \in Int /\ ex.open \in BOOLEAN /\ Sound(pos)
        /\ pos.best \in Int
    BY DEF ManagerInv, TypeOK, Documents, IsOpen, Position, Price, Row
  <1>2. s \in Int /\ ~Tighter(pos.stop, s)
    BY <1>1, RoundStopTightens DEF ManagerInv
  <1>3. Candidate(pos.best) \in Int
    BY <1>1, PriceTypes DEF ManagerInv
  <1>4. CASE Acknowledged
    <2>1. /\ n = [pos EXCEPT !.stop = s, !.protected = TRUE, !.pending = FALSE]
          /\ ex' = [ex EXCEPT !.stop = s]
      BY <1>4 DEF Acknowledged
    <2> HIDE DEF s
    <2>2. /\ n \in Position /\ n.stop = s /\ n.status = "OPEN"
          /\ n.stage = pos.stage /\ n.best = pos.best
          /\ ex' \in Row /\ ex'.stop = s /\ ex'.open = ex.open
      BY <1>1, <1>2, <2>1 DEF Position, Price, Row
    <2>3. IsOpen(n)
      BY <2>2, NoneAssumption DEF IsOpen
    <2>4. Honoured(n)
      BY <1>1, <1>2, <1>3, <2>2, IsOpen(pos) DEF Sound, Honoured, Tighter
    <2>5. Sound(n)'
      <3>1. Flagged(n)' /\ Unmanaged(n)'
        BY <1>2, <2>2 DEF Flagged, Unmanaged, Tighter
      <3>2. Managed(n)'
        BY <1>1, <2>2, IsOpen(pos) DEF Sound, Managed
      <3> QED BY <2>4, <3>1, <3>2, HonouredStays DEF Sound
    <2>6. ASSUME NEW d \in Position \cup {None}, Sound(d), Behind(d)
          PROVE  Sound(d)'
      <3>1. IsOpen(d) => ~Tighter(d.stop, ex'.stop)
        BY <1>1, <1>2, <2>2, <2>6, IsOpen(pos) DEF Behind, Tighter, IsOpen, Position, Price
      <3> QED BY <2>6, <3>1, SoundReached
    <2> QED BY <1>2, <2>2, <2>3, <2>5, <2>6
  <1>5. CASE Unacknowledged
    <2>1. /\ n = [pos EXCEPT !.pending = TRUE]
          /\ ex' = ex \/ ex' = [ex EXCEPT !.stop = s]
      BY <1>5 DEF Unacknowledged
    <2> HIDE DEF s
    <2>2. /\ n \in Position /\ n.stop = pos.stop /\ n.status = "OPEN" /\ n.pending
          /\ n.stage = pos.stage /\ n.best = pos.best
          /\ ex' \in Row /\ ex'.open = ex.open /\ (ex' = ex \/ ex'.stop = s)
      BY <1>1, <1>2, <2>1 DEF Position, Price, Row
    <2>3. IsOpen(n) /\ ~Tighter(pos.stop, n.stop)
      BY <1>1, <2>2, NoneAssumption DEF IsOpen, Tighter
    <2>4. Sound(n) /\ Behind(n)
      BY <1>1, <2>2, <2>3, IsOpen(pos)
         DEF Sound, Behind, Flagged, Unmanaged, Managed, Honoured, NeedsSync, Tighter
    <2>5. ASSUME NEW d \in Position \cup {None}, Sound(d), Behind(d)
          PROVE  Sound(d)'
      <3>1. CASE ex' = ex
        BY <2>5, <3>1, SoundStays
      <3>2. CASE ex'.stop = s
        <4>1. IsOpen(d) => ~Tighter(d.stop, ex'.stop)
          BY <1>1, <1>2, <2>5, <3>2, IsOpen(pos) DEF Behind, Tighter, IsOpen, Position, Price
        <4> QED BY <2>5, <4>1, SoundReached
      <3> QED BY <2>2, <3>1, <3>2
    <2> QED BY <2>2, <2>3, <2>4, <2>5
  <1> QED BY <1>4, <1>5

\* The documents after a request for protection, whose result may be scheduled.
LEMMA ProtectionKeepsDocuments ==
  ASSUME ManagerInv, IsOpen(pos), Acknowledged \/ Unacknowledged, side' = side,
         row' = row, job' = job \/ job' = pos'
  PROVE  /\ Documents' /\ IsOpen(pos') /\ pos' \in Position
         /\ ex' \in Row /\ ex'.open = ex.open
  <1>1. PICK n : pos' = n
    OBVIOUS
  <1>2. /\ n \in Position /\ IsOpen(n) /\ ~Tighter(pos.stop, n.stop) /\ Sound(n)'
        /\ ex' \in Row /\ ex'.open = ex.open
        /\ \A d \in Position \cup {None} : Sound(d) /\ Behind(d) => Sound(d)'
    BY <1>1, ProtectionSent
  <1>3. /\ job \in Position \cup {None} /\ row \in Position \cup {None}
        /\ pos \in Position \cup {None}
        /\ Sound(job) /\ Behind(job) /\ Sound(row) /\ Behind(row)
    BY DEF ManagerInv, TypeOK, Documents
  <1>4. Sound(pos)' /\ Sound(job)' /\ Sound(row)'
    BY <1>1, <1>2, <1>3
  <1>5. Behind(row)' /\ Behind(job)'
    BY <1>1, <1>2, <1>3, IsOpen(pos) DEF Behind, IsOpen, Tighter, Position, Price
  <1> QED BY <1>1, <1>2, <1>4, <1>5, NoneAssumption DEF Documents

\* PushProtection keeps the invariant.
LEMMA PushProtectionKeeps ==
  ASSUME ManagerInv, PushProtection
  PROVE  ManagerInv'
  <1>1. IsOpen(pos) /\ Live /\ pc = "push"
    BY DEF PushProtection, ManagerInv, Reads
  <1>2. /\ Documents' /\ IsOpen(pos') /\ pos' \in Position
        /\ ex' \in Row /\ ex'.open = ex.open
    BY <1>1, ProtectionKeepsDocuments DEF PushProtection
  <1>3. TypeOK'
    BY <1>2 DEF PushProtection, ManagerInv, TypeOK
  <1>4. Reads' /\ Closing'
    BY <1>1, <1>2 DEF PushProtection, ManagerInv, Reads, Closing, IsOpen
  <1> QED BY <1>2, <1>3, <1>4 DEF ManagerInv

\* SyncHeld keeps the invariant.
LEMMA SyncHeldKeeps ==
  ASSUME ManagerInv, SyncHeld
  PROVE  ManagerInv'
  <1>1. IsOpen(pos) /\ Live /\ pc = "held"
    BY DEF SyncHeld, NeedsSync, ManagerInv, Reads
  <1>2. /\ side' = side /\ row' = row /\ job' = job /\ pc' = "saveChanges"
        /\ Acknowledged \/ Unacknowledged
        /\ changed' \in BOOLEAN
    BY DEF SyncHeld, disk, ManagerInv, TypeOK
  <1>3. /\ Documents' /\ IsOpen(pos') /\ pos' \in Position
        /\ ex' \in Row /\ ex'.open = ex.open
    BY <1>1, <1>2, ProtectionKeepsDocuments
  <1>4. TypeOK'
    BY <1>2, <1>3 DEF SyncHeld, disk, ManagerInv, TypeOK
  <1>5. Reads' /\ Closing'
    BY <1>1, <1>2, <1>3 DEF SyncHeld, ManagerInv, Reads, Closing, IsOpen
  <1> QED BY <1>3, <1>4, <1>5 DEF ManagerInv

\* reconcile_exchange when CoinW does not list the open position.
LEMMA MissingKeeps ==
  ASSUME ManagerInv, ReconcileExchange, ReconcileMissing
  PROVE  /\ Documents' /\ pos' \in Position /\ changed' \in BOOLEAN
         /\ ~IsOpen(pos)' => ~ex.open /\ history
         /\ IsOpen(pos') => ~Tighter(pos.stop, pos'.stop)
  <1>1. /\ pos \in Position /\ IsOpen(pos) /\ pos # None
        /\ side' = side /\ ex' = ex /\ row' = row /\ job' = job
        /\ Sound(pos) /\ pos.stop \in Int
        /\ fetched # None /\ (ex.open => fetched.open)
    BY DEF ManagerInv, TypeOK, Documents, Reads, ReconcileMissing, ReconcileExchange, IsOpen,
           world, disk, Position, Price
  <1>2. CASE settled
    <2>1. pos' = [pos EXCEPT !.status = "CLOSED", !.settling = FALSE, !.reason = "EXCHANGE_CLOSED"]
      BY <1>2 DEF ReconcileMissing
    <2>2. pos' \in Position /\ ~IsOpen(pos') /\ Sound(pos')
      BY <1>1, <2>1 DEF Position, Price, IsOpen, Sound
    <2>3. ~ex.open /\ history
      BY <1>1, <1>2 DEF ReconcileMissing, ManagerInv, Reads
    <2> QED BY <1>1, <2>2, <2>3, PositionReplaced DEF ReconcileMissing
  <1>3. CASE ~settled
    <2>1. pos' = [pos EXCEPT !.settling = TRUE]
      BY <1>3 DEF ReconcileMissing
    <2>2. pos' \in Position /\ IsOpen(pos') /\ Sound(pos') /\ pos'.stop = pos.stop
      BY <1>1, <2>1, NoneAssumption
         DEF Position, Price, IsOpen, Sound, Flagged, Unmanaged, Managed, Honoured, NeedsSync
    <2>3. ~Tighter(pos.stop, pos'.stop)
      BY <1>1, <2>2 DEF Tighter
    <2>4. IsOpen(pos)'
      BY <2>2 DEF IsOpen
    <2> QED BY <1>1, <2>2, <2>3, <2>4, PositionReplaced DEF ReconcileMissing
  <1> QED BY <1>2, <1>3

\* reconcile_exchange when CoinW lists the open position.
LEMMA HeldKeeps ==
  ASSUME ManagerInv, ReconcileExchange, ReconcileHeld
  PROVE  /\ Documents' /\ pos' \in Position /\ changed' \in BOOLEAN
         /\ IsOpen(pos)' /\ ~Tighter(pos.stop, pos'.stop)
  <1> DEFINE managed == pos.stage # "INITIAL" /\ Dynamic
             stop == IF managed THEN Tightest(pos.stop, fetched.stop) ELSE fetched.stop
  <1>1. /\ pos \in Position /\ IsOpen(pos) /\ pos # None /\ pos.status = "OPEN"
        /\ side' = side /\ ex' = ex /\ row' = row /\ job' = job
        /\ Sound(pos) /\ pos.stop \in Int /\ ex.stop \in Int
        /\ fetched.stop = ex.stop
        /\ pos.best \in Int
    BY DEF ManagerInv, TypeOK, Documents, Reads, ReconcileHeld, ReconcileExchange, IsOpen,
           world, disk, Position, Price, Row
  <1>2. /\ pos' = [pos EXCEPT !.stop = stop, !.settling = FALSE,
                        !.pending = @ \/ (managed /\ Tighter(pos.stop, fetched.stop))]
        /\ changed' \in BOOLEAN
    BY DEF ReconcileHeld
  <1>3. managed <=> pos.stage # "INITIAL"
    BY <1>1 DEF Sound, Managed
  <1>4. /\ stop \in Int /\ ~Tighter(pos.stop, stop) /\ ~Tighter(ex.stop, stop)
        /\ Tighter(stop, ex.stop) => managed /\ Tighter(pos.stop, fetched.stop)
    BY <1>1, <1>3 DEF Sound, Unmanaged, Tighter, Tightest
  <1> HIDE DEF stop, managed
  <1>5. /\ pos' \in Position /\ pos'.status = "OPEN" /\ pos'.stop = stop
        /\ pos'.stage = pos.stage /\ pos'.best = pos.best /\ pos'.protected = pos.protected
        /\ pos'.pending <=> pos.pending \/ (managed /\ Tighter(pos.stop, fetched.stop))
    <2>1. (pos.pending \/ (managed /\ Tighter(pos.stop, fetched.stop))) \in BOOLEAN
      OBVIOUS
    <2> QED BY <1>1, <1>2, <1>4, <2>1 DEF Position, Price
  <1>6. IsOpen(pos')
    BY <1>5, NoneAssumption DEF IsOpen
  <1>7. Flagged(pos') /\ Unmanaged(pos') /\ Managed(pos')
    BY <1>1, <1>3, <1>4, <1>5, <1>6 DEF Sound, Flagged, Unmanaged, Managed, NeedsSync
  <1>8. Honoured(pos')
    <2>1. Candidate(pos.best) \in Int
      BY <1>1, PriceTypes DEF ManagerInv
    <2> QED BY <1>1, <1>4, <1>5, <2>1 DEF Sound, Honoured, Tighter
  <1>9. Sound(pos') /\ ~Tighter(pos.stop, pos'.stop) /\ IsOpen(pos)'
    BY <1>4, <1>5, <1>6, <1>7, <1>8 DEF Sound, IsOpen
  <1> QED BY <1>1, <1>2, <1>5, <1>9, PositionReplaced

\* reconcile_exchange when CoinW lists a position that the manager does not have.
LEMMA RecoveredKeeps ==
  ASSUME ManagerInv, ReconcileExchange, ReconcileRecovered
  PROVE  /\ Documents' /\ pos' \in Position /\ changed' \in BOOLEAN
         /\ IsOpen(pos)' /\ pos = None
  <1>1. /\ pos = None /\ job = None /\ ~IsOpen(row)
        /\ side' = side /\ ex' = ex /\ row' = row /\ job' = job
        /\ fetched.stop = ex.stop /\ ex.stop \in Int
    BY DEF ManagerInv, TypeOK, Documents, Reads, Closing, ReconcileRecovered, ReconcileExchange,
           world, disk, Price, Row
  <1>2. pos' = NewPosition(ex.stop) /\ changed' \in BOOLEAN
    BY <1>1 DEF ReconcileRecovered
  <1>3. /\ pos' \in Position /\ pos'.status = "OPEN" /\ pos'.stop = ex.stop
        /\ pos'.stage = "INITIAL" /\ pos'.best = Entry
    BY <1>1, <1>2, ManagerAssumption DEF ManagerAssumption, NewPosition, Position, Price
  <1>4. ~Progressed(Entry, 55)
    BY ManagerAssumption DEF ManagerAssumption, Progressed, Gain
  <1>5. Sound(pos')
    BY <1>1, <1>3, <1>4 DEF Sound, Flagged, Unmanaged, Managed, Honoured, Tighter
  <1>6. pos' # None
    BY <1>3, NoneAssumption
  <1>7. Sound(pos)' /\ Sound(job)' /\ Sound(row)'
    BY <1>1, <1>5, SoundStays DEF ManagerInv, Documents
  <1>8. Behind(job)' /\ Behind(row)'
    BY <1>1 DEF Behind, IsOpen
  <1> QED BY <1>1, <1>2, <1>3, <1>6, <1>7, <1>8 DEF Documents, IsOpen

\* ReconcileExchange keeps the invariant.
LEMMA ReconcileExchangeKeeps ==
  ASSUME ManagerInv, ReconcileExchange
  PROVE  ManagerInv'
  <1>1. /\ pc = "reconcile" /\ pc' = "held" /\ Live /\ fetched' = None /\ settled' = FALSE
        /\ history' = history /\ ex' = ex /\ quote' = quote /\ quote # None
        /\ side' = side /\ row' = row /\ job' = job /\ row \in Position \cup {None}
    BY DEF ReconcileExchange, ManagerInv, TypeOK, Reads, world, disk
  <1>2. /\ Documents' /\ pos' \in Position \cup {None} /\ changed' \in BOOLEAN
        /\ pos' # None /\ ~IsOpen(pos)' => ~ex.open /\ history
    <2>1. CASE ReconcileMissing
      BY <2>1, MissingKeeps
    <2>2. CASE ReconcileHeld
      BY <2>2, HeldKeeps
    <2>3. CASE ReconcileRecovered
      BY <2>3, RecoveredKeeps
    <2>4. CASE ReconcileNothing
      <3>1. pos' = pos /\ changed' = changed
        BY <2>4 DEF ReconcileNothing
      <3>2. Documents'
        BY <1>1, <2>4, <3>1, SoundStays DEF ReconcileNothing, ManagerInv, Documents, Behind, IsOpen
      <3>3. pos' # None /\ ~IsOpen(pos)' => ~ex.open /\ history
        BY <1>1, <3>1 DEF ManagerInv, Closing, IsOpen
      <3> QED BY <3>1, <3>2, <3>3 DEF ManagerInv, TypeOK
    <2> QED BY <2>1, <2>2, <2>3, <2>4 DEF ReconcileExchange
  <1>3. TypeOK'
    BY <1>1, <1>2 DEF ReconcileExchange, world, disk, ManagerInv, TypeOK
  <1>4. Reads' /\ Closing'
    BY <1>1, <1>2 DEF ManagerInv, Reads, Closing, IsOpen
  <1> QED BY <1>2, <1>3, <1>4 DEF ManagerInv

\* The initial states satisfy the invariant.
LEMMA InitInv ==
  ASSUME Init
  PROVE  ManagerInv
  <1>1. Stop0 \in Int /\ Entry \in Int /\ side \in {"LONG", "SHORT"}
    BY ManagerAssumption DEF ManagerAssumption, Init, Stop0, At
  <1>2. /\ ex \in Row /\ ex.stop = Stop0 /\ ex.open = Live
        /\ job = None /\ row = pos /\ ~history /\ fetched = None /\ quote = None
        /\ pc = "idle" /\ settled = FALSE
    BY <1>1, ManagerAssumption DEF ManagerAssumption, Init, Row, Price
  <1>3. \/ pos = None
        \/ /\ pos \in Position /\ pos.status = "OPEN" /\ pos.stop = Stop0
           /\ pos.stage = "INITIAL" /\ pos.best = Entry
    BY <1>1, ManagerAssumption DEF ManagerAssumption, Init, NewPosition, Position, Price
  <1>4. TypeOK
    <2>1. time \in 0 .. MaxTime /\ marked \in 0 .. MaxTime /\ crashes \in 0 .. MaxCrashes
      BY ManagerAssumption DEF ManagerAssumption, Init
    <2>2. market \in Price
      BY <1>1 DEF Init, Price
    <2> QED BY <1>1, <1>2, <1>3, <2>1, <2>2 DEF TypeOK, Init
  <1>5. ~Progressed(Entry, 55)
    BY ManagerAssumption DEF ManagerAssumption, Progressed, Gain
  <1>6. Sound(pos)
    BY <1>1, <1>2, <1>3, <1>5
       DEF Sound, IsOpen, Flagged, Unmanaged, Managed, Honoured, Tighter
  <1>7. Behind(pos)
    BY <1>3, BehindItself
  <1>8. Documents
    BY <1>2, <1>6, <1>7 DEF Documents, IsOpen, Sound, Behind
  <1>9. Reads /\ Closing
    BY <1>2, <1>3 DEF Reads, Closing, IsOpen
  <1> QED BY <1>4, <1>8, <1>9 DEF ManagerInv

\* Every step keeps the invariant.
LEMMA NextInv ==
  ASSUME ManagerInv, [Next]_vars
  PROVE  ManagerInv'
  <1>1. CASE Pass
    BY <1>1, TakeSnapshotKeeps, ScanMarkKeeps, SyncSymbolKeeps, SettlementsKeeps, SyncFailsKeeps,
       ReconcileExchangeKeeps, SyncHeldKeeps, NothingToSyncKeeps, SaveChangesKeeps, LiveMarkKeeps,
       PushProtectionKeeps DEF Pass
  <1>2. CASE vars' = vars
    <2>1. Documents'
      BY <1>2, SoundStays DEF vars, ram, world, disk, ManagerInv, Documents, Behind, IsOpen, Tighter
    <2> QED BY <1>2, <2>1
            DEF vars, ram, world, disk, ManagerInv, TypeOK, Reads, Closing, IsOpen
  <1>3. CASE Next /\ ~Pass
    BY <1>3, MarketMovesKeeps, HistoryAppearsKeeps, RunExitQuoteKeeps, SaveKeeps, RestartKeeps
       DEF Next
  <1> QED BY <1>1, <1>2, <1>3

\* Whatever the market, the exchange, the failed requests and the restarts do,
\* the position and every document of it that a restart may bring back agree with
\* the exchange in the sense of ManagerInv.
THEOREM ManagerInvariant == Spec => []ManagerInv
  <1>1. Init => ManagerInv
    BY InitInv
  <1>2. ManagerInv /\ [Next]_vars => ManagerInv'
    BY NextInv
  <1> QED BY <1>1, <1>2, PTL DEF Spec

\* A stop that CoinW does not have yet is flagged, so that a later pass of
\* on_snapshot sends it through ensure_protection.
THEOREM LaggingIsFlagged == Spec => []LaggingStopIsFlagged
  <1>1. ManagerInv => LaggingStopIsFlagged
    BY DEF ManagerInv, Documents, Sound, Flagged, LaggingStopIsFlagged
  <1> QED BY <1>1, ManagerInvariant, PTL

\* The stop of an open position is as tight as its best price has earned, after any
\* number of reconciliations, lost saves and restarts.
THEOREM BestPriceHonoured == Spec => []BestPriceIsHonoured
  <1>1. ManagerInv => BestPriceIsHonoured
    BY DEF ManagerInv, Documents, Sound, Honoured, BestPriceIsHonoured
  <1> QED BY <1>1, ManagerInvariant, PTL

\* reconcile_exchange closes a LIVE position only once CoinW has closed it and its
\* settlement can be known.
THEOREM LiveCloseIsSettled == Spec => []ClosedIsSettled
  <1>1. ManagerInv => ClosedIsSettled
    BY DEF ManagerInv, Closing, ClosedIsSettled
  <1> QED BY <1>1, ManagerInvariant, PTL

\* Outside a restart no step loosens the stop of an open position: not a mark, not
\* a reconciliation, not the rounding of what is sent.
LEMMA StepNeverLoosens ==
  ASSUME ManagerInv, [Next]_vars, IsOpen(pos), IsOpen(pos'), crashes' = crashes
  PROVE  ~Tighter(pos.stop, pos'.stop)
  <1>1. /\ pos \in Position /\ pos.stop \in Int /\ pos # None /\ TypeOK
        /\ pos' = pos => ~Tighter(pos.stop, pos'.stop)
    BY DEF ManagerInv, TypeOK, IsOpen, Position, Price, Tighter
  <1>2. CASE pos' = pos
    BY <1>1, <1>2
  <1>3. CASE RunExitQuote
    <2>1. PICK g \in Gains : LocalMark([price |-> At(g), at |-> time], market)
      BY <1>3 DEF RunExitQuote
    <2>2. [price |-> At(g), at |-> time] \in Quote
      BY <1>1, ManagerAssumption, PriceTypes DEF ManagerAssumption, TypeOK, Quote, Price
    <2> QED BY <1>3, <2>1, <2>2, LocalMarkKeeps DEF RunExitQuote, world
  <1>4. CASE ScanMark
    <2>1. quote \in Quote
      BY <1>4 DEF ScanMark, ManagerInv, Reads, TypeOK
    <2> QED BY <1>4, <2>1, LocalMarkKeeps DEF ScanMark, world
  <1>5. CASE ReconcileExchange
    BY <1>1, <1>2, <1>5, MissingKeeps, HeldKeeps
       DEF ReconcileExchange, ReconcileRecovered, ReconcileNothing
  <1>6. CASE LiveMark
    <2>1. quote \in Quote
      BY <1>6 DEF LiveMark, ManagerInv, Reads, TypeOK
    <2>2. pos' = Protected(pos, quote.price)
      BY <1>6 DEF LiveMark
    <2> QED BY <2>1, <2>2, ProtectedSound DEF Quote, Price
  <1>7. CASE SyncHeld \/ PushProtection
    <2>1. (Acknowledged \/ Unacknowledged) /\ side' = side
      BY <1>7 DEF SyncHeld, PushProtection
    <2>2. PICK n : pos' = n
      OBVIOUS
    <2> QED BY <2>1, <2>2, ProtectionSent
  <1>8. CASE Restart
    <2>1. crashes' = crashes + 1 /\ crashes \in Int
      BY <1>1, <1>8 DEF Restart, TypeOK
    <2> QED BY <2>1
  <1>9. CASE MarketMoves \/ HistoryAppears \/ Save \/ vars' = vars
    <2>1. pos' = pos
      BY <1>9 DEF MarketMoves, HistoryAppears, Save, ram, vars
    <2> QED BY <1>2, <2>1
  <1>10. CASE TakeSnapshot \/ SyncSymbol \/ Settlements \/ SyncFails \/ NothingToSync
              \/ SaveChanges
    <2>1. pos' = pos
      BY <1>10 DEF TakeSnapshot, SyncSymbol, Settlements, SyncFails, NothingToSync, SaveChanges
    <2> QED BY <1>2, <2>1
  <1> QED BY <1>3, <1>4, <1>5, <1>6, <1>7, <1>8, <1>9, <1>10 DEF Next, Pass

\* The stop of an open position never gets looser outside a restart ("nunca lo
\* afloja", REVISION_LOGICA_OPERACIONES).
THEOREM NeverLoosens == Spec => StopNeverLoosens
  <1>1. ManagerInv /\ [Next]_vars
          => [IsOpen(pos) /\ IsOpen(pos') /\ crashes' = crashes
                => ~Tighter(pos.stop, pos'.stop)]_vars
    BY StepNeverLoosens
  <1> QED BY <1>1, ManagerInvariant, PTL DEF Spec, StopNeverLoosens

-----------------------------------------------------------------------------
(* Paper exits. *)

\* A local exit is filled no better than the barrier that triggered it.
LEMMA LocalExitFair ==
  ASSUME ManagerInv, IsOpen(pos), NEW q \in Quote, NEW trigger, LocalMark(q, trigger),
         side' = side
  PROVE  ExitNoBetterThanBarrier'
  <1> DEFINE n == Protected(pos, q.price)
             action == Action(n, trigger)
             barrier == IF action = "SL" THEN n.stop ELSE Target
  <1>1. TypeOK /\ pos \in Position /\ q.price \in Int
    BY DEF ManagerInv, TypeOK, IsOpen, Quote, Price
  <1>2. n \in Position /\ n.status = "OPEN" /\ n.stop \in Int
    BY <1>1, ProtectedSound DEF IsOpen, Position, Price
  <1>3. action \in {"SL", "TP2", "none"}
    BY DEF Action
  <1>4. CASE action = "none"
    <2>1. pos' = n
      BY <1>4 DEF LocalMark
    <2> QED BY <1>2, <2>1 DEF ExitNoBetterThanBarrier, IsOpen
  <1>5. CASE action # "none"
    <2>1. pos' = Closed(n, action, q.price)
      BY <1>5 DEF LocalMark
    <2> HIDE DEF n, action
    <2>2. pos'.exit = Fill(n, action, q.price) /\ pos'.reason = action /\ pos'.stop = n.stop
      BY <1>2, <2>1 DEF Closed, Position
    <2>3. At(Gain(q.price) - Slip) \in Int /\ barrier \in Int
      <3>1. Gain(q.price) - Slip \in Int
        BY <1>1, ManagerAssumption DEF ManagerAssumption, Gain, TypeOK
      <3> QED BY <1>1, <1>2, <3>1, PriceTypes
    <2>4. Fill(n, action, q.price) = Loosest(At(Gain(q.price) - Slip), barrier)
      BY DEF Fill
    <2>5. ~Tighter(pos'.exit, barrier)
      BY <2>2, <2>3, <2>4 DEF Loosest, Tighter
    <2>6. Target' = Target
      BY DEF Target, At
    <2> QED BY <2>2, <2>5, <2>6 DEF ExitNoBetterThanBarrier, Tighter
  <1> QED BY <1>4, <1>5

\* Only a local exit closes a position of DEMO, and what it recorded stands.
LEMMA ExitStaysFair ==
  ASSUME ManagerInv, ExitNoBetterThanBarrier, [Next]_vars
  PROVE  ExitNoBetterThanBarrier'
  <1>1. CASE Live
    BY <1>1 DEF ExitNoBetterThanBarrier
  <1>2. CASE pos' = pos /\ side' = side
    BY <1>2 DEF ExitNoBetterThanBarrier, Tighter, IsOpen, Target, At
  <1>3. CASE RunExitQuote
    <2>1. PICK g \in Gains : LocalMark([price |-> At(g), at |-> time], market)
      BY <1>3 DEF RunExitQuote
    <2>2. [price |-> At(g), at |-> time] \in Quote
      BY ManagerAssumption, PriceTypes DEF ManagerAssumption, ManagerInv, TypeOK, Quote, Price
    <2> QED BY <1>3, <2>1, <2>2, LocalExitFair DEF RunExitQuote, world
  <1>4. CASE ScanMark
    <2>1. quote \in Quote
      BY <1>4 DEF ScanMark, ManagerInv, Reads, TypeOK
    <2>2. CASE IsOpen(pos)
      BY <1>4, <2>1, <2>2, LocalExitFair DEF ScanMark, world
    <2>3. CASE ~IsOpen(pos)
      BY <1>2, <1>4, <2>3 DEF ScanMark, world
    <2> QED BY <2>2, <2>3
  <1>5. CASE Restart
    BY <1>5 DEF Restart, ExitNoBetterThanBarrier, IsOpen
  <1>6. CASE ~Live /\ (SyncSymbol \/ Settlements \/ SyncFails \/ ReconcileExchange \/ SyncHeld
                       \/ NothingToSync \/ SaveChanges \/ LiveMark \/ PushProtection)
    <2>1. pc \in {"idle", "mark"}
      BY <1>6 DEF ManagerInv, Reads
    <2> QED BY <1>6, <2>1 DEF SyncSymbol, Settlements, SyncFails, ReconcileExchange, SyncHeld,
                NothingToSync, SaveChanges, LiveMark, PushProtection
  <1>7. CASE MarketMoves \/ HistoryAppears \/ Save \/ TakeSnapshot \/ vars' = vars
    BY <1>2, <1>7 DEF MarketMoves, HistoryAppears, Save, TakeSnapshot, ram, world, vars
  <1> QED BY <1>1, <1>3, <1>4, <1>5, <1>6, <1>7 DEF Next, Pass

\* Paper exits are fair: whatever gaps the market makes and however late the exit is
\* filled, the account is never credited a price better than the stop or the target
\* that closed the position (close_or_reduce), and that stop is the one its best
\* price had earned.
THEOREM ExitsAreFair == Spec => []PaperExitsAreFair
  <1>1. Init => ExitNoBetterThanBarrier
    BY DEF Init, NewPosition, ExitNoBetterThanBarrier, IsOpen
  <1>2. ManagerInv /\ ExitNoBetterThanBarrier /\ [Next]_vars => ExitNoBetterThanBarrier'
    BY ExitStaysFair
  <1>3. ManagerInv => TypeOK /\ BestPriceIsHonoured
    BY DEF ManagerInv, Documents, Sound, Honoured, BestPriceIsHonoured
  <1>4. TypeOK /\ ExitNoBetterThanBarrier /\ BestPriceIsHonoured => PaperExitsAreFair
    BY DEF PaperExitsAreFair
  <1> QED BY <1>1, <1>2, <1>3, <1>4, ManagerInvariant, PTL DEF Spec

-----------------------------------------------------------------------------
(* The stop at the exchange. *)

\* What is sent for a tighter stop is not looser.
LEMMA RoundStopMonotone ==
  ASSUME TypeOK, NEW p \in Int, NEW q \in Int, ~Tighter(p, q)
  PROVE  ~Tighter(RoundStop(p), RoundStop(q))
  <1>1. Tick \in Int /\ Tick > 0
    BY ManagerAssumption DEF ManagerAssumption
  <1>2. ASSUME NEW a \in Int, NEW b \in Int, a <= b PROVE (a \div Tick) * Tick <= (b \div Tick) * Tick
    <2> DEFINE x == a \div Tick
               y == b \div Tick
    <2>1. /\ x \in Int /\ y \in Int /\ x * Tick <= a /\ b < y * Tick + Tick
          /\ x * Tick \in Int /\ y * Tick \in Int
      BY <1>1
    <2> HIDE DEF x, y
    <2>2. CASE x <= y
      <3>1. y - x \in Nat /\ y = x + (y - x)
        BY <2>1, <2>2
      <3>2. (y - x) * Tick \in Nat
        BY <1>1, <3>1
      <3>3. y * Tick = x * Tick + (y - x) * Tick
        BY <1>1, <2>1, <3>1
      <3> QED BY <2>1, <3>2, <3>3 DEF x, y
    <2>3. CASE ~(x <= y)
      <3>1. x - y - 1 \in Nat
        BY <2>1, <2>3
      <3>2. (x - y - 1) * Tick \in Nat
        BY <1>1, <3>1
      <3>3. x * Tick = y * Tick + Tick + (x - y - 1) * Tick
        BY <1>1, <2>1, <3>1
      <3> DEFINE u == x * Tick
                 v == y * Tick
                 w == (x - y - 1) * Tick
      <3>4. w \in Nat /\ u = v + Tick + w /\ u \in Int /\ v \in Int /\ u <= a /\ b < v + Tick
        BY <2>1, <3>2, <3>3
      <3> HIDE DEF u, v, w
      <3> QED BY <1>1, <1>2, <3>4
    <2> QED BY <2>2, <2>3
  <1>3. \A r \in Int : RoundStop(r) \in Int
    BY RoundStopTightens
  <1>4. CASE side = "LONG"
    <2>1. p + Tick - 1 <= q + Tick - 1
      BY <1>1, <1>4 DEF Tighter
    <2> QED BY <1>1, <1>2, <1>3, <1>4, <2>1 DEF RoundStop, Tighter
  <1>5. CASE side # "LONG"
    <2>1. q <= p
      BY <1>5 DEF Tighter
    <2> QED BY <1>2, <1>3, <1>5, <2>1 DEF RoundStop, Tighter
  <1> QED BY <1>4, <1>5

\* Until a restart, what ensure_protection would send is not looser than the stop
\* that CoinW has.
Ahead == crashes = 0 /\ IsOpen(pos) => ~Tighter(ex.stop, RoundStop(pos.stop))

\* The stop at CoinW changes by what is sent alone.
LEMMA AheadStep ==
  ASSUME ManagerInv, Ahead, [Next]_vars
  PROVE  Ahead' /\ (crashes' = 0 => ~Tighter(ex.stop, ex'.stop))
  <1>1. /\ TypeOK /\ ex.stop \in Int /\ crashes \in Nat
        /\ ~Tighter(ex.stop, ex.stop)
        /\ IsOpen(pos) => pos \in Position /\ pos.stop \in Int
    BY ManagerAssumption DEF ManagerAssumption, ManagerInv, TypeOK, Row, Price, Tighter, IsOpen,
                             Position
  <1>2. ManagerInv'
    BY NextInv
  <1>3. IsOpen(pos') => pos' \in Position /\ pos'.stop \in Int
    BY <1>2 DEF ManagerInv, TypeOK, Price, IsOpen, Position
  <1>4. side' = side =>
          /\ \A p \in Int : RoundStop(p)' = RoundStop(p)
          /\ \A a, b \in Int : Tighter(a, b)' <=> Tighter(a, b)
    BY DEF RoundStop, Tighter
  <1>5. CASE side' = side /\ ex'.stop = ex.stop /\ crashes' = crashes
             /\ (IsOpen(pos') => IsOpen(pos))
    <2>1. ASSUME crashes' = 0, IsOpen(pos') PROVE ~Tighter(ex.stop, RoundStop(pos'.stop))
      <3>1. ~Tighter(pos.stop, pos'.stop)
        BY <1>5, <2>1, StepNeverLoosens
      <3>2. ~Tighter(RoundStop(pos.stop), RoundStop(pos'.stop))
        BY <1>1, <1>3, <1>5, <2>1, <3>1, RoundStopMonotone
      <3>3. ~Tighter(ex.stop, RoundStop(pos.stop))
        BY <1>5, <2>1 DEF Ahead
      <3>4. RoundStop(pos.stop) \in Int /\ RoundStop(pos'.stop) \in Int
        BY <1>1, <1>3, <1>5, <2>1, RoundStopTightens
      <3> QED BY <1>1, <3>2, <3>3, <3>4 DEF Tighter
    <2>2. Ahead'
      BY <1>5, <2>1 DEF Ahead, IsOpen, Tighter, RoundStop
    <2> QED BY <1>1, <1>5, <2>2
  <1>6. CASE ReconcileExchange /\ ~IsOpen(pos) /\ IsOpen(pos')
    <2>1. /\ ReconcileRecovered /\ side' = side /\ ex' = ex /\ crashes' = crashes
          /\ fetched.stop = ex.stop
      BY <1>6 DEF ReconcileExchange, ReconcileMissing, ReconcileHeld, ReconcileNothing, world, disk,
                  ManagerInv, Reads
    <2>2. pos'.stop = ex.stop
      BY <2>1 DEF ReconcileRecovered, NewPosition
    <2>3. ~Tighter(ex.stop, RoundStop(pos'.stop))
      BY <1>1, <2>2, RoundStopTightens
    <2> QED BY <1>1, <2>1, <2>3 DEF Ahead, Tighter, RoundStop
  <1>7. CASE SyncHeld \/ PushProtection
    <2>1. /\ Acknowledged \/ Unacknowledged
          /\ side' = side /\ crashes' = crashes /\ IsOpen(pos) /\ pos.stop \in Int
      BY <1>1, <1>7 DEF SyncHeld, PushProtection, NeedsSync, disk, ManagerInv, Reads
    <2> DEFINE s == RoundStop(pos.stop)
    <2>2. s \in Int /\ ~Tighter(s, RoundStop(s))
      BY <1>1, <2>1, RoundStopTightens
    <2>3. ex'.stop = ex.stop \/ ex'.stop = s
      BY <1>1, <2>1 DEF Acknowledged, Unacknowledged, TypeOK, Row
    <2>4. \/ pos'.stop = pos.stop
          \/ pos'.stop = s /\ ex'.stop = s
      BY <1>1, <2>1 DEF Acknowledged, Unacknowledged, ManagerInv, TypeOK, Row, Position
    <2>5. crashes = 0 => ~Tighter(ex.stop, s)
      BY <2>1 DEF Ahead
    <2> HIDE DEF s
    <2>6. crashes' = 0 => ~Tighter(ex.stop, ex'.stop)
      BY <1>1, <2>1, <2>3, <2>5
    <2>7. crashes' = 0 => ~Tighter(ex'.stop, RoundStop(pos'.stop))
      <3>1. ~Tighter(s, s)
        BY <2>2 DEF Tighter
      <3> QED BY <1>1, <2>1, <2>2, <2>3, <2>4, <2>5, <3>1 DEF s
    <2> QED BY <2>1, <2>6, <2>7 DEF Ahead, Tighter, RoundStop
  <1>8. CASE Restart
    <2>1. crashes' = crashes + 1
      BY <1>8 DEF Restart
    <2>2. crashes' # 0
      BY <1>1, <2>1
    <2> QED BY <2>2 DEF Ahead
  <1>9. CASE MarketMoves
    <2>1. side' = side /\ ex'.stop = ex.stop /\ crashes' = crashes /\ pos' = pos
      BY <1>9 DEF MarketMoves, ram, disk, ManagerInv, TypeOK, Row
    <2> QED BY <1>5, <2>1
  <1>10. CASE HistoryAppears \/ Save \/ TakeSnapshot \/ SyncSymbol \/ Settlements \/ SyncFails
              \/ NothingToSync \/ SaveChanges \/ vars' = vars
    <2>1. side' = side /\ ex' = ex /\ crashes' = crashes /\ pos' = pos
      BY <1>10 DEF HistoryAppears, Save, TakeSnapshot, SyncSymbol, Settlements, SyncFails,
                   NothingToSync, SaveChanges, ram, world, disk, vars
    <2> QED BY <1>5, <2>1
  <1>11. CASE RunExitQuote \/ ScanMark \/ LiveMark
    <2>1. side' = side /\ ex' = ex /\ crashes' = crashes /\ (IsOpen(pos) \/ pos' = pos)
      BY <1>11 DEF RunExitQuote, ScanMark, LiveMark, world
    <2> QED BY <1>5, <2>1
  <1>12. CASE ReconcileExchange /\ (IsOpen(pos) \/ ~IsOpen(pos'))
    BY <1>5, <1>12 DEF ReconcileExchange, world, disk
  <1> QED BY <1>6, <1>7, <1>8, <1>9, <1>10, <1>11, <1>12 DEF Next, Pass

\* The stop at CoinW does not get looser until the worker restarts, for every price
\* step and whichever requests are lost (ensure_protection).
THEOREM ExchangeStopKept == Spec => ExchangeStopKeptInRun
  <1>1. Init => Ahead
    <2> SUFFICES ASSUME Init, IsOpen(pos) PROVE ~Tighter(ex.stop, RoundStop(pos.stop))
      BY DEF Ahead
    <2>1. ManagerInv
      BY InitInv
    <2>2. pos.stop = ex.stop
      BY DEF Init, IsOpen, NewPosition
    <2>3. ex.stop \in Int /\ TypeOK
      BY <2>1 DEF ManagerInv, TypeOK, Row, Price
    <2> QED BY <2>2, <2>3, RoundStopTightens
  <1>2. ManagerInv /\ Ahead /\ [Next]_vars => Ahead'
    BY AheadStep
  <1>3. ManagerInv /\ Ahead /\ [Next]_vars
          => [crashes' = 0 => ~Tighter(ex.stop, ex'.stop)]_vars
    BY AheadStep
  <1> QED BY <1>1, <1>2, <1>3, ManagerInvariant, PTL DEF Spec, ExchangeStopKeptInRun
=============================================================================
