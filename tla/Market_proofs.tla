--------------------------- MODULE Market_proofs ---------------------------
(***************************************************************************)
(* Theorems about the components between the market and the accounts, for  *)
(* every value of the constants: realtime exits, the regime, the outbox,   *)
(* execution quotes, the scan of the market and the setups.  They share no *)
(* state: each theorem is about the behaviours of one of them, and         *)
(* MarketDataIsSafe about those of MCMarket, where any of them may move.   *)
(***************************************************************************)
EXTENDS MCMarket, FiniteSetTheorems, SequenceTheorems, WellFoundedInduction, TLAPS

\* A set of natural numbers has a least one: what CHOOSE finds exists.
LEMMA LeastExists ==
    ASSUME NEW S, S \subseteq Nat, S # {}
    PROVE  \E m \in S : \A x \in S : m <= x
<1> DEFINE R == OpToRel(<, Nat)
<1>1. IsWellFoundedOn(R, Nat)
  BY NatLessThanWellFounded
<1>2. \A x, y \in Nat : x < y => <<x, y>> \in R
  BY DEF OpToRel
<1> HIDE DEF R
<1>3. PICK m \in S : \A y \in S : ~ (<<y, m>> \in R)
  BY <1>1, WFMin
<1>4. \A y \in S : ~(y < m)
  BY <1>2, <1>3
<1> QED
  BY <1>3, <1>4

-----------------------------------------------------------------------------
(* Realtime exits.                                                          *)

\* Books are those of the connection that is up, or of none.
BooksOfConnection ==
    /\ feed = "connecting" => books = NoBooks
    /\ feed = "streaming" => /\ \A s \in Traded : books[s] \in {NoBook, epoch}
                             /\ tick \in {NoBook, epoch}

ExitsInv == ExitsTypeOK /\ BooksOfConnection

\* A trade is marked with a book of its own connection (monitor_realtime_exits).
THEOREM TicksHaveTheirBook ==
    ExitsInit /\ [][ExitsNext]_exitVars => [](ExitsTypeOK /\ TickHasItsBook)
<1>1. ExitsInit => ExitsInv
  BY DEF ExitsInit, ExitsInv, ExitsTypeOK, BooksOfConnection, NoBooks
<1>2. ExitsInv /\ [ExitsNext]_exitVars => ExitsInv'
  <2> SUFFICES ASSUME ExitsInv, [ExitsNext]_exitVars PROVE ExitsInv'
    OBVIOUS
  <2> USE DEF ExitsInv, ExitsTypeOK, BooksOfConnection
  <2>1. CASE UNCHANGED exitVars
    BY <2>1 DEF exitVars, NoBooks
  <2>2. CASE Positions
    BY <2>2 DEF Positions, NoBooks
  <2>3. CASE Prepare
    BY <2>3 DEF Prepare, Emptied, NoBooks
  <2>4. CASE Connected
    BY <2>4 DEF Connected, NoBooks
  <2>5. CASE Broken \/ Wake
    BY <2>5 DEF Broken, Wake
  <2>6. CASE Depth
    <3>1. PICK s \in expected, m \in Message :
            /\ Marked(s)
            /\ books' = IF Quote(m) THEN [books EXCEPT ![s] = epoch] ELSE books
      BY <2>6 DEF Depth
    <3>2. /\ feed = "streaming" /\ feed' \in {"streaming", "sleeping"}
          /\ UNCHANGED <<expected, epoch, tick>> /\ open' \subseteq Traded
      BY <2>6, <3>1 DEF Depth, Stays, Marked
    <3>3. books' \in [Traded -> {NoBook, 0, 1}] /\ \A x \in Traded : books'[x] \in {NoBook, epoch}
      BY <3>1, <3>2
    <3> QED
      BY <3>2, <3>3
  <2>7. CASE Trades
    <3>1. /\ feed = "streaming" /\ feed' \in {"streaming", "sleeping"}
          /\ UNCHANGED <<expected, books, epoch>> /\ open' \subseteq Traded
          /\ \E s \in expected : tick' = books[s]
      BY <2>7 DEF Trades, Stays, Marked
    <3> QED
      BY <3>1
  <2>8. CASE Silence
    BY <2>8 DEF Silence
  <2> QED
    BY <2>1, <2>2, <2>3, <2>4, <2>5, <2>6, <2>7, <2>8 DEF ExitsNext, Receive
<1>3. ExitsInv => ExitsTypeOK /\ TickHasItsBook
  BY DEF ExitsInv, BooksOfConnection, TickHasItsBook
<1> QED
  BY <1>1, <1>2, <1>3, PTL

-----------------------------------------------------------------------------
(* The regime.                                                              *)

\* The pending regime counts the very bars of the streak.
PendingIsStreak ==
    /\ state.active # last => /\ last # "SHOCK" /\ state.bars > 0
                              /\ state.pending = last /\ state.count = streak
                              /\ streak < Required(last)
    /\ state.active = last => state.pending = "none"

\* Whatever the snapshot, the route is one of the active regime.
RouteOfRegime == state.active \in {"SHOCK", "DEAD"} => route = Blocked

RegimeInv == RegimeTypeOK /\ PendingIsStreak /\ RouteOfRegime

\* Candidates are regimes, confirmations few, and what may not trade is routed nowhere.
LEMMA RegimeOperators ==
    /\ \A m \in Market : Candidate(m) \in Regime
    /\ \A r \in Regime : Required(r) \in 1..6 /\ Required(r) <= Longest
    /\ Longest \in 2..6
    /\ \A m \in Market, a \in Regime :
          /\ Routed(a, m) \in [direction : Side \cup {"neutral"},
                               strategy : {"none", "BREAKOUT_RETEST", "LIQUIDITY_SWEEP"},
                               risk : 0..100]
          /\ a \in {"SHOCK", "DEAD"} => Routed(a, m) = Blocked
<1>1. \A m \in Market : Candidate(m) \in Regime
  BY DEF Candidate, Regime
<1>2. \A r \in Regime : Required(r) \in 1..6 /\ Required(r) <= Longest
  BY RegimeAssumption DEF Required, Most, Longest
<1>3. Longest \in 2..6
  BY RegimeAssumption DEF Most, Longest
<1>4. ASSUME NEW m \in Market, NEW a \in Regime
      PROVE  Routed(a, m) \in [direction : Side \cup {"neutral"},
                               strategy : {"none", "BREAKOUT_RETEST", "LIQUIDITY_SWEEP"},
                               risk : 0..100]
  <2>1. DevelopingTrend(m) => Heading(m) \in Side
    BY DEF DevelopingTrend
  <2> QED
    BY <2>1 DEF Routed, Breakout, Sweep, Blocked
<1>5. \A m \in Market, a \in {"SHOCK", "DEAD"} : Routed(a, m) = Blocked
  BY DEF Routed
<1> QED
  BY <1>1, <1>2, <1>3, <1>4, <1>5

\* The first snapshot of a bar, when r is what it looks like.
LEMMA BarStep ==
    ASSUME RegimeInv, NEW m \in Market, NewBar(m)
    PROVE  /\ RegimeInv'
           /\ state'.active # state.active /\ state.bars > 0 /\ state'.active # "SHOCK"
                => last' = state'.active /\ streak' >= Required(last')
<1> DEFINE r == Candidate(m)
           cap == Longest
<1>1. /\ r \in Regime /\ Required(r) \in 1..6 /\ Required(r) <= cap /\ cap \in 2..6
      /\ r # "none"
  BY RegimeOperators DEF Regime
<1>2. /\ state' = Advanced(state, r) /\ last' = r /\ route' = Routed(state'.active, m)
      /\ streak' = IF r # last THEN 1 ELSE IF streak < cap THEN streak + 1 ELSE streak
      /\ calm' = IF r = "SHOCK" THEN 0 ELSE IF calm < cap THEN calm + 1 ELSE calm
  BY DEF NewBar, Another
<1>3. /\ state \in [active : Regime, pending : Regime \cup {"none"}, count : 0..6, bars : {0, 1}]
      /\ last \in Regime /\ streak \in Nat /\ calm \in Nat
  BY DEF RegimeInv, RegimeTypeOK
<1>a. Required(last) <= cap /\ Required(last) \in 1..6
  BY <1>3, RegimeOperators
<1> HIDE DEF r, cap
<1>4. \/ /\ r = "SHOCK" \/ state.bars = 0
         /\ state' = Settles(r)
      \/ /\ r # "SHOCK" /\ state.bars # 0 /\ r = state.active
         /\ state' = [state EXCEPT !.pending = "none", !.count = 0]
      \/ /\ r # "SHOCK" /\ state.bars # 0 /\ r # state.active
         /\ LET n == IF state.pending = r THEN state.count + 1 ELSE 1
            IN  \/ n >= Required(r) /\ state' = Settles(r)
                \/ ~(n >= Required(r)) /\ state' = [state EXCEPT !.pending = r, !.count = n]
  BY <1>2 DEF Advanced, AtOnce, Agrees
<1>5. CASE state' = Settles(r)
  <2>1. /\ state'.active = r /\ state'.pending = "none"
        /\ state' \in [active : Regime, pending : Regime \cup {"none"}, count : 0..6, bars : {0, 1}]
    BY <1>1, <1>5 DEF Settles
  <2>2. streak' \in Nat /\ calm' \in Nat
    BY <1>1, <1>2, <1>3
  <2>3. RegimeInv'
    BY <1>1, <1>2, <2>1, <2>2, RegimeOperators DEF RegimeInv, RegimeTypeOK, PendingIsStreak, RouteOfRegime
  <2>4. ASSUME state.active # r, state.bars > 0, r # "SHOCK" PROVE streak' >= Required(r)
    <3>1. (IF state.pending = r THEN state.count + 1 ELSE 1) >= Required(r)
      <4> DEFINE n == IF state.pending = r THEN state.count + 1 ELSE 1
      <4>1. n >= Required(r) \/ state' = [state EXCEPT !.pending = r, !.count = n]
        BY <1>4, <2>4, <1>3
      <4> HIDE DEF n
      <4>2. state' # [state EXCEPT !.pending = r, !.count = n]
        BY <1>1, <1>3, <2>1
      <4>3. n >= Required(r)
        BY <4>1, <4>2
      <4> QED
        BY <4>3 DEF n
    <3>2. CASE state.pending = r
      <4>1. state.active # last /\ last = r /\ state.count = streak /\ streak < Required(last)
        BY <1>1, <2>4, <3>2 DEF RegimeInv, PendingIsStreak
      <4>2. streak' = streak + 1
        BY <1>2, <1>3, <1>a, <1>1, <4>1
      <4> QED
        BY <3>1, <3>2, <4>1, <4>2
    <3>3. CASE state.pending # r
      <4>1. Required(r) = 1
        BY <1>1, <3>1, <3>3
      <4>2. streak' >= 1
        BY <1>1, <1>2, <1>3
      <4> QED
        BY <4>1, <4>2
    <3> QED
      BY <3>2, <3>3
  <2> QED
    BY <1>2, <2>1, <2>3, <2>4
<1>6. CASE /\ r = state.active
           /\ state' = [state EXCEPT !.pending = "none", !.count = 0]
  <2>1. /\ state'.active = r /\ state'.pending = "none"
        /\ state' \in [active : Regime, pending : Regime \cup {"none"}, count : 0..6, bars : {0, 1}]
    <3>1. \A p \in Regime \cup {"none"}, n \in 0..6 :
             /\ [state EXCEPT !.pending = p, !.count = n].active = state.active
             /\ [state EXCEPT !.pending = p, !.count = n].pending = p
             /\ [state EXCEPT !.pending = p, !.count = n] \in
                   [active : Regime, pending : Regime \cup {"none"}, count : 0..6, bars : {0, 1}]
      BY <1>3
    <3>2. 0 \in 0..6 /\ "none" \in Regime \cup {"none"}
      OBVIOUS
    <3> QED
      BY <1>6, <3>1, <3>2
  <2>2. streak' \in Nat /\ calm' \in Nat
    BY <1>1, <1>2, <1>3
  <2>3. RegimeInv'
    BY <1>1, <1>2, <2>1, <2>2, RegimeOperators DEF RegimeInv, RegimeTypeOK, PendingIsStreak, RouteOfRegime
  <2> QED
    BY <1>6, <2>1, <2>3
<1>7. ASSUME NEW n, n = IF state.pending = r THEN state.count + 1 ELSE 1,
             ~(n >= Required(r)), r # state.active, r # "SHOCK", state.bars # 0,
             state' = [state EXCEPT !.pending = r, !.count = n]
      PROVE  RegimeInv' /\ state'.active = state.active
  <2>1. n \in 0..6 /\ n < Required(r)
    BY <1>1, <1>3, <1>7
  <2>2. /\ state'.active = state.active /\ state'.pending = r /\ state'.count = n
        /\ state'.bars = state.bars
        /\ state' \in [active : Regime, pending : Regime \cup {"none"}, count : 0..6, bars : {0, 1}]
    BY <1>1, <1>3, <1>7, <2>1
  <2>3. n = streak'
    <3>1. CASE r = last
      <4>1. state.active # last /\ state.pending = last /\ state.count = streak
        BY <1>7, <3>1 DEF RegimeInv, PendingIsStreak
      <4> QED
        BY <1>1, <1>2, <1>3, <1>7, <2>1, <3>1, <4>1
    <3>2. CASE r # last
      <4>1. state.pending # r
        BY <1>1, <3>2 DEF RegimeInv, PendingIsStreak
      <4> QED
        BY <1>2, <1>7, <3>2, <4>1
    <3> QED
      BY <3>1, <3>2
  <2>4. RegimeTypeOK'
    <3>1. streak' \in Nat /\ calm' \in Nat
      BY <1>1, <1>2, <1>3, <2>1, <2>3
    <3> QED
      BY <1>1, <1>2, <1>3, <2>2, <3>1, RegimeOperators DEF RegimeTypeOK
  <2>5. PendingIsStreak'
    BY <1>2, <1>3, <1>7, <2>1, <2>2, <2>3 DEF PendingIsStreak
  <2>6. RouteOfRegime'
    BY <1>2, <1>3, <2>2, RegimeOperators DEF RouteOfRegime
  <2> QED
    BY <2>2, <2>4, <2>5, <2>6 DEF RegimeInv
<1> QED
  BY <1>4, <1>5, <1>6, <1>7

\* A streak since the last SHOCK is no longer than the calm, so that another regime
\* is not adopted before the calm has lasted.
CalmIsLong ==
    /\ last = "SHOCK" <=> calm = 0
    /\ calm < Longest => state.bars > 0 /\ (last # "SHOCK" => streak <= calm)
    /\ calm < ConfirmBars => state.active = "SHOCK"

LEMMA CalmStep ==
    ASSUME RegimeInv, CalmIsLong, NEW m \in Market, NewBar(m)
    PROVE  CalmIsLong'
<1> DEFINE r == Candidate(m)
<1>1. /\ r \in Regime /\ Required(r) \in 1..6 /\ Longest \in 2..6
      /\ ConfirmBars \in 1..6 /\ ConfirmBars <= Longest /\ ConfirmBars <= Required(r)
  BY RegimeOperators, RegimeAssumption DEF Longest, Most, Required
<1>2. /\ state' = Advanced(state, r) /\ last' = r
      /\ streak' = IF r # last THEN 1 ELSE IF streak < Longest THEN streak + 1 ELSE streak
      /\ calm' = IF r = "SHOCK" THEN 0 ELSE IF calm < Longest THEN calm + 1 ELSE calm
  BY DEF NewBar, Another
<1>3. /\ state \in [active : Regime, pending : Regime \cup {"none"}, count : 0..6, bars : {0, 1}]
      /\ last \in Regime /\ streak \in Nat /\ calm \in Nat
  BY DEF RegimeInv, RegimeTypeOK
<1>4. state'.active # state.active /\ state.bars > 0 /\ state'.active # "SHOCK"
         => streak' >= Required(r)
  BY <1>2, BarStep
<1> HIDE DEF r
<1>5. state'.bars > 0
  <2>1. \A p \in Regime \cup {"none"}, n \in Int :
           [state EXCEPT !.pending = p, !.count = n].bars = state.bars
    BY <1>3
  <2> QED
    BY <1>1, <1>2, <1>3, <2>1 DEF Advanced, AtOnce, Agrees, Settles
<1>6. r = "SHOCK" => state'.active = "SHOCK"
  BY <1>2 DEF Advanced, AtOnce, Settles
<1>7. last' = "SHOCK" <=> calm' = 0
  BY <1>1, <1>2, <1>3 DEF CalmIsLong
<1>8. calm' < Longest /\ last' # "SHOCK" => streak' <= calm'
  BY <1>1, <1>2, <1>3 DEF CalmIsLong
<1>9. ASSUME calm' < ConfirmBars PROVE state'.active = "SHOCK"
  <2>1. CASE r = "SHOCK"
    BY <1>6, <2>1
  <2>2. CASE r # "SHOCK"
    <3>1. calm < ConfirmBars /\ calm' < Longest
      BY <1>1, <1>2, <1>3, <1>9, <2>2
    <3>2. state.active = "SHOCK" /\ state.bars > 0
      BY <1>1, <1>3, <3>1 DEF CalmIsLong
    <3>3. streak' < Required(r) /\ streak' \in Int
      BY <1>1, <1>2, <1>3, <1>8, <1>9, <2>2, <3>1
    <3> QED
      BY <1>1, <1>4, <3>2, <3>3
  <2> QED
    BY <2>1, <2>2
<1> QED
  BY <1>5, <1>7, <1>8, <1>9 DEF CalmIsLong

\* Another snapshot of the bar only routes.
LEMMA SameBarStep ==
    ASSUME RegimeInv, NEW m \in Market, SameBar(m)
    PROVE  RegimeInv' /\ (CalmIsLong => CalmIsLong')
  BY RegimeOperators DEF SameBar, RegimeInv, RegimeTypeOK, PendingIsStreak, RouteOfRegime, CalmIsLong

\* The active regime follows the market as fast as the confirmations allow, no
\* other is adopted on fewer bars in a row than it requires, and the scanner finds
\* no new signal soon after a SHOCK (RegimeEngineV2.evaluate_snapshot).
THEOREM RegimeFollowsTheMarket ==
    RegimeInit /\ [][RegimeNext]_regimeVars => RegimeIsSteady
<1>1. RegimeInit => RegimeInv /\ CalmIsLong
  BY RegimeOperators, RegimeAssumption
     DEF RegimeInit, RegimeInv, RegimeTypeOK, PendingIsStreak, RouteOfRegime, CalmIsLong,
         Blocked, Regime, Longest, Most
<1>2. RegimeInv /\ CalmIsLong /\ [RegimeNext]_regimeVars => RegimeInv' /\ CalmIsLong'
  <2> SUFFICES ASSUME RegimeInv, CalmIsLong, [RegimeNext]_regimeVars
               PROVE  RegimeInv' /\ CalmIsLong'
    OBVIOUS
  <2>1. CASE UNCHANGED regimeVars
    BY <2>1 DEF regimeVars, RegimeInv, RegimeTypeOK, PendingIsStreak, RouteOfRegime, CalmIsLong
  <2>2. CASE RegimeNext
    BY <2>2, BarStep, CalmStep, SameBarStep DEF RegimeNext
  <2> QED
    BY <2>1, <2>2
<1>3. RegimeInv /\ CalmIsLong => RegimeTypeOK /\ FollowsTheBars /\ NoSignalAfterShock
  <2> SUFFICES ASSUME RegimeInv, CalmIsLong PROVE FollowsTheBars /\ NoSignalAfterShock
    BY DEF RegimeInv
  <2>1. FollowsTheBars
    <3>1. Required(last) \in Int /\ streak \in Int
      BY RegimeOperators DEF RegimeInv, RegimeTypeOK
    <3> QED
      BY <3>1 DEF RegimeInv, PendingIsStreak, FollowsTheBars
  <2>2. NoSignalAfterShock
    BY DEF RegimeInv, CalmIsLong, RouteOfRegime, NoSignalAfterShock
  <2> QED
    BY <2>1, <2>2
<1>4. RegimeInv /\ [RegimeNext]_regimeVars =>
        [state'.active # state.active /\ state.bars > 0 /\ state'.active # "SHOCK"
            => last' = state'.active /\ streak' >= Required(last')]_regimeVars
  <2> SUFFICES ASSUME RegimeInv, RegimeNext, state'.active # state.active, state.bars > 0,
                      state'.active # "SHOCK"
               PROVE  last' = state'.active /\ streak' >= Required(last')
    BY DEF regimeVars
  <2>1. PICK m \in Market : NewBar(m) \/ SameBar(m)
    BY DEF RegimeNext
  <2>2. NewBar(m)
    BY <2>1 DEF SameBar
  <2> QED
    BY <2>2, BarStep
<1> QED
  BY <1>1, <1>2, <1>3, <1>4, PTL DEF RegimeIsSteady, ChangeIsConfirmed

-----------------------------------------------------------------------------
(* The outbox.                                                              *)

\* The rows of a pass are different ones, and those to come are still pending.
BatchIsPending ==
    /\ \A i \in 1..Len(batch) : rows[batch[i]].status = "pending"
    /\ \A i, j \in 1..Len(batch) : batch[i] = batch[j] => i = j
    /\ deliver = "idle" <=> batch = <<>>

\* A message that was received is marked, about to be marked, or in doubt.
ReceivedIsKnown ==
    /\ deliver = "mark" => received[First] > 0
    /\ \A e \in Event :
          received[e] > 0 =>
             \/ rows[e].status = "sent" \/ e \in doubt
             \/ deliver = "mark" /\ e = First

OutboxInv == SentIsReceived /\ BatchIsPending /\ ReceivedIsKnown /\ IsFiniteSet(Pending)

\* Rows stay rows, and only a mark changes their status.
LEMMA RowOperators ==
    /\ LongAgo \in Int /\ LongAgo < 0 /\ MaxBackoff \in Nat
    /\ Row("none") \in Rows /\ Row("pending") \in Rows
    /\ Row("none").status = "none" /\ Row("pending").status = "pending"
    /\ \A r \in Rows :
          /\ \A s \in {"none", "pending", "sent"} :
                [r EXCEPT !.status = s] \in Rows /\ [r EXCEPT !.status = s].status = s
          /\ BackedOff(r) \in Rows /\ BackedOff(r).status = r.status
          /\ Sooner(r) \in Rows /\ Sooner(r).status = r.status
<1>1. LongAgo \in Int /\ LongAgo < 0 /\ MaxBackoff \in Nat
  BY OutboxAssumption DEF LongAgo
<1>2. Row("none") \in Rows /\ Row("pending") \in Rows
  BY <1>1 DEF Row, Rows
<1>3. Row("none").status = "none" /\ Row("pending").status = "pending"
  BY DEF Row
<1>4. ASSUME NEW r \in Rows, NEW s \in {"none", "pending", "sent"}
      PROVE  [r EXCEPT !.status = s] \in Rows /\ [r EXCEPT !.status = s].status = s
  BY DEF Rows
<1>5. ASSUME NEW r \in Rows, NEW n \in 0..MaxBackoff, NEW d \in LongAgo..MaxBackoff
      PROVE  /\ [r EXCEPT !.attempts = n, !.due = d] \in Rows
             /\ [r EXCEPT !.attempts = n, !.due = d].status = r.status
  BY DEF Rows
<1>6. ASSUME NEW r \in Rows
      PROVE  BackedOff(r) \in Rows /\ BackedOff(r).status = r.status
  <2> DEFINE n == IF r.attempts < MaxBackoff THEN r.attempts + 1 ELSE r.attempts
  <2>1. n \in 0..MaxBackoff /\ n \in LongAgo..MaxBackoff
    BY <1>1 DEF Rows
  <2>2. BackedOff(r) = [r EXCEPT !.attempts = n, !.due = n]
    BY DEF BackedOff
  <2> HIDE DEF n
  <2>3. /\ [r EXCEPT !.attempts = n, !.due = n] \in Rows
        /\ [r EXCEPT !.attempts = n, !.due = n].status = r.status
    BY <1>5, <2>1
  <2> QED
    BY <2>2, <2>3
<1>7. ASSUME NEW r \in Rows
      PROVE  Sooner(r) \in Rows /\ Sooner(r).status = r.status
  <2>1. CASE r.status # "pending" \/ r.due = LongAgo
    BY <2>1 DEF Sooner
  <2>2. CASE ~(r.status # "pending" \/ r.due = LongAgo)
    <3>1. r.due - 1 \in LongAgo..MaxBackoff
      BY <1>1, <2>2 DEF Rows
    <3>2. \A d \in LongAgo..MaxBackoff :
             [r EXCEPT !.due = d] \in Rows /\ [r EXCEPT !.due = d].status = r.status
      BY DEF Rows
    <3>3. Sooner(r) = [r EXCEPT !.due = r.due - 1]
      BY <2>2 DEF Sooner
    <3> QED
      BY <3>1, <3>2, <3>3
  <2> QED
    BY <2>1, <2>2
<1> QED
  BY <1>1, <1>2, <1>3, <1>4, <1>6, <1>7

\* A pass that goes on with its next row.
LEMMA RestStep ==
    ASSUME OutboxInv, batch # <<>>, Rest
    PROVE  /\ First \in Event /\ rows[First].status = "pending"
           /\ batch' \in Seq(Event) /\ Len(batch') <= Limit
           /\ deliver' \in {"idle", "next"} /\ (deliver' = "idle" <=> batch' = <<>>)
           /\ \A i \in 1..Len(batch') : batch'[i] # First /\ rows[batch'[i]].status = "pending"
           /\ \A i, j \in 1..Len(batch') : batch'[i] = batch'[j] => i = j
<1>1. /\ batch \in Seq(Event) /\ Len(batch) <= Limit /\ Limit \in Nat
      /\ \A i \in 1..Len(batch) : rows[batch[i]].status = "pending"
      /\ \A i, j \in 1..Len(batch) : batch[i] = batch[j] => i = j
  BY OutboxAssumption DEF OutboxInv, SentIsReceived, OutboxTypeOK, BatchIsPending
<1>2. /\ Len(batch) \in Nat \ {0} /\ First = batch[1] /\ First \in Event
      /\ batch' \in Seq(Event) /\ Len(batch') = Len(batch) - 1
      /\ \A i \in 1..Len(batch') : batch'[i] = batch[i + 1]
  BY <1>1 DEF Rest, First
<1>3. deliver' \in {"idle", "next"} /\ (deliver' = "idle" <=> batch' = <<>>)
  BY DEF Rest
<1>4. 1 \in 1..Len(batch) /\ \A i \in 1..Len(batch') : i + 1 \in 1..Len(batch) /\ i + 1 # 1
  BY <1>2
<1>5. \A i \in 1..Len(batch') : batch'[i] # First /\ rows[batch'[i]].status = "pending"
  BY <1>1, <1>2, <1>4
<1>6. ASSUME NEW i \in 1..Len(batch'), NEW j \in 1..Len(batch'), batch'[i] = batch'[j]
      PROVE  i = j
  <2>1. i + 1 = j + 1
    BY <1>1, <1>2, <1>4, <1>6
  <2> QED
    BY <1>2, <2>1
<1>7. rows[First].status = "pending" /\ Len(batch') <= Limit
  BY <1>1, <1>2, <1>4
<1> QED
  BY <1>2, <1>3, <1>5, <1>6, <1>7

\* Pending rows are finitely many: one is added at a time.
LEMMA PendingStays ==
    ASSUME OutboxInv, NEW e, \A x \in Event \ {e} : rows'[x].status = rows[x].status
    PROVE  IsFiniteSet(Pending')
<1>1. Pending' \subseteq Pending \cup {e} /\ IsFiniteSet(Pending)
  BY DEF OutboxInv, Pending
<1>2. IsFiniteSet(Pending \cup {e})
  BY <1>1, FS_AddElement
<1> QED
  BY <1>1, <1>2, FS_Subset

\* Every step of the outbox keeps the invariant.
LEMMA OutboxStep ==
    ASSUME OutboxInv, OutboxNext
    PROVE  OutboxInv'
<1> USE OutboxAssumption
<1>0. /\ rows \in [Event -> Rows] /\ batch \in Seq(Event) /\ Len(batch) <= Limit
      /\ deliver \in {"idle", "next", "mark", "retry"} /\ crashes \in 0..MaxCrashes
      /\ received \in [Event -> 0..2] /\ doubt \subseteq Event
      /\ Limit \in Nat /\ MaxCrashes \in Nat
  BY DEF OutboxInv, SentIsReceived, OutboxTypeOK
<1>1. \A e \in Event :
        /\ rows[e].status = "sent" => received[e] > 0
        /\ received[e] > 1 => e \in doubt
  BY DEF OutboxInv, SentIsReceived
<1>2. deliver # "idle" => batch # <<>> /\ First \in Event /\ rows[First].status = "pending"
  BY <1>0 DEF OutboxInv, BatchIsPending, First
<1>3. deliver = "idle" => batch = <<>>
  BY DEF OutboxInv, BatchIsPending
<1> USE DEF SentIsReceived, BatchIsPending, ReceivedIsKnown
\* Steps that leave the rows as they are, with what else may not change.
<1>4. ASSUME UNCHANGED <<rows, crashes>>
      PROVE  IsFiniteSet(Pending')
  BY <1>4, PendingStays
<1>5. ASSUME NEW e \in Event, Enqueue(e) PROVE OutboxInv'
  <2>1. /\ rows' \in [Event -> Rows]
        /\ \A x \in Event :
              \/ rows'[x].status = rows[x].status
              \/ x = e /\ rows[x].status = "none" /\ rows'[x].status = "pending"
    <3>1. Row("pending") \in Rows /\ Row("pending").status = "pending"
      BY RowOperators
    <3>2. CASE rows[e].status = "none"
      <4>1. rows' = [rows EXCEPT ![e] = Row("pending")]
        BY <1>5, <3>2 DEF Enqueue, Queued
      <4> QED
        BY <1>0, <3>1, <3>2, <4>1
    <3>3. CASE rows[e].status # "none"
      BY <1>0, <1>5, <3>3 DEF Enqueue, Queued
    <3> QED
      BY <3>2, <3>3
  <2>2. IsFiniteSet(Pending')
    BY <2>1, PendingStays
  <2>3. UNCHANGED <<crashes, batch, deliver, received, doubt>>
    BY <1>5 DEF Enqueue
  <2>4. \A i \in 1..Len(batch) : rows'[batch[i]].status = "pending"
    BY <1>0, <2>1 DEF OutboxInv
  <2>5. BatchIsPending'
    BY <2>3, <2>4 DEF OutboxInv
  <2>6. SentIsReceived'
    BY <1>0, <1>1, <2>1, <2>3 DEF OutboxTypeOK
  <2>7. ReceivedIsKnown'
    BY <1>2, <2>1, <2>3 DEF OutboxInv, First
  <2> QED
    BY <2>2, <2>5, <2>6, <2>7 DEF OutboxInv
<1>6. ASSUME Read PROVE OutboxInv'
  <2>1. /\ deliver = "idle" /\ UNCHANGED <<crashes, rows, received, doubt>>
        /\ deliver' = IF batch' = <<>> THEN "idle" ELSE "next"
    BY <1>6 DEF Read
  <2> DEFINE n == IF Cardinality(Pending) < Limit THEN Cardinality(Pending) ELSE Limit
  <2>2. n \in Nat /\ n <= Limit
    BY <1>0, FS_CardinalityType DEF OutboxInv
  <2>3. PICK s \in [1..n -> Pending] : /\ \A i, j \in 1..n : s[i] = s[j] => i = j
                                      /\ batch' = s
    BY <1>6 DEF Read
  <2> HIDE DEF n
  <2>4. \A e \in Pending : e \in Event /\ rows[e].status = "pending"
    BY DEF Pending
  <2>5. s \in [1..n -> Event]
    BY <2>3, <2>4
  <2>6. s \in Seq(Event) /\ Len(s) = n
    BY <2>2, <2>5
  <2>7. BatchIsPending'
    BY <2>1, <2>3, <2>4, <2>6
  <2>8. SentIsReceived'
    BY <1>0, <1>1, <2>1, <2>2, <2>3, <2>6 DEF OutboxTypeOK
  <2>9. ReceivedIsKnown'
    BY <2>1 DEF OutboxInv
  <2> QED
    BY <1>4, <2>1, <2>7, <2>8, <2>9 DEF OutboxInv
<1>7. ASSUME Skip PROVE OutboxInv'
  <2>1. deliver = "next" /\ Rest /\ UNCHANGED <<crashes, rows, received, doubt>>
    BY <1>7 DEF Skip
  <2>2. BatchIsPending'
    BY <1>2, <2>1, RestStep
  <2>3. SentIsReceived'
    BY <1>0, <1>1, <1>2, <2>1, RestStep DEF OutboxTypeOK
  <2>4. ReceivedIsKnown'
    BY <1>2, <2>1, RestStep DEF OutboxInv
  <2> QED
    BY <1>4, <2>1, <2>2, <2>3, <2>4 DEF OutboxInv
<1>8. ASSUME SendOk \/ SendRaises PROVE OutboxInv'
  <2>1. /\ deliver = "next" /\ deliver' \in {"mark", "retry"} /\ UNCHANGED <<crashes, rows, batch>>
        /\ \/ UNCHANGED <<received, doubt>> /\ deliver' = "retry"
           \/ /\ received' = [received EXCEPT ![First] = More(@)]
              /\ \/ deliver' = "mark" /\ doubt' = doubt
                 \/ deliver' = "retry" /\ doubt' = doubt \cup {First}
    BY <1>8 DEF SendOk, SendRaises
  <2>2. \A k \in 0..2 : More(k) \in 1..2 /\ (More(k) > 1 => k > 0)
    BY DEF More
  <2>3. /\ received' \in [Event -> 0..2]
        /\ \A e \in Event \ {First} : received'[e] = received[e]
        /\ received'[First] = received[First] \/ (received'[First] > 0
                                  /\ (received'[First] > 1 => received[First] > 0))
        /\ deliver' = "mark" => received'[First] > 0
        /\ deliver' = "retry" => received' = received \/ First \in doubt'
    <3>1. received[First] \in 0..2 /\ More(received[First]) \in 1..2
          /\ (More(received[First]) > 1 => received[First] > 0)
      BY <1>0, <1>2, <2>1, <2>2
    <3>2. CASE received' = [received EXCEPT ![First] = More(received[First])]
      <4> DEFINE k == More(received[First])
      <4> HIDE DEF k
      <4>1. k \in 1..2 /\ (k > 1 => received[First] > 0)
        BY <3>1 DEF k
      <4>2. received' = [received EXCEPT ![First] = k]
        BY <3>2 DEF k
      <4>3. First \in Event
        BY <1>2, <2>1
      <4>4. received'[First] = k /\ received' \in [Event -> 0..2]
            /\ \A e \in Event \ {First} : received'[e] = received[e]
        BY <1>0, <4>1, <4>2, <4>3
      <4>5. deliver' = "retry" => received' = received \/ First \in doubt'
        BY <2>1
      <4> QED
        BY <4>1, <4>4, <4>5
    <3>3. CASE UNCHANGED <<received, doubt>> /\ deliver' = "retry"
      BY <1>0, <3>3
    <3> QED
      BY <2>1, <3>2, <3>3
  <2>4. First' = First
    BY <2>1 DEF First
  <2>5. SentIsReceived'
    BY <1>0, <1>1, <1>2, <2>1, <2>3 DEF OutboxTypeOK, OutboxInv
  <2>6. ReceivedIsKnown'
    BY <1>0, <1>2, <2>1, <2>3, <2>4 DEF OutboxInv
  <2>7. BatchIsPending'
    BY <1>2, <2>1 DEF OutboxInv
  <2> QED
    BY <1>4, <2>1, <2>5, <2>6, <2>7 DEF OutboxInv
<1>9. ASSUME Mark PROVE OutboxInv'
  <2>1. /\ deliver = "mark" /\ rows' = [rows EXCEPT ![First].status = "sent"]
        /\ Rest /\ UNCHANGED <<crashes, received, doubt>>
    BY <1>9 DEF Mark
  <2>2. /\ rows' \in [Event -> Rows] /\ rows'[First].status = "sent"
        /\ \A e \in Event \ {First} : rows'[e].status = rows[e].status
    BY <1>0, <1>2, <2>1, RowOperators
  <2>3. IsFiniteSet(Pending')
    BY <2>2, PendingStays
  <2>4. \A i \in 1..Len(batch') : batch'[i] \in Event \ {First}
    BY <1>2, <2>1, RestStep
  <2>5. BatchIsPending'
    BY <1>2, <2>1, <2>2, <2>4, RestStep
  <2>6. SentIsReceived'
    BY <1>0, <1>1, <1>2, <2>1, <2>2, RestStep DEF OutboxTypeOK, OutboxInv
  <2>7. ReceivedIsKnown'
    BY <1>2, <2>1, <2>2, RestStep DEF OutboxInv
  <2> QED
    BY <2>3, <2>5, <2>6, <2>7 DEF OutboxInv
<1>10. ASSUME MarkRaises PROVE OutboxInv'
  <2>1. /\ deliver = "mark" /\ deliver' = "retry" /\ doubt' = doubt \cup {First}
        /\ UNCHANGED <<crashes, rows, batch, received>>
    BY <1>10 DEF MarkRaises
  <2>2. SentIsReceived'
    BY <1>0, <1>1, <1>2, <2>1 DEF OutboxTypeOK
  <2>3. BatchIsPending' /\ ReceivedIsKnown'
    BY <1>2, <2>1 DEF OutboxInv
  <2> QED
    BY <1>4, <2>1, <2>2, <2>3 DEF OutboxInv
<1>11. ASSUME Retry PROVE OutboxInv'
  <2>1. /\ deliver = "retry" /\ rows' = [rows EXCEPT ![First] = BackedOff(@)]
        /\ Rest /\ UNCHANGED <<crashes, received, doubt>>
    BY <1>11 DEF Retry
  <2>2. rows' \in [Event -> Rows] /\ \A e \in Event : rows'[e].status = rows[e].status
    <3>1. First \in Event /\ rows[First] \in Rows
      BY <1>0, <1>2, <2>1
    <3>2. BackedOff(rows[First]) \in Rows /\ BackedOff(rows[First]).status = rows[First].status
      BY <3>1, RowOperators
    <3>3. rows' = [rows EXCEPT ![First] = BackedOff(rows[First])]
      BY <2>1
    <3> QED
      BY <1>0, <3>1, <3>2, <3>3
  <2>3. IsFiniteSet(Pending')
    BY <2>2, PendingStays
  <2>4. \A i \in 1..Len(batch') : batch'[i] \in Event
    BY <1>2, <2>1, RestStep
  <2>5. BatchIsPending'
    BY <1>2, <2>1, <2>2, <2>4, RestStep
  <2>6. SentIsReceived'
    BY <1>0, <1>1, <1>2, <2>1, <2>2, RestStep DEF OutboxTypeOK
  <2>7. ReceivedIsKnown'
    BY <1>2, <2>1, <2>2, RestStep DEF OutboxInv
  <2> QED
    BY <2>3, <2>5, <2>6, <2>7 DEF OutboxInv
<1>12. ASSUME Abort \/ Crash PROVE OutboxInv'
  <2>1. /\ deliver # "idle" /\ batch' = <<>> /\ deliver' = "idle" /\ UNCHANGED <<rows, received>>
        /\ crashes' \in 0..MaxCrashes
        /\ doubt' = IF deliver = "mark" THEN doubt \cup {First} ELSE doubt
    BY <1>0, <1>12 DEF Abort, Crash
  <2>2. IsFiniteSet(Pending')
    BY <2>1, PendingStays
  <2>3. BatchIsPending'
    BY <2>1
  <2>4. SentIsReceived'
    BY <1>0, <1>1, <1>2, <2>1 DEF OutboxTypeOK
  <2>5. ReceivedIsKnown'
    BY <2>1 DEF OutboxInv
  <2> QED
    BY <2>2, <2>3, <2>4, <2>5 DEF OutboxInv
<1>13. ASSUME OutboxTick PROVE OutboxInv'
  <2>1. UNCHANGED <<crashes, batch, deliver, received, doubt>>
    BY <1>13 DEF OutboxTick
  <2>2. rows' \in [Event -> Rows] /\ \A e \in Event : rows'[e].status = rows[e].status
    BY <1>0, <1>13, RowOperators DEF OutboxTick
  <2>3. IsFiniteSet(Pending')
    BY <2>2, PendingStays
  <2>4. BatchIsPending'
    BY <1>0, <2>1, <2>2 DEF OutboxInv
  <2>5. SentIsReceived'
    BY <1>0, <1>1, <2>1, <2>2 DEF OutboxTypeOK
  <2>6. ReceivedIsKnown'
    BY <2>1, <2>2 DEF OutboxInv, First
  <2> QED
    BY <2>3, <2>4, <2>5, <2>6 DEF OutboxInv
<1> QED
  BY <1>5, <1>6, <1>7, <1>8, <1>9, <1>10, <1>11, <1>12, <1>13 DEF OutboxNext, Deliver

\* What is marked as sent was received, and received twice only after a call whose
\* outcome was lost (TelegramTradeNotifier.deliver_pending).
THEOREM SentWasReceived == OutboxInit /\ [][OutboxNext]_outboxVars => []SentIsReceived
<1>1. OutboxInit => OutboxInv
  <2> SUFFICES ASSUME OutboxInit PROVE OutboxInv
    OBVIOUS
  <2>1. Pending = {}
    BY RowOperators DEF OutboxInit, Pending
  <2>2. IsFiniteSet(Pending)
    BY <2>1, FS_EmptySet
  <2>3. 0 \in 0..MaxCrashes /\ Len(<<>>) <= Limit
    BY OutboxAssumption
  <2>4. SentIsReceived
    BY <2>3, RowOperators DEF OutboxInit, SentIsReceived, OutboxTypeOK
  <2>5. BatchIsPending /\ ReceivedIsKnown
    BY DEF OutboxInit, BatchIsPending, ReceivedIsKnown
  <2> QED
    BY <2>2, <2>4, <2>5 DEF OutboxInv
<1>2. OutboxInv /\ [OutboxNext]_outboxVars => OutboxInv'
  <2>1. OutboxInv /\ UNCHANGED outboxVars => OutboxInv'
    BY DEF outboxVars, OutboxInv, SentIsReceived, OutboxTypeOK, BatchIsPending, ReceivedIsKnown,
           First, Pending
  <2> QED
    BY <2>1, OutboxStep
<1>3. OutboxInv => SentIsReceived
  BY DEF OutboxInv
<1> QED
  BY <1>1, <1>2, <1>3, PTL

-----------------------------------------------------------------------------
(* The setups.                                                              *)

\* What a plan promises about the trade, whatever price it is entered at.
SoundPlan(c) ==
    /\ c.strategy \in Strategies
    /\ c.signal \in Int /\ c.stop \in Int /\ c.target \in Int /\ c.minrr \in Int
    /\ \A b \in c.swings : b > c.signal => c.target < b
    /\ c.strategy = "BREAKOUT_RETEST" =>
          c.signal - c.stop <= 180 /\ c.target - c.signal <= 160 /\ c.minrr >= 920

SetupsInv ==
    /\ SetupsSafe
    /\ phase = "watching" => setup.strategy \in Strategies
    /\ phase = "armed" => SoundPlan(setup)

\* The same for integers above a bound.
LEMMA LeastAbove ==
    ASSUME NEW S, S \subseteq Int, S # {}, NEW p \in Int, \A x \in S : x > p
    PROVE  \E m \in S : \A x \in S : m <= x
<1> DEFINE T == {x - p : x \in S}
<1>1. T \subseteq Nat /\ T # {}
  <2>1. PICK y \in S : TRUE
    OBVIOUS
  <2>2. y - p \in T /\ \A x \in S : x - p \in Nat
    OBVIOUS
  <2> QED
    BY <2>2
<1>2. PICK n \in T : \A y \in T : n <= y
  BY <1>1, LeastExists
<1>3. PICK m \in S : n = m - p
  BY <1>2
<1>4. \A x \in S : m - p <= x - p
  BY <1>2, <1>3
<1> QED
  BY <1>3, <1>4

\* Max finds the greatest of some positions.
LEMMA GreatestOf ==
    ASSUME NEW n \in Nat, NEW S, S \subseteq 1..n, S # {}
    PROVE  Max(S) \in S
<1> DEFINE T == {n - x : x \in S}
<1>1. T \subseteq Nat /\ T # {}
  <2>1. PICK y \in S : TRUE
    OBVIOUS
  <2>2. n - y \in T /\ \A x \in S : n - x \in Nat
    OBVIOUS
  <2> QED
    BY <2>2
<1>2. PICK k \in T : \A y \in T : k <= y
  BY <1>1, LeastExists
<1>3. PICK m \in S : k = n - m
  BY <1>2
<1>4. \A x \in S : n - m <= n - x
  BY <1>2, <1>3
<1>5. \A x \in S : m >= x
  BY <1>4
<1> QED
  BY <1>3, <1>5 DEF Max

\* Min finds the least of integers above a bound.
LEMMA LeastOf ==
    ASSUME NEW S, S \subseteq Int, S # {}, NEW p \in Int, \A x \in S : x > p
    PROVE  Min(S) \in S /\ \A x \in S : Min(S) <= x
  BY LeastAbove DEF Min

Target == [at : Int, ratio : {97, 99, 100}]

\* The nearest target ahead is one of them, and of two at its price the first.
LEMMA NearestIsAhead ==
    ASSUME NEW price \in Int, NEW C, C \subseteq Target, Ahead(price, C) # {}
    PROVE  /\ Nearest(price, C) \in Ahead(price, C)
           /\ \A x \in Ahead(price, C) :
                 \/ Nearest(price, C).at < x.at
                 \/ Nearest(price, C).at = x.at /\ Nearest(price, C).ratio <= x.ratio
<1> DEFINE A == Ahead(price, C)
           P == {c.at : c \in A}
<1>1. \A c \in A : c \in C /\ c.at \in Int /\ c.ratio \in Nat /\ c.at > price
  BY DEF Ahead, Target
<1>2. P \subseteq Int /\ P # {} /\ \A x \in P : x > price
  BY <1>1
<1> HIDE DEF A
<1>3. PICK a \in P : \A x \in P : a <= x
  BY <1>2, LeastAbove
<1> DEFINE R == {c.ratio : c \in {x \in A : x.at = a}}
<1>4. R \subseteq Nat /\ R # {}
  BY <1>1, <1>3
<1>5. PICK r \in R : \A x \in R : r <= x
  BY <1>4, LeastExists
<1>6. PICK c \in A : c.at = a /\ c.ratio = r
  BY <1>5
<1>7. \A x \in A : c.at < x.at \/ (c.at = x.at /\ c.ratio <= x.ratio)
  BY <1>1, <1>3, <1>5, <1>6
<1> QED
  BY <1>6, <1>7 DEF Nearest, A

\* A target is in front of the price it stands for, unless it is the price itself.
LEMMA FrontRunStops ==
    ASSUME NEW price \in Int, NEW c \in Target, c.at > price
    PROVE  /\ FrontRun(price, c) \in Int /\ FrontRun(price, c) <= c.at
           /\ c.ratio # 100 => FrontRun(price, c) < c.at
<1> DEFINE d == c.at - price
<1>1. d \in Nat \ {0} /\ c.at = price + d
  BY DEF Target
<1>2. c.ratio \in {97, 99, 100}
  BY DEF Target
<1>3. FrontRun(price, c) = price + (d * c.ratio) \div 100
  BY DEF FrontRun
<1> HIDE DEF d
<1>4. CASE c.ratio = 97
  BY <1>1, <1>3, <1>4
<1>5. CASE c.ratio = 99
  BY <1>1, <1>3, <1>5
<1>6. CASE c.ratio = 100
  BY <1>1, <1>3, <1>6
<1> QED
  BY <1>2, <1>4, <1>5, <1>6

\* The candles of a market are numbers.
LEMMA MarketsType ==
    ASSUME NEW m \in Markets
    PROVE  /\ m.width \in Nat /\ m.strength \in 0..100 /\ m.quality \in 0..100
           /\ m.swings \subseteq Int
           /\ Len(m.bars) \in 1..MaxBars
           /\ \A i \in 1..Len(m.bars) : m.bars[i] \in [low : Int, close : Int, high : Int, solid : BOOLEAN]
           /\ Current(m) \in Int
<1>1. m.width \in Width /\ m.strength \in Strength /\ m.quality \in Quality /\ m.swings \in Swings
      /\ m.bars \in Bars
  BY DEF Markets
<1>2. PICK n \in 1..MaxBars : m.bars \in [1..n -> First5m \cup Later5m]
  BY <1>1 DEF Bars
<1>3. n \in Nat /\ n >= 1
  BY <1>2, SetupsAssumption
<1>4. Len(m.bars) = n
  BY <1>2, <1>3
<1>5. \A i \in 1..n : m.bars[i] \in [low : Int, close : Int, high : Int, solid : BOOLEAN]
  BY <1>2, SetupsAssumption
<1>6. n \in 1..n
  BY <1>3
<1>7. Current(m) \in Int
  BY <1>4, <1>5, <1>6 DEF Current
<1>8. m.width \in Nat /\ m.strength \in 0..100 /\ m.quality \in 0..100
  BY <1>1, SetupsAssumption
<1>9. m.swings \subseteq Int
  BY <1>1, SetupsAssumption
<1> QED
  BY <1>2, <1>4, <1>5, <1>7, <1>8, <1>9

\* The candidates of a breakout: its expansion is at most 1.6 ATR away.
LEMMA BreakoutTargetsBound ==
    ASSUME NEW price \in Int, NEW m \in Markets
    PROVE  /\ BreakoutTargets(price, m) \subseteq Target
           /\ \E c \in BreakoutTargets(price, m) : c.at <= price + 160 /\ c.at > price
           /\ \A b \in m.swings : b > price => [at |-> b, ratio |-> 97] \in BreakoutTargets(price, m)
<1>1. m.width \in Int /\ m.strength \in 0..100 /\ m.swings \subseteq Int
  BY MarketsType
<1> DEFINE w == (m.width * (3200 + 28 * m.strength)) \div 10000
           s == (8500 + 75 * m.strength) \div 100
           x == Expansion(m.width, m.strength)
<1>2. w \in Int
  <2>1. m.width * (3200 + 28 * m.strength) \in Int
    BY <1>1
  <2> QED
    BY <2>1
<1>3. s \in Int /\ s <= 160
  BY <1>1
<1>4. x \in Int /\ x <= 160 /\ x > 0
  <2>1. x = Greater(70, Lesser(Greater(70, w), s))
    BY DEF Expansion
  <2> HIDE DEF w, s, x
  <2> QED
    BY <1>2, <1>3, <2>1 DEF Greater, Lesser
<1> HIDE DEF x
<1>5. BreakoutTargets(price, m) = {[at |-> b, ratio |-> 97] : b \in {y \in m.swings : y > price}}
                                    \cup {[at |-> price + x, ratio |-> 100]}
  BY DEF BreakoutTargets, x
<1>6. BreakoutTargets(price, m) \subseteq Target
  BY <1>1, <1>4, <1>5 DEF Target
<1>7. [at |-> price + x, ratio |-> 100] \in BreakoutTargets(price, m)
      /\ [at |-> price + x, ratio |-> 100].at = price + x
  BY <1>5
<1> QED
  BY <1>1, <1>4, <1>5, <1>6, <1>7

\* The candidates of a sweep: the nearest swing is among them unless the mean is
\* nearer.
LEMMA SweepTargetsBound ==
    ASSUME NEW price \in Int, NEW m \in Markets
    PROVE  /\ SweepTargets(price, m) \subseteq Target
           /\ \A c \in SweepTargets(price, m) : c.ratio # 100
           /\ \A b \in m.swings : b > price =>
                \E c \in SweepTargets(price, m) :
                    c.at <= b /\ (c.at > price \/ \A x \in SweepTargets(price, m) : x.at <= price)
<1>1. m.width \in Int /\ m.strength \in 0..100 /\ m.swings \subseteq Int
  BY MarketsType
<1> DEFINE k == Clamp(56 + (20 * m.strength) \div 100, 56, 76)
           mean == (m.width * k) \div 100
           internal == {x \in m.swings : x > price}
           near == {x \in internal : x = Min(internal) /\ x <= mean}
           C == SweepTargets(price, m)
<1>2. mean \in Int
  <2>1. (20 * m.strength) \div 100 \in Int
    BY <1>1
  <2>2. k \in Int
    BY <2>1 DEF Clamp, Lesser, Greater
  <2> HIDE DEF k
  <2>3. m.width * k \in Int
    BY <1>1, <2>2
  <2> QED
    BY <2>3
<1>3. C = {[at |-> b, ratio |-> 97] : b \in near} \cup {[at |-> mean, ratio |-> 99]}
  BY DEF SweepTargets
<1> HIDE DEF mean, C
<1>4. C \subseteq Target /\ \A c \in C : c.ratio # 100
  <2>1. near \subseteq Int
    BY <1>1
  <2> HIDE DEF near
  <2>2. \A b \in Int : [at |-> b, ratio |-> 97] \in Target /\ [at |-> b, ratio |-> 97].ratio # 100
    BY DEF Target
  <2>3. [at |-> mean, ratio |-> 99] \in Target /\ [at |-> mean, ratio |-> 99].ratio # 100
    BY <1>2 DEF Target
  <2> QED
    BY <1>3, <2>1, <2>2, <2>3
<1>5. ASSUME NEW b \in m.swings, b > price
      PROVE  \E c \in C : c.at <= b /\ (c.at > price \/ \A x \in C : x.at <= price)
  <2> DEFINE n == Min(internal)
  <2>1. internal # {} /\ internal \subseteq Int /\ \A x \in internal : x > price
    BY <1>1, <1>5
  <2>2. n \in internal /\ \A x \in internal : n <= x
    BY <2>1, LeastOf
  <2>3. n \in Int /\ n > price /\ n <= b
    BY <1>1, <1>5, <2>2
  <2>4. CASE n <= mean
    <3>1. [at |-> n, ratio |-> 97] \in C
      BY <1>3, <2>2, <2>4
    <3> QED
      BY <2>3, <3>1
  <2>5. CASE n > mean
    <3>1. near = {}
      BY <1>2, <2>3, <2>5
    <3>2. C = {[at |-> mean, ratio |-> 99]}
      BY <1>3, <3>1
    <3> QED
      BY <1>1, <1>2, <2>3, <2>5, <3>2
  <2> QED
    BY <1>2, <2>3, <2>4, <2>5
<1> QED
  BY <1>4, <1>5 DEF C

\* A target lies before every swing ahead, and a breakout's within its expansion.
LEMMA TargetIsBefore ==
    ASSUME NEW strategy \in Strategies, NEW m \in Markets, NEW price \in Int,
           Ahead(price, Targets(strategy, price, m)) # {}
    PROVE  LET target == FrontRun(price, Nearest(price, Targets(strategy, price, m)))
           IN  /\ target \in Int
               /\ \A b \in m.swings : b > price => target < b
               /\ strategy = "BREAKOUT_RETEST" => target <= price + 160
<1> DEFINE C == Targets(strategy, price, m)
           near == Nearest(price, C)
           target == FrontRun(price, near)
<1>1. m.swings \subseteq Int
  BY MarketsType
<1>2. C \subseteq Target
  BY BreakoutTargetsBound, SweepTargetsBound DEF Targets
<1>3. /\ near \in Ahead(price, C)
      /\ \A x \in Ahead(price, C) :
            near.at < x.at \/ (near.at = x.at /\ near.ratio <= x.ratio)
  BY <1>2, NearestIsAhead
<1>4. near \in Target /\ near.at > price /\ near.at \in Int /\ near.ratio \in {97, 99, 100}
  BY <1>2, <1>3 DEF Ahead, Target
<1>5. \A x \in C : x.at > price => x \in Ahead(price, C)
  BY DEF Ahead
<1> HIDE DEF near
<1>6. target \in Int /\ target <= near.at /\ (near.ratio # 100 => target < near.at)
  BY <1>4, FrontRunStops
<1> HIDE DEF target
<1>7. CASE strategy = "BREAKOUT_RETEST"
  <2>1. C = BreakoutTargets(price, m)
    BY <1>7 DEF Targets
  <2> HIDE DEF C
  <2>2. PICK c \in C : c.at <= price + 160 /\ c.at > price
    BY <2>1, BreakoutTargetsBound
  <2>3. c.at \in Int /\ near.at <= c.at
    <3>1. c \in Ahead(price, C) /\ c \in Target
      BY <1>2, <1>5, <2>2
    <3>2. c.at \in Int
      BY <3>1 DEF Target
    <3> QED
      BY <1>3, <1>4, <3>1, <3>2
  <2>4. target <= price + 160
    BY <1>4, <1>6, <2>2, <2>3
  <2>5. ASSUME NEW b \in m.swings, b > price PROVE target < b
    <3>1. [at |-> b, ratio |-> 97] \in C /\ b \in Int
      BY <1>1, <2>1, <2>5, BreakoutTargetsBound
    <3>2. near.at < b \/ (near.at = b /\ near.ratio <= 97)
      BY <1>3, <1>5, <2>5, <3>1
    <3> QED
      BY <1>4, <1>6, <3>1, <3>2
  <2> QED
    BY <1>6, <2>4, <2>5 DEF C, near, target
<1>8. CASE strategy # "BREAKOUT_RETEST"
  <2>1. C = SweepTargets(price, m)
    BY <1>8 DEF Targets
  <2> HIDE DEF C
  <2>2. near \in C /\ target < near.at
    <3>1. near \in C
      BY <1>3 DEF Ahead
    <3>2. near.ratio # 100
      BY <2>1, <3>1, SweepTargetsBound
    <3> QED
      BY <1>6, <3>1, <3>2
  <2>3. ASSUME NEW b \in m.swings, b > price PROVE target < b
    <3>1. PICK c \in C : c.at <= b /\ (c.at > price \/ \A x \in C : x.at <= price)
      BY <2>1, <2>3, SweepTargetsBound
    <3>2. c.at \in Int /\ b \in Int /\ c.at > price
      BY <1>1, <1>2, <1>4, <2>2, <3>1 DEF Target
    <3>3. near.at <= c.at
      BY <1>3, <1>4, <1>5, <3>2
    <3> QED
      BY <1>4, <1>6, <2>2, <3>1, <3>2, <3>3
  <2> QED
    BY <1>6, <1>8, <2>3 DEF C, near, target
<1> QED
  BY <1>7, <1>8

\* A plan that is ready keeps its promise.
LEMMA PlanIsSound ==
    ASSUME NEW strategy \in Strategies, NEW m \in Markets, NEW stage, NEW raw \in Int,
           NEW trigger, NEW invalid,
           Planned(strategy, m, stage, raw, trigger, invalid).stage = "READY"
    PROVE  stage = "READY" /\ SoundPlan(Planned(strategy, m, stage, raw, trigger, invalid))
<1> DEFINE c == Planned(strategy, m, stage, raw, trigger, invalid)
           price == Current(m)
           stop == StopFor(price, raw)
           candidates == Targets(strategy, price, m)
           target == FrontRun(price, Nearest(price, candidates))
           minrr == MinRR(strategy, m.quality)
<1>1. price \in Int /\ m.quality \in 0..100 /\ m.swings \subseteq Int
  BY MarketsType
<1>2. /\ c = [stage |-> stage, strategy |-> strategy, signal |-> price, stop |-> stop,
              target |-> target, trigger |-> trigger, invalid |-> invalid, minrr |-> minrr,
              swings |-> m.swings]
      /\ StopFits(price, raw) /\ Ahead(price, candidates) # {}
  BY DEF Planned, Reject
<1>3. stop \in Int /\ price - stop <= 180
  <2>1. StopDistance(price, raw) \in Int /\ StopDistance(price, raw) <= 180
    BY <1>1, <1>2 DEF StopFits, StopDistance, Greater
  <2> QED
    BY <1>1, <2>1 DEF StopFor
<1>4. minrr \in Int /\ (strategy = "BREAKOUT_RETEST" => minrr >= 920)
  BY <1>1 DEF MinRR, Clamp, Lesser, Greater
<1>5. /\ target \in Int /\ \A b \in m.swings : b > price => target < b
      /\ strategy = "BREAKOUT_RETEST" => target <= price + 160
  BY <1>1, <1>2, TargetIsBefore
<1> HIDE DEF price, stop, candidates, target, minrr, c
<1>6. /\ c.stage = stage /\ c.strategy = strategy /\ c.signal = price /\ c.stop = stop
      /\ c.target = target /\ c.minrr = minrr /\ c.swings = m.swings
  BY <1>2
<1>7. target - price <= 160 <=> target <= price + 160
  BY <1>1, <1>5
<1>8. stage = "READY" /\ SoundPlan(c)
  BY <1>1, <1>3, <1>4, <1>5, <1>6, <1>7 DEF SoundPlan, c
<1> QED
  BY <1>8 DEF c

\* Whatever structure is found, what is ready is sound.
LEMMA ReadyIsSound ==
    ASSUME NEW strategy \in Strategies, NEW m \in Markets, Scan(strategy, m).stage = "READY"
    PROVE  SoundPlan(Scan(strategy, m))
<1>1. Len(m.bars) \in Nat /\ 1 \in 1..Len(m.bars)
      /\ \A i \in 1..Len(m.bars) : m.bars[i].low \in Int
  <2>1. Len(m.bars) \in 1..MaxBars
        /\ \A i \in 1..Len(m.bars) : m.bars[i] \in [low : Int, close : Int, high : Int, solid : BOOLEAN]
    BY MarketsType
  <2> QED
    BY <2>1, SetupsAssumption
<1>2. \A reason : Reject(reason).stage = reason
  BY DEF Reject
<1>3. m.bars[1].low - 18 \in Int
  BY <1>1
<1>4. CASE strategy = "BREAKOUT_RETEST"
  <2> DEFINE retest == Max(Retests(m))
             raw == m.bars[retest].low - 16
             confirmed == Confirmations(m, retest, 0)
  <2>1. Scan(strategy, m) = BreakoutScan(m)
    BY <1>4 DEF Scan
  <2>2. -70 \in Int /\ Planned("BREAKOUT_RETEST", m, "WATCH", -70, 0, -62).stage # "READY"
    BY PlanIsSound DEF Strategies
  <2>3. Retests(m) # {} /\ BreakoutScan(m) = BreakoutRetested(m, retest)
    BY <1>2, <2>1, <2>2 DEF BreakoutScan
  <2>4. retest \in Retests(m)
    <3>1. Retests(m) \subseteq 1..Len(m.bars)
      BY <1>1 DEF Retests
    <3> QED
      BY <1>1, <2>3, <3>1, GreatestOf
  <2> HIDE DEF retest
  <2>5. raw \in Int
    <3>1. retest \in 1..Len(m.bars)
      BY <1>1, <2>4 DEF Retests
    <3> QED
      BY <1>1, <3>1
  <2>6. Planned("BREAKOUT_RETEST", m, "WATCH", raw, 0, -62).stage # "READY"
    BY <2>5, PlanIsSound DEF Strategies
  <2>7. BreakoutScan(m) = BreakoutConfirmed(m, retest, Min(confirmed))
    BY <2>1, <2>3, <2>6 DEF BreakoutRetested
  <2>8. BreakoutScan(m) = Planned("BREAKOUT_RETEST", m, "READY", raw, m.bars[Min(confirmed)].high, -62)
    BY <1>2, <2>1, <2>7 DEF BreakoutConfirmed
  <2> QED
    BY <2>1, <2>5, <2>8, PlanIsSound DEF Strategies
<1>5. CASE strategy # "BREAKOUT_RETEST"
  <2> DEFINE confirm == Min(Confirmations(m, 1, 3))
             raw == m.bars[1].low - 18
  <2>1. Scan(strategy, m) = SweepScan(m)
    BY <1>5 DEF Scan
  <2>2. EdgeWatched(m).stage # "READY"
    <3>1. -65 \in Int
      OBVIOUS
    <3>2. Planned("LIQUIDITY_SWEEP", m, "WATCH", -65, 0, -55).stage # "READY"
      BY <3>1, PlanIsSound DEF Strategies
    <3> QED
      BY <1>2, <3>2 DEF EdgeWatched
  <2>3. Planned("LIQUIDITY_SWEEP", m, "WATCH", raw, 0, m.bars[1].low - 12).stage # "READY"
    BY <1>3, PlanIsSound DEF Strategies
  <2>4. SweepScan(m) = SweepConfirmed(m, confirm)
    BY <2>1, <2>2, <2>3 DEF SweepScan
  <2>5. SweepScan(m) = Planned("LIQUIDITY_SWEEP", m, "READY", raw, m.bars[confirm].high, m.bars[1].low - 12)
    BY <1>2, <2>1, <2>4 DEF SweepConfirmed
  <2> QED
    BY <1>3, <2>1, <2>5, PlanIsSound DEF Strategies
<1> QED
  BY <1>4, <1>5

\* The reward at a later price is worth the risk: so it is no more than 1.8 ATR.
LEMMA WorthIsNear ==
    ASSUME NEW c, SoundPlan(c), c.strategy = "BREAKOUT_RETEST", NEW price \in Int,
           c.stop < price, price < c.target, Pays(price, c.stop, c.target, c.minrr)
    PROVE  price - c.stop <= 180
<1> DEFINE risk == price - c.stop
           rr == c.minrr
           reward == c.target - price
<1>1. /\ c.signal \in Int /\ c.stop \in Int /\ c.target \in Int /\ rr \in Int
      /\ c.signal - c.stop <= 180 /\ c.target - c.signal <= 160 /\ rr >= 920
  BY DEF SoundPlan
<1>2. risk \in Nat /\ reward \in Int /\ 1000 * reward >= rr * risk
  BY <1>1 DEF Pays
<1>3. reward + risk <= 340
  BY <1>1
<1> HIDE DEF risk, rr, reward
<1>4. \A x \in Nat, k \in Int : k >= 920 => k * x >= 920 * x
  <2> SUFFICES ASSUME NEW x \in Nat, NEW k \in Int, k >= 920 PROVE k * x >= 920 * x
    OBVIOUS
  <2>1. (k - 920) * x >= 0
    <3>1. k - 920 \in Nat
      OBVIOUS
    <3>2. \A i, j \in Nat : i * j >= 0
      OBVIOUS
    <3> QED
      BY <3>1, <3>2
  <2>2. (k - 920) * x = k * x - 920 * x
    OBVIOUS
  <2>3. k * x \in Int /\ 920 * x \in Int
    OBVIOUS
  <2> QED
    BY <2>1, <2>2, <2>3
<1>5. rr * risk >= 920 * risk /\ rr * risk \in Int
  BY <1>1, <1>2, <1>4
<1> DEFINE product == rr * risk
<1>6. product \in Int /\ 1000 * reward >= product /\ product >= 920 * risk
  BY <1>2, <1>5
<1> HIDE DEF product
<1>7. 1000 * reward >= 920 * risk
  BY <1>2, <1>6
<1>8. risk <= 180
  BY <1>2, <1>3, <1>7
<1> QED
  BY <1>8 DEF risk

\* Every step of the symbol keeps the invariant.
LEMMA SetupsStep ==
    ASSUME SetupsInv, SetupsNext
    PROVE  SetupsInv'
<1> USE DEF SetupsSafe, SetupsTypeOK, IntentIsWorthIt, SpoiledIsNotTraded
<1>1. ASSUME NEW s \in Strategies, NEW m \in Markets, Discover(s, m) PROVE SetupsInv'
  <2>1. phase = "scanning" /\ UNCHANGED <<entry, spoiled>> /\ ~spoiled
    BY <1>1 DEF Discover, SetupsInv
  <2>2. CASE Scan(s, m).stage = "READY" /\ Armed(Scan(s, m))
    <3>1. phase' = "armed" /\ setup' = Scan(s, m)
      BY <2>2 DEF Armed
    <3>2. SoundPlan(setup)'
      BY <2>2, <3>1, ReadyIsSound DEF SoundPlan
    <3> QED
      BY <2>1, <3>1, <3>2 DEF SetupsInv, SoundPlan
  <2>3. CASE Watched(s)
    BY <2>1, <2>3 DEF SetupsInv, Watched
  <2> QED
    BY <1>1, <2>2, <2>3 DEF Discover
<1>2. ASSUME NEW m \in Markets, AdvanceWatch(m) PROVE SetupsInv'
  <2>1. phase = "watching" /\ UNCHANGED <<entry, spoiled>> /\ ~spoiled /\ setup.strategy \in Strategies
    BY <1>2 DEF AdvanceWatch, SetupsInv
  <2> DEFINE c == Scan(setup.strategy, m)
  <2>2. CASE c.stage = "READY" /\ Armed(c)
    <3>1. phase' = "armed" /\ setup' = c
      BY <2>2 DEF Armed
    <3>2. SoundPlan(c)
      BY <2>1, <2>2, ReadyIsSound
    <3> HIDE DEF c
    <3>3. SoundPlan(setup)'
      BY <3>1, <3>2 DEF SoundPlan
    <3> QED
      BY <2>1, <3>1, <3>3 DEF SetupsInv, SoundPlan
  <2>3. CASE phase' = "cancelled" /\ UNCHANGED setup
    BY <2>1, <2>3 DEF SetupsInv
  <2> QED
    BY <1>2, <2>2, <2>3 DEF AdvanceWatch
<1>3. ASSUME Dropped PROVE SetupsInv'
  BY <1>3 DEF Dropped, SetupsInv
<1>4. ASSUME NEW p \in Polls, Trigger(p) PROVE SetupsInv'
  <2>1. /\ phase = "armed" /\ UNCHANGED setup /\ ~spoiled
        /\ p.price \in Price /\ p.price \in Int
    BY <1>4, SetupsAssumption DEF Trigger, SetupsInv, Polls
  <2>2. SoundPlan(setup)
    BY <2>1 DEF SetupsInv
  <2>3. setup.stop \in Int /\ setup.target \in Int
    BY <2>2 DEF SoundPlan
  <2>4. spoiled' \in BOOLEAN /\ (spoiled' => Ends(p))
    BY <1>4, <2>1, <2>3 DEF Trigger, Ends
  <2>5. CASE phase' = "cancelled" /\ UNCHANGED entry
    BY <2>1, <2>4, <2>5 DEF SetupsInv
  <2>6. CASE ~Ends(p) /\ UNCHANGED <<phase, entry>>
    <3>1. SoundPlan(setup)'
      BY <2>1, <2>2 DEF SoundPlan
    <3> QED
      BY <2>1, <2>4, <2>6, <3>1 DEF SetupsInv
  <2>7. CASE ~Ends(p) /\ Worth(p) /\ phase' = "triggered" /\ entry' = p.price
    <3>1. setup.stop < p.price /\ p.price < setup.target
      BY <2>1, <2>3, <2>7 DEF Ends
    <3>2. Pays(p.price, setup.stop, setup.target, setup.minrr)
      BY <2>7 DEF Worth
    <3>3. setup.strategy = "BREAKOUT_RETEST" => p.price - setup.stop <= 180
      BY <2>1, <2>2, <3>1, <3>2, WorthIsNear
    <3>4. \A b \in setup.swings : b > setup.signal => setup.target < b
      BY <2>2 DEF SoundPlan
    <3>5. IntentIsWorthIt'
      BY <2>1, <2>7, <3>1, <3>2, <3>3, <3>4 DEF Pays
    <3> QED
      BY <2>1, <2>4, <2>7, <3>5 DEF SetupsInv
  <2> QED
    BY <1>4, <2>5, <2>6, <2>7 DEF Trigger
<1> QED
  BY <1>1, <1>2, <1>3, <1>4 DEF SetupsNext

\* Whatever the structure and however the price came to the trigger, what is traded
\* is worth it at that price and was not spoiled (EntryLifecycleV2.trigger and the
\* scans of the two strategies).
THEOREM SetupsAreSafe == SetupsInit /\ [][SetupsNext]_setupVars => []SetupsSafe
<1>1. SetupsInit => SetupsInv
  <2> SUFFICES ASSUME SetupsInit PROVE SetupsInv
    OBVIOUS
  <2>1. phase = "scanning" /\ setup.strategy = "none" /\ entry = 0 /\ spoiled = FALSE
    BY DEF SetupsInit, NoSetup
  <2>2. SetupsTypeOK
    BY <2>1 DEF SetupsTypeOK
  <2> QED
    BY <2>1, <2>2 DEF SetupsInv, SetupsSafe, IntentIsWorthIt, SpoiledIsNotTraded
<1>2. SetupsInv /\ [SetupsNext]_setupVars => SetupsInv'
  <2>1. SetupsInv /\ UNCHANGED setupVars => SetupsInv'
    BY DEF setupVars, SetupsInv, SetupsSafe, SetupsTypeOK, IntentIsWorthIt, SpoiledIsNotTraded,
           SoundPlan, Pays
  <2> QED
    BY <2>1, SetupsStep
<1>3. SetupsInv => SetupsSafe
  BY DEF SetupsInv
<1> QED
  BY <1>1, <1>2, <1>3, PTL

-----------------------------------------------------------------------------
(* Execution quotes.                                                        *)

Referenced == {waits[c] : c \in Caller} \cup {inflight[s] : s \in Symbol}

\* A running request is the one in flight for its symbol, and whatever has ended
\* is collected once nobody refers to it.
RequestsAreKnown ==
    \A t \in Fetch :
        /\ fetch[t].at # "free" => fetch[t].symbol \in Symbol /\ t \in Referenced
        /\ fetch[t].at = "running" => inflight[fetch[t].symbol] = t

QuotesInv == QuotesTypeOK /\ QuoteIsFresh /\ RequestsAreKnown

Requests == [at : {"free", "running", "done", "failed"}, symbol : Symbol \cup {NoQuote}, age : Age]
Quotes == [stored : Age, age : Age]

\* A function takes no more values than its domain has elements.
LEMMA ImageIsNoLarger ==
    ASSUME NEW D, IsFiniteSet(D), NEW f
    PROVE  /\ IsFiniteSet({f[x] : x \in D})
           /\ Cardinality({f[x] : x \in D}) <= Cardinality(D)
<1> DEFINE T == {f[x] : x \in D}
           g == [x \in D |-> f[x]]
<1>1. g \in Surjection(D, T)
  BY DEF Surjection
<1> QED
  BY <1>1, FS_Surjection

\* A task can be named for a caller that awaits none and a symbol without one.
LEMMA FetchIsFree ==
    ASSUME QuotesInv, NEW c \in Caller, NEW s \in Symbol, waits[c] = NoQuote, inflight[s] = NoQuote
    PROVE  \E t \in Fetch : fetch[t].at = "free"
<1> SUFFICES ASSUME \A t \in Fetch : fetch[t].at # "free" PROVE FALSE
  OBVIOUS
<1> DEFINE W == {waits[x] : x \in Caller \ {c}}
           I == {inflight[x] : x \in Symbol \ {s}}
<1>1. Fetch \subseteq W \cup I
  BY QuotesAssumption DEF QuotesInv, RequestsAreKnown, Referenced
<1>2. /\ IsFiniteSet(Caller \ {c}) /\ Cardinality(Caller \ {c}) = Cardinality(Caller) - 1
      /\ IsFiniteSet(Symbol \ {s}) /\ Cardinality(Symbol \ {s}) = Cardinality(Symbol) - 1
  BY QuotesAssumption, FS_RemoveElement
<1>3. /\ IsFiniteSet(W) /\ Cardinality(W) <= Cardinality(Caller) - 1
      /\ IsFiniteSet(I) /\ Cardinality(I) <= Cardinality(Symbol) - 1
  BY <1>2, ImageIsNoLarger
<1> HIDE DEF W, I
<1>4. /\ IsFiniteSet(W \cup I)
      /\ Cardinality(W \cup I) = Cardinality(W) + Cardinality(I) - Cardinality(W \cap I)
      /\ IsFiniteSet(W \cap I)
  BY <1>3, FS_Union, FS_Intersection
<1>5. Cardinality(Fetch) <= Cardinality(W \cup I)
  BY <1>1, <1>4, FS_Subset
<1>6. /\ Cardinality(W) \in Nat /\ Cardinality(I) \in Nat /\ Cardinality(W \cap I) \in Nat
      /\ Cardinality(Caller) \in Nat /\ Cardinality(Symbol) \in Nat /\ Cardinality(Fetch) \in Nat
  BY <1>3, <1>4, QuotesAssumption, FS_CardinalityType
<1> QED
  BY <1>3, <1>4, <1>5, <1>6, QuotesAssumption

\* Requests stay requests, and ages ages.
LEMMA QuotesOperators ==
    /\ NoQuote \notin Fetch /\ Free \in Requests /\ Free.at = "free"
    /\ 0 \in Age /\ \A n \in Age : Older(n) \in Age
    /\ \A r \in Requests : /\ \A a \in {"free", "running", "done", "failed"} :
                                 /\ [r EXCEPT !.at = a] \in Requests
                                 /\ [r EXCEPT !.at = a].at = a
                                 /\ [r EXCEPT !.at = a].symbol = r.symbol
                           /\ \A n \in Age : /\ [r EXCEPT !.age = n] \in Requests
                                             /\ [r EXCEPT !.age = n].at = r.at
                                             /\ [r EXCEPT !.age = n].symbol = r.symbol
<1>1. Old \in Nat /\ Old > 0
  BY QuotesAssumption DEF Old
<1>2. 0 \in Age /\ \A n \in Age : Older(n) \in Age
  BY <1>1 DEF Age, Older
<1>3. Free \in Requests /\ Free.at = "free"
  BY <1>2 DEF Free, Requests
<1>4. \A r \in Requests : /\ \A a \in {"free", "running", "done", "failed"} :
                                 /\ [r EXCEPT !.at = a] \in Requests
                                 /\ [r EXCEPT !.at = a].at = a
                                 /\ [r EXCEPT !.at = a].symbol = r.symbol
                          /\ \A n \in Age : /\ [r EXCEPT !.age = n] \in Requests
                                            /\ [r EXCEPT !.age = n].at = r.at
                                            /\ [r EXCEPT !.age = n].symbol = r.symbol
  BY DEF Requests
<1> QED
  BY <1>2, <1>3, <1>4, QuotesAssumption

\* Whoever stops to wait leaves a request that others may still refer to.
LEMMA LeaveStep ==
    ASSUME QuotesInv, NEW c \in Caller, waits[c] # NoQuote, Leave(c)
    PROVE  /\ waits' \in [Caller -> Fetch \cup {NoQuote}]
           /\ inflight' \in [Symbol -> Fetch \cup {NoQuote}]
           /\ fetch' \in [Fetch -> Requests]
           /\ RequestsAreKnown'
<1> DEFINE u == waits[c]
<1>1. /\ waits \in [Caller -> Fetch \cup {NoQuote}] /\ inflight \in [Symbol -> Fetch \cup {NoQuote}]
      /\ fetch \in [Fetch -> Requests] /\ u \in Fetch /\ NoQuote \notin Fetch
  BY QuotesOperators DEF QuotesInv, QuotesTypeOK, Requests
<1>2. /\ waits' \in [Caller -> Fetch \cup {NoQuote}]
      /\ \A x \in Caller : waits[x] # u => waits'[x] = waits[x]
  BY <1>1 DEF Leave
<1>3. /\ inflight' \in [Symbol -> Fetch \cup {NoQuote}]
      /\ \A s \in Symbol : /\ inflight[s] # u => inflight'[s] = inflight[s]
                           /\ fetch[u].at = "running" => inflight'[s] = inflight[s]
  BY <1>1 DEF Leave, Popped
<1>4. fetch' = Collected(u, waits', inflight')
  BY DEF Leave
<1>5. /\ fetch' \in [Fetch -> Requests] /\ \A t \in Fetch \ {u} : fetch'[t] = fetch[t]
      /\ \/ fetch'[u] = fetch[u] /\ (u \in Referenced' \/ fetch[u].at = "running")
         \/ fetch'[u].at = "free"
  <2>1. CASE u \in Referenced' \/ fetch[u].at = "running"
    BY <1>1, <1>4, <2>1 DEF Collected, Referenced
  <2>2. CASE ~(u \in Referenced' \/ fetch[u].at = "running")
    <3>1. fetch' = [fetch EXCEPT ![u] = Free]
      BY <1>4, <2>2 DEF Collected, Referenced
    <3> QED
      BY <1>1, <3>1, QuotesOperators
  <2> QED
    BY <2>1, <2>2
<1> HIDE DEF u
<1>6. \A t \in Fetch \ {u} : t \in Referenced => t \in Referenced'
  BY <1>1, <1>2, <1>3 DEF Referenced
<1>7. ASSUME NEW t \in Fetch, fetch'[t].at # "free"
      PROVE  /\ fetch'[t].symbol \in Symbol /\ t \in Referenced'
             /\ fetch'[t].at = "running" => inflight'[fetch'[t].symbol] = t
  <2>1. fetch'[t] = fetch[t] /\ fetch[t].symbol \in Symbol /\ t \in Referenced
        /\ (fetch[t].at = "running" => inflight[fetch[t].symbol] = t)
    BY <1>5, <1>7 DEF QuotesInv, RequestsAreKnown
  <2>2. fetch[t].at = "running" => inflight'[fetch[t].symbol] = t
    BY <1>3, <2>1
  <2>3. t \in Referenced'
    <3>1. CASE t # u
      BY <1>6, <2>1, <3>1
    <3>2. CASE t = u /\ fetch[t].at = "running"
      BY <2>1, <2>2, <3>2 DEF Referenced
    <3>3. CASE t = u /\ fetch[t].at # "running"
      BY <1>5, <1>7, <3>3
    <3> QED
      BY <3>1, <3>2, <3>3
  <2> QED
    BY <2>1, <2>2, <2>3
<1> QED
  BY <1>2, <1>3, <1>5, <1>7 DEF RequestsAreKnown

\* Every step of the provider keeps the invariant.
LEMMA QuotesStep ==
    ASSUME QuotesInv, QuotesNext
    PROVE  QuotesInv'
<1>0. /\ cached \in [Symbol -> Quotes \cup {NoQuote}]
      /\ inflight \in [Symbol -> Fetch \cup {NoQuote}]
      /\ fetch \in [Fetch -> Requests]
      /\ waits \in [Caller -> Fetch \cup {NoQuote}]
      /\ got \in [Caller -> Age \cup {NoQuote}]
      /\ \A c \in Caller : got[c] # NoQuote => got[c] <= MaxAge
  BY DEF QuotesInv, QuotesTypeOK, QuoteIsFresh, Quotes, Requests
<1>1. ASSUME cached' \in [Symbol -> Quotes \cup {NoQuote}],
             inflight' \in [Symbol -> Fetch \cup {NoQuote}],
             fetch' \in [Fetch -> Requests],
             waits' \in [Caller -> Fetch \cup {NoQuote}],
             NEW c \in Caller, NEW g \in Age \cup {NoQuote}, g # NoQuote => g <= MaxAge,
             got' = [got EXCEPT ![c] = g] \/ got' = got,
             RequestsAreKnown'
      PROVE  QuotesInv'
  <2>1. got' \in [Caller -> Age \cup {NoQuote}] /\ \A x \in Caller : got'[x] \in {got[x], g}
    BY <1>0, <1>1
  <2>2. QuotesTypeOK'
    BY <1>1, <2>1 DEF QuotesTypeOK, Quotes, Requests
  <2>3. QuoteIsFresh'
    BY <1>0, <1>1, <2>1 DEF QuoteIsFresh
  <2> QED
    BY <1>1, <2>2, <2>3 DEF QuotesInv
<1>2. ASSUME NEW c \in Caller, NEW s \in Symbol, CallServed(c, s) PROVE QuotesInv'
  <2>1. /\ got' = [got EXCEPT ![c] = cached[s].age] /\ UNCHANGED <<cached, inflight, fetch, waits>>
        /\ cached[s] \in Quotes /\ cached[s].age <= MaxAge
    BY <1>0, <1>2 DEF CallServed, Servable
  <2>2. cached[s].age \in Age
    BY <2>1 DEF Quotes
  <2>3. RequestsAreKnown'
    BY <2>1 DEF QuotesInv, RequestsAreKnown, Referenced
  <2> QED
    BY <1>0, <1>1, <2>1, <2>2, <2>3
<1>3. ASSUME NEW c \in Caller, NEW s \in Symbol, CallWaits(c, s) PROVE QuotesInv'
  <2>1. waits[c] = NoQuote /\ UNCHANGED <<cached, got>>
    BY <1>3 DEF CallWaits
  <2>2. CASE inflight[s] # NoQuote
    <3>1. waits' = [waits EXCEPT ![c] = inflight[s]] /\ UNCHANGED <<inflight, fetch>>
      BY <1>3, <2>2 DEF CallWaits
    <3>2. waits' \in [Caller -> Fetch \cup {NoQuote}] /\ \A x \in Caller \ {c} : waits'[x] = waits[x]
      BY <1>0, <3>1
    <3>3. \A t \in Fetch : t \in Referenced => t \in Referenced'
      BY <1>0, <2>1, <3>1, <3>2, QuotesOperators DEF Referenced
    <3>4. RequestsAreKnown'
      BY <3>1, <3>3 DEF QuotesInv, RequestsAreKnown
    <3> QED
      BY <1>0, <1>1, <2>1, <3>1, <3>2, <3>4
  <2>3. CASE inflight[s] = NoQuote
    <3> DEFINE t == CHOOSE f \in Fetch : fetch[f].at = "free"
               new == [at |-> "running", symbol |-> s, age |-> 0]
    <3>1. t \in Fetch /\ fetch[t].at = "free"
      BY <2>1, <2>3, FetchIsFree
    <3>2. /\ fetch' = [fetch EXCEPT ![t] = new]
          /\ inflight' = [inflight EXCEPT ![s] = t]
          /\ waits' = [waits EXCEPT ![c] = t]
      BY <1>3, <2>3 DEF CallWaits
    <3> HIDE DEF t
    <3>3. new \in Requests /\ new.at = "running" /\ new.symbol = s
      BY QuotesOperators DEF Requests
    <3> HIDE DEF new
    <3>4. /\ waits' \in [Caller -> Fetch \cup {NoQuote}] /\ inflight' \in [Symbol -> Fetch \cup {NoQuote}]
          /\ fetch' \in [Fetch -> Requests]
          /\ inflight'[s] = t /\ fetch'[t] = new
          /\ \A x \in Caller \ {c} : waits'[x] = waits[x]
          /\ \A x \in Symbol \ {s} : inflight'[x] = inflight[x]
          /\ \A x \in Fetch \ {t} : fetch'[x] = fetch[x]
      BY <1>0, <3>1, <3>2, <3>3
    <3>5. \A x \in Fetch : x \in Referenced => x \in Referenced'
      BY <1>0, <2>1, <2>3, <3>4, QuotesOperators DEF Referenced
    <3>6. t \in Referenced'
      BY <3>4 DEF Referenced
    <3>7. \A x \in Fetch \ {t} : fetch[x].at = "running" => fetch[x].symbol # s
      BY <2>3, QuotesOperators DEF QuotesInv, RequestsAreKnown
    <3>8. RequestsAreKnown'
      BY <3>3, <3>4, <3>5, <3>6, <3>7 DEF QuotesInv, RequestsAreKnown
    <3> QED
      BY <1>0, <1>1, <2>1, <3>4, <3>8
  <2> QED
    BY <2>2, <2>3
<1>4. ASSUME NEW t \in Fetch, Answers(t) PROVE QuotesInv'
  <2>1. PICK r \in {"done", "failed"} : fetch' = [fetch EXCEPT ![t].at = r]
    BY <1>4 DEF Answers
  <2>2. fetch[t].at = "running" /\ UNCHANGED <<cached, inflight, waits, got>>
    BY <1>4 DEF Answers
  <2>3. /\ fetch' \in [Fetch -> Requests] /\ fetch'[t].at = r /\ fetch'[t].symbol = fetch[t].symbol
        /\ \A x \in Fetch \ {t} : fetch'[x] = fetch[x]
    <3>1. [fetch[t] EXCEPT !.at = r] \in Requests /\ [fetch[t] EXCEPT !.at = r].at = r
          /\ [fetch[t] EXCEPT !.at = r].symbol = fetch[t].symbol
      <4> DEFINE x == fetch[t]
      <4>1. x \in Requests /\ r \in {"free", "running", "done", "failed"}
        BY <1>0
      <4> HIDE DEF x
      <4>2. /\ [x EXCEPT !.at = r] \in Requests /\ [x EXCEPT !.at = r].at = r
            /\ [x EXCEPT !.at = r].symbol = x.symbol
        BY <4>1, QuotesOperators
      <4> QED
        BY <4>2 DEF x
    <3>2. fetch' = [fetch EXCEPT ![t] = [fetch[t] EXCEPT !.at = r]]
      BY <2>1
    <3> QED
      BY <1>0, <3>1, <3>2
  <2>4. RequestsAreKnown'
    BY <2>2, <2>3 DEF QuotesInv, RequestsAreKnown, Referenced
  <2>5. QuotesTypeOK'
    BY <1>0, <2>2, <2>3 DEF QuotesTypeOK, Quotes, Requests
  <2> QED
    BY <1>0, <2>2, <2>4, <2>5 DEF QuotesInv, QuoteIsFresh
<1>5. ASSUME NEW c \in Caller, ResumeFresh(c) PROVE QuotesInv'
  <2> DEFINE t == waits[c]
             f == [cached EXCEPT ![fetch[t].symbol] = [stored |-> 0, age |-> fetch[t].age]]
  <2>1. /\ t # NoQuote /\ fetch[t].at = "done" /\ fetch[t].age <= MaxAge
        /\ cached' \in Evicted(f) /\ got' = [got EXCEPT ![c] = fetch[t].age] /\ Leave(c)
    BY <1>5 DEF ResumeFresh, FitToUse
  <2>2. t \in Fetch /\ fetch[t] \in Requests
    BY <1>0, <2>1
  <2>3. fetch[t].age \in Age
    BY <2>2 DEF Requests
  <2>4. f \in [Symbol -> Quotes \cup {NoQuote}]
    <3>1. [stored |-> 0, age |-> fetch[t].age] \in Quotes
      BY <2>3, QuotesOperators DEF Quotes
    <3> QED
      BY <1>0, <3>1
  <2> HIDE DEF f
  <2>5. cached' \in [Symbol -> Quotes \cup {NoQuote}]
    <3>1. cached' = f \/ \E s \in Symbol : cached' = [f EXCEPT ![s] = NoQuote]
      BY <2>1 DEF Evicted
    <3> QED
      BY <2>4, <3>1
  <2> QED
    BY <1>1, <2>1, <2>3, <2>5, LeaveStep
<1>6. ASSUME NEW c \in Caller, ResumeFails(c) \/ Cancel(c) PROVE QuotesInv'
  <2>1. waits[c] # NoQuote /\ got' = [got EXCEPT ![c] = NoQuote] /\ Leave(c) /\ UNCHANGED cached
    BY <1>6 DEF ResumeFails, Cancel
  <2> QED
    BY <1>0, <1>1, <2>1, LeaveStep
<1>7. ASSUME QuotesTick PROVE QuotesInv'
  <2>1. UNCHANGED <<inflight, waits, got>>
    BY <1>7 DEF QuotesTick
  <2>2. cached' \in [Symbol -> Quotes \cup {NoQuote}]
    <3>1. \A s \in Symbol : cached[s] # NoQuote =>
             [stored |-> Older(cached[s].stored), age |-> Older(cached[s].age)] \in Quotes
      BY <1>0, QuotesOperators DEF Quotes
    <3> QED
      BY <1>0, <1>7, <3>1 DEF QuotesTick
  <2>3. fetch' \in [Fetch -> Requests]
        /\ \A t \in Fetch : fetch'[t].at = fetch[t].at /\ fetch'[t].symbol = fetch[t].symbol
    <3>1. \A r \in Requests : r.age \in Age /\ Older(r.age) \in Age
      BY QuotesOperators DEF Requests
    <3>2. ASSUME NEW r \in Requests
          PROVE  /\ [r EXCEPT !.age = Older(r.age)] \in Requests
                 /\ [r EXCEPT !.age = Older(r.age)].at = r.at
                 /\ [r EXCEPT !.age = Older(r.age)].symbol = r.symbol
      <4> DEFINE n == Older(r.age)
      <4>1. n \in Age
        BY <3>1
      <4> HIDE DEF n
      <4>2. /\ [r EXCEPT !.age = n] \in Requests
            /\ [r EXCEPT !.age = n].at = r.at
            /\ [r EXCEPT !.age = n].symbol = r.symbol
        BY <4>1, QuotesOperators
      <4> QED
        BY <4>2 DEF n
    <3>3. fetch' = [t \in Fetch |-> IF fetch[t].at = "done"
                                    THEN [fetch[t] EXCEPT !.age = Older(fetch[t].age)] ELSE fetch[t]]
      BY <1>7 DEF QuotesTick
    <3> QED
      BY <1>0, <3>2, <3>3
  <2>4. RequestsAreKnown'
    BY <2>1, <2>3 DEF QuotesInv, RequestsAreKnown, Referenced
  <2>5. QuotesTypeOK'
    BY <1>0, <2>1, <2>2, <2>3 DEF QuotesTypeOK, Quotes, Requests
  <2> QED
    BY <1>0, <2>1, <2>4, <2>5 DEF QuotesInv, QuoteIsFresh
<1> QED
  BY <1>2, <1>3, <1>4, <1>5, <1>6, <1>7 DEF QuotesNext

\* A symbol never has two requests under way, and no quote is returned that was
\* received too long ago (SharedExecutionQuoteProvider.quote).
THEOREM QuotesAreShared ==
    QuotesInit /\ [][QuotesNext]_quoteVars => [](QuotesTypeOK /\ OneFetch /\ QuoteIsFresh)
<1>1. QuotesInit => QuotesInv
  <2> SUFFICES ASSUME QuotesInit PROVE QuotesInv
    OBVIOUS
  <2>1. QuotesTypeOK
    BY QuotesOperators DEF QuotesInit, QuotesTypeOK, Requests
  <2>2. RequestsAreKnown /\ QuoteIsFresh
    BY QuotesOperators DEF QuotesInit, RequestsAreKnown, QuoteIsFresh
  <2> QED
    BY <2>1, <2>2 DEF QuotesInv
<1>2. QuotesInv /\ [QuotesNext]_quoteVars => QuotesInv'
  <2>1. QuotesInv /\ UNCHANGED quoteVars => QuotesInv'
    BY DEF quoteVars, QuotesInv, QuotesTypeOK, RequestsAreKnown, Referenced, QuoteIsFresh
  <2> QED
    BY <2>1, QuotesStep
<1>3. QuotesInv => QuotesTypeOK /\ OneFetch /\ QuoteIsFresh
  BY DEF QuotesInv, RequestsAreKnown, OneFetch
<1> QED
  BY <1>1, <1>2, <1>3, PTL

-----------------------------------------------------------------------------
(* The scan of the market.                                                  *)

\* What the rotation has downloaded of a list of n symbols that it began at symbol
\* s + 1: all, a first stretch, or the rest of the list and a stretch from its start.
Stretch(s) ==
    \/ /\ cursor = s + Parallel * stable
       /\ \A i \in s + 1..cursor : symbols[i] \in seen
    \/ /\ Parallel * stable - Parallel < Len(symbols) - s + cursor
       /\ \A i \in s + 1..Len(symbols) : symbols[i] \in seen
       /\ \A i \in 1..cursor : symbols[i] \in seen

RotationGoesOn ==
    /\ seen \subseteq ToSet(symbols)
    /\ \/ seen = ToSet(symbols)
       \/ /\ cursor < Len(symbols)
          /\ \E s \in 0..Len(symbols) - 1 : Stretch(s)

ScanInv == ScanTypeOK /\ RotationGoesOn /\ born = age

ListLike == Lists \cup {<<Btc>>}

\* What a scan finds is a sequence of its own symbols.
LEMMA ListsAreLists ==
    ASSUME NEW list \in ListLike
    PROVE  /\ list \in Seq(ToSet(list)) /\ Len(list) \in Nat
           /\ ToSet(list) = {list[i] : i \in 1..Len(list)}
           /\ list # <<>> => Len(list) > 0
<1>1. list \in Seq(ToSet(list))
  <2>1. CASE list \in Rankings
    BY <2>1, ScanAssumption
  <2>2. CASE list = <<>>
    BY <2>2
  <2>3. CASE list = <<Btc>>
    BY <2>3 DEF ToSet
  <2> QED
    BY <2>1, <2>2, <2>3 DEF ListLike, Lists
<1> QED
  BY <1>1 DEF ToSet

\* n passes that neither covered the list nor ran out of it are fewer than Enough.
LEMMA EnoughIsEnough ==
    ASSUME NEW list \in ListLike, list # <<>>
    PROVE  /\ Enough(list) \in Nat \ {0}
           /\ \A n \in Nat : n >= Enough(list) => Parallel * n >= Len(list) + Parallel
<1> DEFINE size == Len(list)
           q == (size + Parallel - 1) \div Parallel
<1>1. size \in Nat \ {0} /\ Parallel \in Nat \ {0}
  BY ListsAreLists, ScanAssumption
<1>2. size + Parallel - 1 \in Nat
  BY <1>1
<1>3. q \in Nat /\ size + Parallel - 1 < Parallel * q + Parallel
  BY <1>1, <1>2
<1> HIDE DEF q
<1>4. Parallel * q \in Nat
  BY <1>1, <1>3
<1>5. Parallel * q >= size
  BY <1>1, <1>3, <1>4
<1>6. ASSUME NEW n \in Nat, n >= q + 1 PROVE Parallel * n >= size + Parallel
  <2>1. n - q - 1 \in Nat
    BY <1>3, <1>6
  <2>2. Parallel * (n - q - 1) \in Nat
    BY <1>1, <2>1
  <2>3. Parallel * (n - q - 1) = Parallel * n - Parallel * q - Parallel
    BY <1>1, <1>3
  <2>4. Parallel * n \in Nat
    BY <1>1
  <2> QED
    BY <1>1, <1>4, <1>5, <2>2, <2>3, <2>4
<1> QED
  BY <1>3, <1>6 DEF Enough, q

\* A stretch is the whole list once there were enough passes.
LEMMA StretchCovers ==
    ASSUME ScanInv, symbols # <<>>, stable >= Enough(symbols)
    PROVE  seen = ToSet(symbols)
<1>1. symbols \in ListLike /\ stable \in Nat /\ cursor \in Nat /\ Parallel \in Nat \ {0}
  BY ScanAssumption DEF ScanInv, ScanTypeOK, ListLike, Lists
<1>2. Len(symbols) \in Nat /\ ToSet(symbols) = {symbols[i] : i \in 1..Len(symbols)}
  BY <1>1, ListsAreLists
<1> DEFINE passes == Parallel * stable
<1>3. passes \in Nat /\ passes >= Len(symbols) + Parallel
  BY <1>1, EnoughIsEnough
<1> SUFFICES ASSUME cursor < Len(symbols), NEW s \in 0..Len(symbols) - 1, Stretch(s)
             PROVE  ToSet(symbols) \subseteq seen
  BY DEF ScanInv, RotationGoesOn
<1> HIDE DEF passes
<1>4. ~(cursor = s + passes)
  BY <1>1, <1>2, <1>3
<1>5. /\ passes - Parallel < Len(symbols) - s + cursor
      /\ \A i \in s + 1..Len(symbols) : symbols[i] \in seen
      /\ \A i \in 1..cursor : symbols[i] \in seen
  BY <1>4 DEF Stretch, passes
<1>6. s < cursor
  BY <1>1, <1>2, <1>3, <1>5
<1>7. \A i \in 1..Len(symbols) : i \in s + 1..Len(symbols) \/ i \in 1..cursor
  BY <1>1, <1>2, <1>6
<1> QED
  BY <1>2, <1>5, <1>7

\* The symbols of a batch, and where the next one begins.
LEMMA BatchIs ==
    ASSUME cursor \in Nat, NEW list \in ListLike, list # <<>>
    PROVE  LET from == IF cursor < Len(list) THEN cursor ELSE 0
               end == IF from + Parallel < Len(list) THEN from + Parallel ELSE Len(list)
           IN  /\ ToSet(Batch(list)) = {list[i] : i \in from + 1..end}
               /\ Rotated(list) = IF from + Parallel < Len(list) THEN from + Parallel ELSE 0
<1> DEFINE size == Len(list)
           from == IF cursor < size THEN cursor ELSE 0
           End(f) == IF f + Parallel < size THEN f + Parallel ELSE size
<1>1. list \in Seq(ToSet(list)) /\ size \in Nat \ {0} /\ Parallel \in Nat \ {0}
  BY ListsAreLists, ScanAssumption
<1>2. \A f \in Nat : Slice(list, f) = SubSeq(list, f + 1, End(f))
  BY DEF Slice
<1>3. ASSUME NEW f \in Nat, f < size
      PROVE  /\ Len(Slice(list, f)) = End(f) - f /\ End(f) - f \in 1..Parallel
             /\ ToSet(Slice(list, f)) = {list[i] : i \in f + 1..End(f)}
             /\ Slice(list, f) # <<>>
  <2> DEFINE e == End(f)
  <2>1. e \in Nat /\ f + 1 <= e /\ e <= size /\ e - f <= Parallel
    BY <1>1, <1>3
  <2>2. Slice(list, f) = SubSeq(list, f + 1, e)
    BY <1>2
  <2> HIDE DEF e
  <2> DEFINE t == SubSeq(list, f + 1, e)
  <2>3. /\ t \in Seq(ToSet(list)) /\ Len(t) = e - f
        /\ \A i \in 1..e - f : t[i] = list[f + i]
    <3>1. \A i \in f + 1..e : list[i] \in ToSet(list)
      BY <1>1, <2>1
    <3>2. /\ t \in Seq(ToSet(list)) /\ Len(t) = e - (f + 1) + 1
          /\ \A i \in 1..e - (f + 1) + 1 : t[i] = list[f + 1 + i - 1]
      BY <2>1, <3>1, SubSeqProperties
    <3>3. e - (f + 1) + 1 = e - f /\ \A i \in Int : f + 1 + i - 1 = f + i
      BY <2>1
    <3> QED
      BY <3>2, <3>3
  <2> HIDE DEF t
  <2>4. ToSet(t) = {t[i] : i \in 1..e - f}
    BY <2>3 DEF ToSet
  <2>5. {t[i] : i \in 1..e - f} = {list[i] : i \in f + 1..e}
    <3>1. \A i \in 1..e - f : f + i \in f + 1..e
      BY <2>1
    <3>2. \A i \in f + 1..e : i - f \in 1..e - f /\ f + (i - f) = i
      BY <2>1
    <3>3. \A i \in f + 1..e : t[i - f] = list[i]
      BY <2>3, <3>2
    <3> QED
      BY <2>3, <3>1, <3>2, <3>3
  <2>6. t # <<>>
    BY <2>1, <2>3
  <2> QED
    <3>1. Slice(list, f) = t
      BY <2>2 DEF t
    <3>2. e - f \in 1..Parallel
      BY <1>1, <2>1
    <3>3. Len(Slice(list, f)) = e - f /\ ToSet(Slice(list, f)) = {list[i] : i \in f + 1..e}
          /\ Slice(list, f) # <<>>
      BY <2>3, <2>4, <2>5, <2>6, <3>1
    <3> QED
      BY <3>2, <3>3 DEF e
<1>4. Beyond(list) <=> ~(cursor < size)
  <2>1. CASE cursor < size
    BY <1>3, <2>1 DEF Beyond
  <2>2. CASE ~(cursor < size)
    <3>1. End(cursor) < cursor + 1 /\ End(cursor) \in Int
      BY <1>1, <2>2
    <3>2. SubSeq(list, cursor + 1, End(cursor)) = <<>>
      BY <3>1, SubSeqEmpty
    <3> QED
      BY <1>2, <2>2, <3>2 DEF Beyond
  <2> QED
    BY <2>1, <2>2
<1>5. from \in Nat /\ from < size
  BY <1>1
<1>6. Batch(list) = Slice(list, from)
  BY <1>4 DEF Batch
<1>7. ToSet(Batch(list)) = {list[i] : i \in from + 1..End(from)}
  BY <1>3, <1>5, <1>6
<1>8. Rotated(list) = (from + (End(from) - from)) % size
  BY <1>3, <1>4, <1>5, <1>6 DEF Rotated
<1>9. Rotated(list) = IF from + Parallel < size THEN from + Parallel ELSE 0
  <2> HIDE DEF from
  <2>1. CASE from + Parallel < size
    <3>1. from + (End(from) - from) = from + Parallel
      BY <1>1, <1>5, <2>1
    <3>2. (from + Parallel) % size = from + Parallel
      BY <1>1, <1>5, <2>1
    <3> QED
      BY <1>8, <2>1, <3>1, <3>2
  <2>2. CASE ~(from + Parallel < size)
    <3>1. from + (End(from) - from) = size
      BY <1>1, <1>5, <2>2
    <3>2. size % size = 0
      BY <1>1
    <3> QED
      BY <1>8, <2>2, <3>1, <3>2
  <2> QED
    BY <2>1, <2>2
<1> QED
  BY <1>7, <1>9

\* A pass moves the rotation on, over the same list or another one.
LEMMA PassStep ==
    ASSUME ScanInv, NEW list \in ListLike, list # <<>>, PassOver(list)
    PROVE  /\ symbols' = list /\ symbols' # <<>>
           /\ cursor' \in Nat /\ stable' \in Nat
           /\ seen' \subseteq ToSet(list)
           /\ RotationGoesOn'
<1> DEFINE size == Len(list)
           from == IF cursor < size THEN cursor ELSE 0
           end == IF from + Parallel < size THEN from + Parallel ELSE size
           next == IF from + Parallel < size THEN from + Parallel ELSE 0
           visited == ToSet(Batch(list))
           same == list = symbols
<1>1. /\ cursor \in Nat /\ stable \in Nat /\ Parallel \in Nat \ {0} /\ size \in Nat \ {0}
      /\ ToSet(list) = {list[i] : i \in 1..size} /\ list \in Seq(ToSet(list))
  BY ListsAreLists, ScanAssumption DEF ScanInv, ScanTypeOK
<1>2. visited = {list[i] : i \in from + 1..end} /\ Rotated(list) = next
  BY <1>1, BatchIs
<1>3. /\ from \in 0..size - 1 /\ end \in Nat /\ end <= size /\ next \in 0..size - 1
      /\ \/ end = from + Parallel /\ next = end
         \/ end = size /\ next = 0 /\ size <= from + Parallel
      /\ same /\ cursor < size => from = cursor
  BY <1>1
<1>4. /\ symbols' = list /\ cursor' = next
      /\ seen' = IF same THEN seen \cup visited ELSE visited
      /\ stable' = IF ~same THEN 1
                   ELSE IF stable < Enough(list) THEN stable + 1 ELSE stable
  BY <1>1, <1>2 DEF PassOver
<1> HIDE DEF size, from, end, next, visited
<1>5. visited \subseteq ToSet(list)
  BY <1>1, <1>2, <1>3
<1>6. seen' \subseteq ToSet(list) /\ stable' \in Nat /\ cursor' \in Nat /\ cursor' < size
  BY <1>1, <1>3, <1>4, <1>5 DEF ScanInv, RotationGoesOn
<1>7. \A i \in from + 1..end : list[i] \in seen'
  BY <1>2, <1>4
<1>8. CASE ~same
  <2>1. stable' = 1 /\ Parallel * 1 = Parallel
    BY <1>1, <1>4, <1>8
  <2>2. PICK s \in 0..size - 1 : s = from
    BY <1>3
  <2>3. Stretch(s)'
    <3>1. CASE end = from + Parallel /\ next = end
      BY <1>4, <1>7, <2>1, <2>2, <3>1 DEF Stretch
    <3>2. CASE end = size /\ next = 0 /\ size <= from + Parallel
      <4>1. Parallel * stable' - Parallel < size - s + next
        BY <1>1, <1>3, <2>1, <2>2, <3>2
      <4> QED
        BY <1>4, <1>7, <2>2, <3>2, <4>1 DEF Stretch, size
    <3> QED
      BY <1>3, <3>1, <3>2
  <2> QED
    BY <1>4, <1>6, <2>2, <2>3 DEF RotationGoesOn, size
<1>9. CASE same /\ seen = ToSet(list)
  BY <1>4, <1>5, <1>6, <1>9 DEF RotationGoesOn
<1>10. CASE same /\ seen # ToSet(list)
  <2>1. stable < Enough(list) /\ stable' = stable + 1
    BY <1>1, <1>4, <1>10, StretchCovers, EnoughIsEnough
  <2>2. PICK s \in 0..size - 1 : Stretch(s)
    BY <1>10 DEF ScanInv, RotationGoesOn, size
  <2>3. cursor < size /\ from = cursor
    BY <1>3, <1>10 DEF ScanInv, RotationGoesOn, size
  <2> DEFINE passes == Parallel * stable
  <2>4. passes \in Nat /\ Parallel * stable' = passes + Parallel
    BY <1>1, <2>1
  <2>5. \A i \in 1..size : list[i] \in seen => list[i] \in seen'
    BY <1>4, <1>10
  <2> HIDE DEF passes
  <2>6. CASE cursor = s + passes /\ \A i \in s + 1..cursor : list[i] \in seen
    <3>1. \A i \in s + 1..end : list[i] \in seen'
      <4> SUFFICES ASSUME NEW i \in s + 1..end PROVE list[i] \in seen'
        OBVIOUS
      <4>1. i \in s + 1..cursor \/ i \in from + 1..end
        BY <1>1, <1>3, <2>2, <2>3
      <4>2. i \in 1..size
        BY <1>1, <1>3, <2>2
      <4> QED
        BY <1>7, <2>5, <2>6, <4>1, <4>2
    <3>2. CASE end = from + Parallel /\ next = end
      <4>1. cursor' = s + Parallel * stable'
        BY <1>1, <1>4, <2>2, <2>3, <2>4, <2>6, <3>2
      <4>2. Stretch(s)'
        BY <1>4, <3>1, <3>2, <4>1 DEF Stretch
      <4> QED
        BY <1>4, <1>6, <2>2, <4>2 DEF RotationGoesOn, size
    <3>3. CASE end = size /\ next = 0 /\ size <= from + Parallel
      <4>1. Parallel * stable' - Parallel < size - s + next
        BY <1>1, <2>2, <2>3, <2>4, <2>6, <3>3
      <4>2. Stretch(s)'
        BY <1>4, <3>1, <3>3, <4>1 DEF Stretch, size
      <4> QED
        BY <1>4, <1>6, <2>2, <4>2 DEF RotationGoesOn, size
    <3> QED
      BY <1>3, <3>2, <3>3
  <2>7. CASE /\ passes - Parallel < size - s + cursor
             /\ \A i \in s + 1..size : list[i] \in seen
             /\ \A i \in 1..cursor : list[i] \in seen
    <3>1. \A i \in 1..end : list[i] \in seen'
      <4> SUFFICES ASSUME NEW i \in 1..end PROVE list[i] \in seen'
        OBVIOUS
      <4>1. i \in 1..cursor \/ i \in from + 1..end
        BY <1>1, <1>3, <2>3
      <4>2. i \in 1..size
        BY <1>1, <1>3
      <4> QED
        BY <1>7, <2>5, <2>7, <4>1, <4>2
    <3>2. CASE end = from + Parallel /\ next = end
      <4>1. Parallel * stable' - Parallel < size - s + next
        BY <1>1, <2>2, <2>3, <2>4, <2>7, <3>2
      <4>2. \A i \in s + 1..size : list[i] \in seen'
        BY <1>1, <2>2, <2>5, <2>7
      <4>3. Stretch(s)'
        BY <1>4, <3>1, <3>2, <4>1, <4>2 DEF Stretch, size
      <4> QED
        BY <1>4, <1>6, <2>2, <4>3 DEF RotationGoesOn, size
    <3>3. CASE end = size /\ next = 0 /\ size <= from + Parallel
      <4>1. seen' = ToSet(list)
        BY <1>1, <1>6, <3>1, <3>3
      <4> QED
        BY <1>4, <1>6, <4>1 DEF RotationGoesOn
    <3> QED
      BY <1>3, <3>2, <3>3
  <2> QED
    BY <1>10, <2>2, <2>6, <2>7 DEF Stretch, size, passes
<1> QED
  BY <1>4, <1>6, <1>8, <1>9, <1>10

\* Every step of the loop keeps the invariant, and every pass the fail-safe.
LEMMA ScanStep ==
    ASSUME ScanInv, ScanNext
    PROVE  /\ ScanInv'
           /\ (PassCached \/ PassScanned) /\ symbols' # <<Btc>> => born' <= Failsafe
<1>1. /\ cache \in Lists /\ age \in 0..TooOld /\ born = age /\ TooOld \in Nat
      /\ CacheTime \in Nat /\ Failsafe \in Nat /\ CacheTime <= Failsafe /\ TooOld = Failsafe + 1
  BY ScanAssumption DEF ScanInv, ScanTypeOK, TooOld
<1>2. ASSUME NEW list \in ListLike, list # <<>>, PassOver(list),
             cache' \in Lists, age' \in 0..TooOld, born' = age'
      PROVE  ScanInv' /\ symbols' = list
  <2>1. /\ symbols' = list /\ cursor' \in Nat /\ stable' \in Nat
        /\ seen' \subseteq ToSet(list) /\ RotationGoesOn'
    BY <1>2, PassStep
  <2>2. symbols' \in Lists \cup {<<Btc>>}
    BY <2>1 DEF ListLike
  <2>3. ToSet(list) \subseteq UNION {ToSet(l) : l \in Lists \cup {<<Btc>>}}
    BY DEF ListLike
  <2>4. ScanTypeOK'
    BY <1>2, <2>1, <2>2, <2>3 DEF ScanTypeOK
  <2> QED
    BY <1>2, <2>1, <2>4 DEF ScanInv
<1>3. ASSUME NEW ranked \in Lists, PassOver(ranked)
      PROVE  \E list \in ListLike : /\ list # <<>> /\ PassOver(list)
                                    /\ list = IF ranked = <<>> THEN <<Btc>> ELSE ranked
  <2>1. <<Btc>> # <<>>
    OBVIOUS
  <2> DEFINE list == IF ranked = <<>> THEN <<Btc>> ELSE ranked
  <2>2. list \in ListLike /\ list # <<>>
    BY <2>1 DEF ListLike
  <2>3. PassOver(list)
    BY <1>3, <2>1 DEF PassOver
  <2> QED
    BY <2>2, <2>3
<1>4. CASE PassCached
  <2>1. cache # <<>> /\ age < CacheTime /\ PassOver(cache) /\ UNCHANGED <<cache, age, born>>
    BY <1>4 DEF PassCached, Hit
  <2>2. PICK list \in ListLike : list # <<>> /\ PassOver(list)
    BY <1>1, <1>3, <2>1
  <2>3. ScanInv'
    BY <1>1, <1>2, <2>1, <2>2
  <2>4. born' <= Failsafe
    BY <1>1, <2>1
  <2> QED
    BY <2>3, <2>4
<1>5. CASE PassScanned
  <2>1. PICK found \in Lists :
          /\ PassOver(Ranked(found))
          /\ cache' = IF found # <<>> THEN found ELSE cache
          /\ age' = Ts(found)
          /\ born' = IF found # <<>> THEN 0 ELSE born
    BY <1>5 DEF PassScanned
  <2>2. Ranked(found) \in Lists
    BY <1>1 DEF Ranked, Lists
  <2>3. PICK list \in ListLike : /\ list # <<>> /\ PassOver(list)
                                 /\ list = IF Ranked(found) = <<>> THEN <<Btc>> ELSE Ranked(found)
    BY <1>3, <2>1, <2>2
  <2>4. cache' \in Lists /\ age' \in 0..TooOld /\ born' = age'
    BY <1>1, <2>1 DEF Ts
  <2>5. ScanInv' /\ symbols' = list
    BY <1>2, <2>3, <2>4
  <2>6. symbols' # <<Btc>> => born' <= Failsafe
    <3>1. CASE found # <<>>
      BY <1>1, <2>1, <3>1
    <3>2. CASE found = <<>> /\ symbols' # <<Btc>>
      <4>1. age <= Failsafe
        BY <2>3, <2>5, <3>2 DEF Ranked
      <4> QED
        BY <1>1, <2>1, <3>2, <4>1
    <3> QED
      BY <3>1, <3>2
  <2> QED
    BY <2>5, <2>6
<1>6. CASE ScanTick /\ ~PassCached /\ ~PassScanned
  <2>1. /\ age' = Elapsed(age) /\ born' = Elapsed(born)
        /\ UNCHANGED <<cache, cursor, symbols, seen, stable>>
    BY <1>6 DEF ScanTick
  <2>2. age' \in 0..TooOld /\ born' = age'
    BY <1>1, <2>1 DEF Elapsed
  <2>3. ScanTypeOK'
    BY <2>1, <2>2 DEF ScanInv, ScanTypeOK
  <2>4. RotationGoesOn'
    BY <2>1 DEF ScanInv, RotationGoesOn, Stretch
  <2> QED
    BY <1>6, <2>2, <2>3, <2>4 DEF ScanInv
<1> QED
  BY <1>4, <1>5, <1>6 DEF ScanNext

\* Wherever the cursor stood, a list that stays the same is covered in a pass more
\* than it has batches, and no list is older than the fail-safe
\* (MultiMarketCoordinator.run, CoinWMarketScanner.ranked).
THEOREM ScanCovers ==
    ScanInit /\ [][ScanNext]_scanVars => [](ScanTypeOK /\ RotationCovers) /\ ShortlistIsRecent
<1>1. ScanInit => ScanInv
  <2> SUFFICES ASSUME ScanInit PROVE ScanInv
    OBVIOUS
  <2>1. TooOld \in Nat /\ TooOld \in 0..TooOld /\ Parallel \in Nat
    BY ScanAssumption DEF TooOld
  <2>2. ScanTypeOK
    BY <2>1 DEF ScanInit, ScanTypeOK, Lists
  <2>3. Len(symbols) = 1 /\ cursor = 0 /\ stable = 0 /\ seen = {}
    BY DEF ScanInit
  <2>4. Stretch(0)
    BY <2>1, <2>3 DEF Stretch
  <2>5. RotationGoesOn
    BY <2>3, <2>4 DEF RotationGoesOn
  <2> QED
    BY <2>2, <2>5 DEF ScanInit, ScanInv
<1>2. ScanInv /\ [ScanNext]_scanVars => ScanInv'
  <2>1. ScanInv /\ UNCHANGED scanVars => ScanInv'
    BY DEF scanVars, ScanInv, ScanTypeOK, RotationGoesOn, Stretch
  <2> QED
    BY <2>1, ScanStep
<1>3. ScanInv => ScanTypeOK /\ RotationCovers
  <2> SUFFICES ASSUME ScanInv, stable >= Enough(symbols) PROVE seen = ToSet(symbols)
    BY DEF ScanInv, RotationCovers
  <2>1. CASE symbols = <<>>
    BY <2>1 DEF ScanInv, RotationGoesOn, ToSet
  <2>2. CASE symbols # <<>>
    BY <2>2, StretchCovers
  <2> QED
    BY <2>1, <2>2
<1>4. ScanInv /\ [ScanNext]_scanVars =>
        [(PassCached \/ PassScanned) /\ symbols' # <<Btc>> => born' <= Failsafe]_scanVars
  BY ScanStep
<1> QED
  BY <1>1, <1>2, <1>3, <1>4, PTL DEF ShortlistIsRecent

-----------------------------------------------------------------------------
\* Whatever the six components do next to each other, each keeps what the run
\* checks of it.
THEOREM MarketDataIsSafe ==
    MarketSpec => MarketDataSafe /\ RegimeIsSteady /\ []SetupsSafe /\ []SentIsReceived
<1>1. MarketInit => /\ QuotesInit /\ ScanInit /\ ExitsInit
                    /\ RegimeInit /\ SetupsInit /\ OutboxInit
  BY DEF MarketInit
<1>2. [MarketNext]_marketVars =>
        /\ [QuotesNext]_quoteVars /\ [ScanNext]_scanVars /\ [ExitsNext]_exitVars
        /\ [RegimeNext]_regimeVars /\ [SetupsNext]_setupVars /\ [OutboxNext]_outboxVars
  BY DEF MarketNext, marketVars
<1>3. MarketSpec => /\ QuotesInit /\ [][QuotesNext]_quoteVars
                    /\ ScanInit /\ [][ScanNext]_scanVars
                    /\ ExitsInit /\ [][ExitsNext]_exitVars
                    /\ RegimeInit /\ [][RegimeNext]_regimeVars
                    /\ SetupsInit /\ [][SetupsNext]_setupVars
                    /\ OutboxInit /\ [][OutboxNext]_outboxVars
  BY <1>1, <1>2, PTL DEF MarketSpec
<1> QED
  BY <1>3, QuotesAreShared, ScanCovers, TicksHaveTheirBook, RegimeFollowsTheMarket,
     SetupsAreSafe, SentWasReceived, PTL DEF MarketDataSafe

=============================================================================
