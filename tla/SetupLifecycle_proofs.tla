----------------------- MODULE SetupLifecycle_proofs -----------------------
(***************************************************************************)
(* Proofs about SetupLifecycle, for any structures and any lives of        *)
(* setups, watches and tombstones, and any number of writes under way.     *)
(***************************************************************************)
EXTENDS SetupLifecycle, TLAPS

-----------------------------------------------------------------------------
(* What the helpers return.                                                 *)

\* A consumed setup keeps a tombstone, of the full life unless it had one.
LEMMA UntilTyped ==
  ASSUME LifeTypeOK, NEW t \in Tracked(ArmedTtl)
  PROVE  /\ Until(t) \in 1..ConsumedTtl
         /\ dead[t.id] = 0 => Until(t) = ConsumedTtl
BY SetupAssumption DEF LifeTypeOK, Tracked, Left, Until, Consumed, Longer

\* A watch is barred for the life of a tombstone.
LEMMA ConsumedTyped ==
  ASSUME NEW t \in Tracked(WatchTtl)
  PROVE  Consumed(t) \in 1..ConsumedTtl
BY SetupAssumption DEF Tracked, Consumed, Longer

LEMMA LessTyped ==
  ASSUME NEW n \in Nat, NEW k \in 0..n
  PROVE  /\ Less(k) \in 0..n
         /\ Less(k) <= k
         /\ Less(k) = IF k = 0 THEN 0 ELSE k - 1
BY DEF Less

\* What a landed upsert leaves in the collections.
LEMMA LandedTyped ==
  ASSUME LifeTypeOK, NEW w \in Write, Landed(w),
         w.doc = "armedOn" => w.ttl <= ArmedTtl,
         w.doc \in {"watchOn", "watchOff"} => w.ttl <= WatchTtl
  PROVE  /\ armedRow' \in Tracked(ArmedTtl) \cup {NoSetup}
         /\ watchRow' \in [id : Structure, active : BOOLEAN, ttl : 1..WatchTtl] \cup {NoSetup}
         /\ tombs' \in Left
         /\ w.doc # "tomb" => tombs' = tombs
<1> USE SetupAssumption
<1>1. w.id \in Structure /\ w.ttl \in 0..ConsumedTtl
  BY DEF Write
<1>2. armedRow' \in Tracked(ArmedTtl) \cup {NoSetup}
  <2>1. CASE w.doc = "armedOn"
    BY <1>1, <2>1 DEF Landed, Tracked
  <2>2. CASE w.doc = "armedOff"
    BY <2>2 DEF Landed
  <2>3. CASE w.doc \notin {"armedOn", "armedOff"}
    BY <2>3 DEF Landed, LifeTypeOK
  <2>4. QED
    BY <2>1, <2>2, <2>3
<1>3. watchRow' \in [id : Structure, active : BOOLEAN, ttl : 1..WatchTtl] \cup {NoSetup}
  <2>1. CASE w.doc \in {"watchOn", "watchOff"} /\ w.ttl = 0
    BY <2>1 DEF Landed
  <2>2. CASE w.doc \in {"watchOn", "watchOff"} /\ w.ttl # 0
    <3>1. w.ttl \in 1..WatchTtl
      BY <1>1, <2>2
    <3>2. watchRow' = [id |-> w.id, active |-> w.doc = "watchOn", ttl |-> w.ttl]
      BY <2>2 DEF Landed
    <3>3. (w.doc = "watchOn") \in BOOLEAN
      OBVIOUS
    <3>4. QED
      BY <1>1, <3>1, <3>2, <3>3
  <2>3. CASE w.doc \notin {"watchOn", "watchOff"}
    BY <2>3 DEF Landed, LifeTypeOK
  <2>4. QED
    BY <2>1, <2>2, <2>3
<1>4. tombs' \in Left
  BY <1>1 DEF Landed, LifeTypeOK, Left
<1>5. w.doc # "tomb" => tombs' = tombs
  BY DEF Landed
<1>6. QED
  BY <1>2, <1>3, <1>4, <1>5

-----------------------------------------------------------------------------
(* Types.                                                                   *)

\* The initial state satisfies the invariant.
LEMMA SetupInvInit == LifeInit => SetupInv
<1> SUFFICES ASSUME LifeInit PROVE SetupInv
  OBVIOUS
<1> USE SetupAssumption
<1>a. Nothing \in Left
  BY DEF Nothing, Left
<1>1. LifeTypeOK
  BY <1>a DEF LifeInit, LifeTypeOK, Up
<1>2. Bounded /\ Single /\ Awaits /\ ArmedIsLive
  BY DEF LifeInit, Bounded, Single, Awaits, ArmedIsLive
<1>3. Dated /\ Remembered
  BY <1>1 DEF LifeInit, Dated, Remembered, Nothing
<1>4. QED
  BY <1>1, <1>2, <1>3 DEF SetupInv

\* The end of an armed setup keeps the types.
LEMMA EndArmedTyped ==
  ASSUME LifeTypeOK, Bounded, armed # NoSetup, EndArmed, polled' \in BOOLEAN
  PROVE  LifeTypeOK' /\ Bounded'
<1> USE SetupAssumption
<1>1. armed \in Tracked(ArmedTtl)
  BY DEF LifeTypeOK
<1>2. armed.id \in Structure /\ armed.ttl \in 0..ConsumedTtl /\ armed.ttl <= ArmedTtl
  BY <1>1 DEF Tracked
<1>3. Until(armed) \in 0..ConsumedTtl
  BY <1>1, UntilTyped
<1>4. dead' \in Left /\ ended' \in Left
  BY <1>2, <1>3 DEF EndArmed, LifeTypeOK, Left
<1>5. ArmedTerminal(armed) \subseteq Write
  BY <1>2, <1>3 DEF ArmedTerminal, Upsert, Write
<1>6. writes' \subseteq Write
  BY <1>5 DEF EndArmed, LifeTypeOK
<1>7. LifeTypeOK'
  BY <1>4, <1>6 DEF EndArmed, LifeTypeOK
<1>8. Bounded'
  BY DEF EndArmed, Bounded, ArmedTerminal, Upsert
<1>9. QED
  BY <1>7, <1>8

\* An awaited upsert lands or not, and may be under way still.
LEMMA PersistTyped ==
  ASSUME LifeTypeOK, Bounded, NEW w \in Write, stage' = "idle", UNCHANGED <<mem, ghost>>,
         w.doc = "armedOn" => w.ttl <= ArmedTtl,
         w.doc \in {"watchOn", "watchOff"} => w.ttl <= WatchTtl,
         Landed(w) \/ UNCHANGED <<armedRow, watchRow, tombs>>,
         writes' \in {writes, writes \cup {w}}
  PROVE  LifeTypeOK' /\ Bounded'
<1>1. /\ armedRow' \in Tracked(ArmedTtl) \cup {NoSetup}
      /\ watchRow' \in [id : Structure, active : BOOLEAN, ttl : 1..WatchTtl] \cup {NoSetup}
      /\ tombs' \in Left
  <2>1. CASE Landed(w)
    BY <2>1, LandedTyped
  <2>2. CASE UNCHANGED <<armedRow, watchRow, tombs>>
    BY <2>2 DEF LifeTypeOK
  <2>3. QED
    BY <2>1, <2>2
<1>2. LifeTypeOK'
  BY <1>1 DEF LifeTypeOK, mem, ghost, Up
<1>3. Bounded'
  BY DEF Bounded
<1>4. QED
  BY <1>2, <1>3

\* Types are preserved by every step.
LEMMA TypedNext ==
  ASSUME LifeTypeOK, Bounded, Awaits, [LifeNext]_lifeVars
  PROVE  LifeTypeOK' /\ Bounded'
<1> USE SetupAssumption
<1>1. CASE ScanArmed
  BY <1>1, EndArmedTyped DEF ScanArmed, LifeTypeOK
<1>2. CASE ScanFree
  <2>1. PICK s \in Structure : DiscoverArmed(s) \/ DiscoverWatch(s)
    BY <1>2 DEF ScanFree
  <2>2. CASE DiscoverArmed(s)
    BY <2>2 DEF DiscoverArmed, ArmNow, LifeTypeOK, Bounded, Tracked, Up, store, ghost
  <2>3. CASE DiscoverWatch(s)
    BY <2>3 DEF DiscoverWatch, LifeTypeOK, Bounded, Tracked, Up, store, ghost
  <2>4. QED
    BY <2>1, <2>2, <2>3
<1>3. CASE PollWatch
  BY <1>3 DEF PollWatch, LifeTypeOK, Bounded, store, ghost
<1>4. CASE WatchPending
  BY <1>4 DEF WatchPending, LifeTypeOK, Bounded, store, ghost
<1>5. CASE ArmedPriority
  BY <1>5, EndArmedTyped DEF ArmedPriority, ArmedSymbol, LifeTypeOK
<1>6. ASSUME watch # NoSetup, deadW' = [deadW EXCEPT ![watch.id] = Consumed(watch)],
             writes' = writes \cup WatchTerminal(watch)
      PROVE  /\ deadW' \in Left
             /\ writes' \subseteq Write
             /\ Bounded'
  <2>1. watch \in Tracked(WatchTtl)
    BY <1>6 DEF LifeTypeOK
  <2>2. watch.id \in Structure /\ watch.ttl \in 0..ConsumedTtl /\ watch.ttl <= WatchTtl
    BY <2>1 DEF Tracked
  <2>3. Consumed(watch) \in 0..ConsumedTtl
    BY <2>1, ConsumedTyped
  <2>4. deadW' \in Left
    BY <1>6, <2>2, <2>3 DEF LifeTypeOK, Left
  <2>5. WatchTerminal(watch) \subseteq Write
    BY <2>2 DEF WatchTerminal, Upsert, Write
  <2>6. writes' \subseteq Write
    BY <1>6, <2>5 DEF LifeTypeOK
  <2>7. Bounded'
    BY <1>6, <2>2 DEF Bounded, WatchTerminal, Upsert
  <2>8. QED
    BY <2>4, <2>6, <2>7
<1>7. CASE WatchCancelled
  <2>1. deadW' \in Left /\ writes' \subseteq Write /\ Bounded'
    BY <1>6, <1>7 DEF WatchCancelled
  <2>2. QED
    BY <1>7, <2>1 DEF WatchCancelled, LifeTypeOK, ghost
<1>8. CASE WatchPromoted
  <2>1. deadW' \in Left /\ writes' \subseteq Write /\ Bounded'
    BY <1>6, <1>8 DEF WatchPromoted
  <2>2. armed' \in Tracked(ArmedTtl) /\ stage' = "saveArmed"
    BY <1>8 DEF WatchPromoted, ArmNow, Tracked
  <2>3. QED
    BY <1>8, <2>1, <2>2 DEF WatchPromoted, LifeTypeOK, ghost, Up
<1>9. CASE Persist
  <2>1. CASE PersistArmed
    <3>1. armed \in Tracked(ArmedTtl) /\ stage' = "idle" /\ UNCHANGED <<mem, ghost>>
      BY <2>1 DEF PersistArmed, Awaits, LifeTypeOK
    <3>2. LET w == Upsert("armedOn", armed)
          IN  /\ w \in Write
              /\ w.doc = "armedOn" /\ w.ttl <= ArmedTtl
      BY <3>1 DEF Upsert, Write, Tracked
    <3>3. QED
      BY <2>1, <3>1, <3>2, PersistTyped DEF PersistArmed
  <2>2. CASE PersistWatch
    <3>1. watch \in Tracked(WatchTtl) /\ stage' = "idle" /\ UNCHANGED <<mem, ghost>>
      BY <2>2 DEF PersistWatch, Awaits, LifeTypeOK
    <3>2. LET w == Upsert("watchOn", watch)
          IN  /\ w \in Write
              /\ w.doc = "watchOn" /\ w.ttl <= WatchTtl
      BY <3>1 DEF Upsert, Write, Tracked
    <3>3. QED
      BY <2>2, <3>1, <3>2, PersistTyped DEF PersistWatch
  <2>3. QED
    BY <1>9, <2>1, <2>2 DEF Persist
<1>10. CASE \E w \in writes : Land(w) \/ Lose(w)
  <2>1. PICK w \in writes : Land(w) \/ Lose(w)
    BY <1>10
  <2>2. w \in Write
    BY DEF LifeTypeOK
  <2>3. CASE Land(w)
    <3>1. /\ armedRow' \in Tracked(ArmedTtl) \cup {NoSetup}
          /\ watchRow' \in [id : Structure, active : BOOLEAN, ttl : 1..WatchTtl] \cup {NoSetup}
          /\ tombs' \in Left
      BY <2>2, <2>3, LandedTyped DEF Land, Bounded
    <3>2. QED
      BY <2>3, <3>1 DEF Land, LifeTypeOK, Bounded, mem, ghost
  <2>4. CASE Lose(w)
    BY <2>2, <2>4 DEF Lose, LifeTypeOK, Bounded, mem, Write
  <2>5. QED
    BY <2>1, <2>3, <2>4
<1>11. CASE Crash
  <2>1. Nothing \in Left
    BY DEF Nothing, Left
  <2>2. \A w \in writes : w.id \in Structure
    BY DEF LifeTypeOK, Write
  <2>3. lost' \subseteq Structure
    BY <1>11, <2>2 DEF Crash, LifeTypeOK
  <2>4. QED
    BY <1>11, <2>1, <2>3 DEF Crash, LifeTypeOK, Bounded, store
<1>12. CASE RestartWorker
  BY <1>12 DEF RestartWorker, LifeTypeOK, Bounded, mem, store, ghost
<1>13. CASE Restore
  <2>1. CASE RestoreArmed
    BY <2>1 DEF RestoreArmed, LifeTypeOK, Bounded, store, ghost
  <2>2. CASE RestoreWatch
    <3>1. watch' \in Tracked(WatchTtl) \cup {NoSetup}
      BY <2>2 DEF RestoreWatch, LifeTypeOK, Tracked
    <3>2. QED
      BY <2>2, <3>1 DEF RestoreWatch, LifeTypeOK, Bounded, store, ghost
  <2>3. CASE RestoreTerminal
    <3>1. deadW' \in Left
      BY <2>3 DEF RestoreTerminal, LifeTypeOK, Left
    <3>2. QED
      BY <2>3, <3>1 DEF RestoreTerminal, LifeTypeOK, Bounded, store, ghost
  <2>4. CASE RestoreTombs
    BY <2>4 DEF RestoreTombs, LifeTypeOK, Bounded, store, ghost, Up
  <2>5. QED
    BY <1>13, <2>1, <2>2, <2>3, <2>4 DEF Restore
<1>14. CASE TimePasses
  <2>1. \A f \in Left : Shrunk(f) \in Left
    BY LessTyped DEF Left, Shrunk
  <2>2. ASSUME NEW n \in Nat, NEW t \in Tracked(n)
        PROVE  Aged(t) \in Tracked(n)
    BY LessTyped DEF Aged, Tracked
  <2>3. armed' \in Tracked(ArmedTtl) \cup {NoSetup} /\ watch' \in Tracked(WatchTtl) \cup {NoSetup}
    BY <1>14, <2>2 DEF TimePasses, LifeTypeOK
  <2>4. armedRow' \in Tracked(ArmedTtl) \cup {NoSetup}
    BY <1>14, <2>2 DEF TimePasses, LifeTypeOK
  <2>5. watchRow' \in [id : Structure, active : BOOLEAN, ttl : 1..WatchTtl] \cup {NoSetup}
    <3>1. CASE watchRow = NoSetup \/ watchRow.ttl = 1
      BY <1>14, <3>1 DEF TimePasses
    <3>2. CASE watchRow # NoSetup /\ watchRow.ttl # 1
      <4>1. watchRow \in [id : Structure, active : BOOLEAN, ttl : 1..WatchTtl]
        BY <3>2 DEF LifeTypeOK
      <4>2. Less(watchRow.ttl) \in 1..WatchTtl
        BY <3>2, <4>1 DEF Less
      <4>3. watchRow' = [watchRow EXCEPT !.ttl = Less(watchRow.ttl)]
        BY <1>14, <3>2 DEF TimePasses, Aged
      <4>4. QED
        BY <4>1, <4>2, <4>3
    <3>3. QED
      BY <3>1, <3>2
  <2>6. LifeTypeOK'
    BY <1>14, <2>1, <2>3, <2>4, <2>5 DEF TimePasses, LifeTypeOK
  <2>7. QED
    BY <1>14, <2>6 DEF TimePasses, Bounded
<1>15. CASE UNCHANGED lifeVars
  BY <1>15 DEF lifeVars, mem, store, ghost, LifeTypeOK, Bounded
<1>16. QED
  BY <1>1, <1>2, <1>3, <1>4, <1>5, <1>7, <1>8, <1>9, <1>10, <1>11, <1>12, <1>13, <1>14,
     <1>15 DEF LifeNext

-----------------------------------------------------------------------------
(* The parts of the invariant.                                              *)

\* What is tracked is not NoSetup, however old it is.
LEMMA AgedTracked ==
  ASSUME NEW n \in Nat, NEW t \in Tracked(n)
  PROVE  t # NoSetup /\ Aged(t) # NoSetup /\ Aged(t).id = t.id
<1>1. Aged(t) \in Tracked(n)
  BY LessTyped DEF Aged, Tracked
<1>2. Tracked(n) \subseteq [id : Structure, ttl : Nat]
  BY DEF Tracked
<1>3. QED
  BY <1>1, <1>2, SetupAssumption DEF Aged, Tracked

\* Time ages every tombstone alike.
LEMMA ShrunkTyped ==
  ASSUME NEW f \in Left, NEW s \in Structure
  PROVE  /\ f[s] \in Nat
         /\ Shrunk(f)[s] = Less(f[s])
         /\ Shrunk(f)[s] \in Nat
         /\ Shrunk(f)[s] <= f[s]
         /\ f[s] = 0 => Shrunk(f)[s] = 0
BY LessTyped, SetupAssumption DEF Left, Shrunk

\* One of setup and watch, and an awaited row has its subject.
LEMMA SingleNext ==
  ASSUME LifeTypeOK, Single, Awaits, [LifeNext]_lifeVars
  PROVE  Single' /\ Awaits'
<1> USE SetupAssumption DEF Single, Awaits
<1>1. \A s \in Structure : /\ [id |-> s, ttl |-> ArmedTtl] # NoSetup
                           /\ [id |-> s, ttl |-> WatchTtl] # NoSetup
  OBVIOUS
<1>2. CASE ScanArmed
  BY <1>2 DEF ScanArmed, EndArmed
<1>3. CASE ScanFree
  BY <1>1, <1>3 DEF ScanFree, DiscoverArmed, DiscoverWatch, ArmNow
<1>4. CASE PollWatch
  BY <1>4 DEF PollWatch
<1>5. CASE WatchPending
  BY <1>5 DEF WatchPending
<1>6. CASE ArmedPriority
  BY <1>6 DEF ArmedPriority, EndArmed
<1>7. CASE WatchCancelled
  BY <1>7 DEF WatchCancelled
<1>8. CASE WatchPromoted
  BY <1>1, <1>8 DEF WatchPromoted, ArmNow
<1>9. CASE Persist
  BY <1>9 DEF Persist, PersistArmed, PersistWatch, mem
<1>10. CASE \E w \in writes : Land(w) \/ Lose(w)
  BY <1>10 DEF Land, Lose, mem
<1>11. CASE Crash
  BY <1>11 DEF Crash
<1>12. CASE RestartWorker
  BY <1>12 DEF RestartWorker, mem
<1>13. CASE RestoreArmed
  BY <1>13 DEF RestoreArmed
<1>14. CASE RestoreWatch
  BY <1>14 DEF RestoreWatch
<1>15. CASE RestoreTerminal
  BY <1>15 DEF RestoreTerminal
<1>16. CASE RestoreTombs
  BY <1>16 DEF RestoreTombs
<1>17. CASE TimePasses
  BY <1>17 DEF TimePasses
<1>18. CASE UNCHANGED lifeVars
  BY <1>18 DEF lifeVars, mem
<1>19. QED
  BY <1>2, <1>3, <1>4, <1>5, <1>6, <1>7, <1>8, <1>9, <1>10, <1>11, <1>12, <1>13, <1>14,
     <1>15, <1>16, <1>17, <1>18 DEF LifeNext, Restore

\* A worker that runs holds no setup that its tombstones forbid.
LEMMA ArmedIsLiveNext ==
  ASSUME LifeTypeOK, ArmedIsLive, [LifeNext]_lifeVars
  PROVE  ArmedIsLive'
<1> USE SetupAssumption DEF ArmedIsLive, Up
<1>2. CASE ScanArmed
  BY <1>2 DEF ScanArmed, EndArmed
<1>3. CASE ScanFree
  BY <1>3 DEF ScanFree, DiscoverArmed, DiscoverWatch, ArmNow, MayArm
<1>4. CASE PollWatch
  BY <1>4 DEF PollWatch
<1>5. CASE WatchPending
  BY <1>5 DEF WatchPending
<1>6. CASE ArmedPriority
  BY <1>6 DEF ArmedPriority, EndArmed
<1>7. CASE WatchCancelled
  BY <1>7 DEF WatchCancelled
<1>8. CASE WatchPromoted
  BY <1>8 DEF WatchPromoted, ArmNow, Promotes, MayArm
<1>9. CASE Persist
  BY <1>9 DEF Persist, PersistArmed, PersistWatch, mem
<1>10. CASE \E w \in writes : Land(w) \/ Lose(w)
  BY <1>10 DEF Land, Lose, mem
<1>11. CASE Crash
  BY <1>11 DEF Crash
<1>12. CASE RestartWorker
  BY <1>12 DEF RestartWorker
<1>13. CASE RestoreArmed \/ RestoreWatch \/ RestoreTerminal
  BY <1>13 DEF RestoreArmed, RestoreWatch, RestoreTerminal
<1>14. CASE RestoreTombs
  <2>1. armed # NoSetup => armed.id \in Structure
    BY DEF LifeTypeOK, Tracked
  <2>2. \A s \in Structure : tombs[s] \in Nat
    BY DEF LifeTypeOK, Left
  <2>3. QED
    BY <1>14, <2>1, <2>2 DEF RestoreTombs, Buried
<1>15. CASE TimePasses
  <2>1. CASE armed = NoSetup
    BY <1>15, <2>1 DEF TimePasses
  <2>2. CASE armed # NoSetup
    <3>1. armed \in Tracked(ArmedTtl) /\ armed.id \in Structure
      BY <2>2 DEF LifeTypeOK, Tracked
    <3>2. armed' = Aged(armed) /\ armed'.id = armed.id
      BY <1>15, <2>2, <3>1, AgedTracked DEF TimePasses
    <3>3. dead[armed.id] = 0 => dead'[armed'.id] = 0
      BY <1>15, <3>1, <3>2, ShrunkTyped DEF TimePasses, LifeTypeOK
    <3>4. QED
      BY <1>15, <2>2, <3>3 DEF TimePasses
  <2>3. QED
    BY <2>1, <2>2
<1>16. CASE UNCHANGED lifeVars
  BY <1>16 DEF lifeVars, mem
<1>17. QED
  BY <1>2, <1>3, <1>4, <1>5, <1>6, <1>7, <1>8, <1>9, <1>10, <1>11, <1>12, <1>13, <1>14,
     <1>15, <1>16 DEF LifeNext, Restore

\* What the end of an armed setup does to its tombstones.
LEMMA EndArmedBuries ==
  ASSUME LifeTypeOK, ArmedIsLive, stage \in Up, armed # NoSetup, EndArmed
  PROVE  /\ armed.id \in Structure /\ dead[armed.id] = 0
         /\ dead' = [dead EXCEPT ![armed.id] = ConsumedTtl]
         /\ ended' = [ended EXCEPT ![armed.id] = ConsumedTtl]
         /\ writes' = writes \cup {Upsert("armedOff", armed),
                [doc |-> "tomb", id |-> armed.id, ttl |-> ConsumedTtl]}
         /\ UNCHANGED <<stage, tombs, lost>>
<1>1. armed \in Tracked(ArmedTtl) /\ dead[armed.id] = 0
  BY DEF LifeTypeOK, ArmedIsLive
<1>2. Until(armed) = ConsumedTtl
  BY <1>1, UntilTyped
<1>3. QED
  BY <1>1, <1>2 DEF EndArmed, ArmedTerminal, Tracked

\* A landed tombstone changes one row, and nothing else does.
LEMMA LandedTombs ==
  ASSUME LifeTypeOK, Dated, NEW w \in writes, Landed(w), NEW s \in Structure
  PROVE  /\ tombs'[s] \in {tombs[s], ended[s]}
         /\ w.doc = "tomb" /\ w.id = s => tombs'[s] = ended[s]
<1>1. w \in Write
  BY DEF LifeTypeOK
<1>2. CASE w.doc = "tomb"
  <2>1. w.ttl = ConsumedTtl /\ ended[w.id] = ConsumedTtl
    BY <1>2 DEF Dated
  <2>2. tombs' = [tombs EXCEPT ![w.id] = w.ttl]
    BY <1>2 DEF Landed
  <2>3. QED
    BY <2>1, <2>2 DEF LifeTypeOK, Left
<1>3. CASE w.doc # "tomb"
  BY <1>3 DEF Landed
<1>4. QED
  BY <1>2, <1>3

\* An awaited upsert of an ACTIVE row leaves the tombstones alone.
LEMMA PersistKeeps ==
  ASSUME Persist
  PROVE  /\ tombs' = tombs
         /\ UNCHANGED <<mem, ghost>>
         /\ stage \in Up /\ stage' = "idle"
         /\ writes \subseteq writes'
         /\ \A w \in writes' : w.doc = "tomb" => w \in writes
<1>1. CASE PersistArmed
  BY <1>1 DEF PersistArmed, Landed, Upsert, Up
<1>2. CASE PersistWatch
  BY <1>2 DEF PersistWatch, Landed, Upsert, Up
<1>3. QED
  BY <1>1, <1>2 DEF Persist

\* A watch that ends leaves the tombstones of setups alone.
LEMMA WatchKeeps ==
  ASSUME WatchCancelled \/ WatchPromoted
  PROVE  /\ UNCHANGED <<dead, tombs, ghost>>
         /\ stage \in Up /\ stage' \in Up
         /\ writes \subseteq writes'
         /\ \A w \in writes' : w.doc = "tomb" => w \in writes
<1>1. \A w \in WatchTerminal(watch) : w.doc = "watchOff"
  BY DEF WatchTerminal, Upsert
<1>2. QED
  BY <1>1 DEF WatchCancelled, WatchPromoted, ArmNow, Up

\* Steps that touch neither a tombstone nor a write.
Calm ==
    \/ ScanFree \/ PollWatch \/ WatchPending \/ RestartWorker
    \/ RestoreArmed \/ RestoreWatch \/ RestoreTerminal

LEMMA CalmKeeps ==
  ASSUME Calm
  PROVE  /\ UNCHANGED <<dead, tombs, writes, ghost>>
         /\ stage \in Up <=> stage' \in Up
BY DEF Calm, ScanFree, DiscoverArmed, DiscoverWatch, ArmNow, PollWatch, WatchPending,
   RestartWorker, RestoreArmed, RestoreWatch, RestoreTerminal, Up, mem, store

\* The steps, as the tombstones see them.
LEMMA StepKinds ==
  ASSUME [LifeNext]_lifeVars
  PROVE  \/ stage \in Up /\ armed # NoSetup /\ EndArmed
         \/ Calm \/ WatchCancelled \/ WatchPromoted \/ Persist
         \/ \E w \in writes : Land(w) \/ Lose(w)
         \/ Crash \/ RestoreTombs \/ TimePasses
         \/ UNCHANGED lifeVars
BY DEF LifeNext, Calm, Restore, ScanArmed, ArmedPriority, ArmedSymbol, Up

\* A tombstone is never younger than the end it stands for.
LEMMA DatedNext ==
  ASSUME LifeTypeOK, ArmedIsLive, Dated, [LifeNext]_lifeVars
  PROVE  Dated'
<1> USE SetupAssumption
<1>1. \A s \in Structure : tombs[s] \in 0..ConsumedTtl /\ ended[s] \in 0..ConsumedTtl
  BY DEF LifeTypeOK, Left
<1>2. CASE stage \in Up /\ armed # NoSetup /\ EndArmed
  <2>1. \A s \in Structure : tombs'[s] <= ended'[s]
    BY <1>1, <1>2, EndArmedBuries DEF Dated, LifeTypeOK, Left
  <2>2. ASSUME NEW w \in writes', w.doc = "tomb"
        PROVE  w.ttl = ConsumedTtl /\ ended'[w.id] = ConsumedTtl
    <3>1. CASE w \in writes
      <4>1. w.id \in Structure
        BY <3>1 DEF LifeTypeOK, Write
      <4>2. QED
        BY <1>2, <2>2, <3>1, <4>1, EndArmedBuries DEF Dated, LifeTypeOK, Left
    <3>2. CASE w \notin writes
      <4>1. w.id = armed.id /\ w.ttl = ConsumedTtl
        BY <1>2, <2>2, <3>2, EndArmedBuries DEF Upsert
      <4>2. QED
        BY <1>2, <4>1, EndArmedBuries DEF LifeTypeOK, Left
    <3>3. QED
      BY <3>1, <3>2
  <2>3. QED
    BY <2>1, <2>2 DEF Dated
<1>3. CASE Calm
  BY <1>3, CalmKeeps DEF Dated, ghost
<1>4. CASE WatchCancelled \/ WatchPromoted
  BY <1>4, WatchKeeps DEF Dated, ghost
<1>5. CASE Persist
  BY <1>5, PersistKeeps DEF Dated, ghost
<1>6. CASE \E w \in writes : Land(w) \/ Lose(w)
  <2>1. PICK w \in writes : Land(w) \/ Lose(w)
    BY <1>6
  <2>2. writes' \subseteq writes /\ ended' = ended
    BY <2>1 DEF Land, Lose, ghost
  <2>3. ASSUME NEW s \in Structure PROVE tombs'[s] <= ended[s]
    BY <1>1, <2>1, LandedTombs DEF Land, Lose, Dated
  <2>4. QED
    BY <2>2, <2>3 DEF Dated
<1>7. CASE Crash
  BY <1>7 DEF Crash, store, Dated
<1>8. CASE RestoreTombs
  BY <1>8 DEF RestoreTombs, store, ghost, Dated
<1>9. CASE TimePasses
  <2>1. writes' = {} /\ tombs' = Shrunk(tombs) /\ ended' = Shrunk(ended)
    BY <1>9 DEF TimePasses
  <2>2. ASSUME NEW s \in Structure PROVE Shrunk(tombs)[s] <= Shrunk(ended)[s]
    <3>1. tombs \in Left /\ ended \in Left /\ tombs[s] <= ended[s]
      BY DEF LifeTypeOK, Dated
    <3>2. Less(tombs[s]) <= Less(ended[s])
      BY <1>1, <3>1 DEF Less
    <3>3. QED
      BY <3>1, <3>2, ShrunkTyped
  <2>3. QED
    BY <2>1, <2>2 DEF Dated
<1>10. CASE UNCHANGED lifeVars
  BY <1>10 DEF lifeVars, store, ghost, Dated
<1>11. QED
  BY <1>2, <1>3, <1>4, <1>5, <1>6, <1>7, <1>8, <1>9, <1>10, StepKinds

\* Remembered, of one structure.
Remembers(s) ==
    /\ tombs[s] \in {0, ended[s]}
    /\ ended[s] > 0 =>
          /\ stage \in Up => dead[s] >= ended[s]
          /\ tombs[s] = ended[s] \/ (stage \in Up /\ Burying(s))

\* The end of a structure is remembered by the worker, the rows or a write.
LEMMA RememberedNext ==
  ASSUME LifeTypeOK, ArmedIsLive, Dated, Remembered, [LifeNext]_lifeVars, Dated', LifeTypeOK'
  PROVE  Remembered'
<1> USE SetupAssumption
<1> SUFFICES ASSUME NEW s \in Structure, s \notin lost' PROVE Remembers(s)'
  BY DEF Remembered, Remembers
<1>1. /\ tombs[s] \in 0..ConsumedTtl /\ ended[s] \in 0..ConsumedTtl
      /\ dead[s] \in 0..ConsumedTtl
  BY DEF LifeTypeOK, Left
<1>2. s \notin lost => Remembers(s)
  BY DEF Remembered, Remembers
<1>3. CASE stage \in Up /\ armed # NoSetup /\ EndArmed
  <2>1. Remembers(s) /\ stage' \in Up /\ tombs' = tombs
    BY <1>2, <1>3, EndArmedBuries
  <2>2. CASE s = armed.id
    <3>1. dead'[s] = ConsumedTtl /\ ended'[s] = ConsumedTtl
      BY <1>3, <2>2, EndArmedBuries DEF LifeTypeOK, Left
    <3>2. Burying(s)'
      <4> DEFINE w == [doc |-> "tomb", id |-> armed.id, ttl |-> ConsumedTtl]
      <4>1. w \in writes'
        BY <1>3, EndArmedBuries
      <4>2. w.doc = "tomb" /\ w.id = s
        BY <2>2
      <4>3. QED
        BY <4>1, <4>2 DEF Burying
    <3>3. tombs[s] = 0
      BY <1>1, <1>3, <2>1, <2>2, EndArmedBuries DEF Remembers
    <3>4. QED
      BY <2>1, <3>1, <3>2, <3>3 DEF Remembers
  <2>3. CASE s # armed.id
    <3>1. dead'[s] = dead[s] /\ ended'[s] = ended[s]
      BY <1>3, <2>3, EndArmedBuries DEF LifeTypeOK, Left
    <3>2. Burying(s) => Burying(s)'
      BY <1>3, EndArmedBuries DEF Burying
    <3>3. QED
      BY <1>3, <2>1, <3>1, <3>2 DEF Remembers
  <2>4. QED
    BY <2>2, <2>3
<1>4. CASE Calm
  <2>1. s \notin lost
    BY <1>4, CalmKeeps DEF ghost
  <2>2. QED
    BY <1>2, <1>4, <2>1, CalmKeeps DEF Remembers, Burying, ghost
<1>5. CASE WatchCancelled \/ WatchPromoted
  <2>1. s \notin lost
    BY <1>5, WatchKeeps DEF ghost
  <2>2. QED
    BY <1>2, <1>5, <2>1, WatchKeeps DEF Remembers, Burying, ghost
<1>6. CASE Persist
  <2>1. s \notin lost
    BY <1>6, PersistKeeps DEF ghost
  <2>2. stage' \in Up
    BY <1>6, PersistKeeps DEF Up
  <2>3. QED
    BY <1>2, <1>6, <2>1, <2>2, PersistKeeps DEF Remembers, Burying, ghost, mem
<1>7. CASE \E w \in writes : Land(w) \/ Lose(w)
  <2>1. PICK w \in writes : Land(w) \/ Lose(w)
    BY <1>7
  <2>2. UNCHANGED <<stage, dead, ended>> /\ writes' = writes \ {w} /\ lost \subseteq lost'
    BY <2>1 DEF Land, Lose, mem, ghost
  <2>3. Remembers(s)
    BY <1>2, <2>2
  <2>4. CASE w.doc = "tomb" /\ w.id = s
    <3>1. tombs'[s] = ended[s]
      <4>1. CASE Land(w)
        <5>1. Landed(w)
          BY <4>1 DEF Land
        <5>2. QED
          BY <2>1, <2>4, <5>1, LandedTombs
      <4>2. CASE Lose(w)
        BY <2>3, <2>4, <4>2 DEF Lose, Remembers
      <4>3. QED
        BY <2>1, <4>1, <4>2
    <3>2. QED
      BY <2>2, <2>3, <3>1 DEF Remembers
  <2>5. CASE ~(w.doc = "tomb" /\ w.id = s)
    <3>1. Burying(s) => Burying(s)'
      BY <2>2, <2>5 DEF Burying
    <3>2. tombs'[s] \in {tombs[s], ended[s]}
      BY <2>1, LandedTombs DEF Land, Lose
    <3>3. QED
      BY <2>2, <2>3, <3>1, <3>2 DEF Remembers
  <2>6. QED
    BY <2>4, <2>5
<1>8. CASE Crash
  <2>1. s \notin lost /\ UNCHANGED <<tombs, ended>> /\ stage' \notin Up
    BY <1>8 DEF Crash, store, Up
  <2>2. Burying(s) => tombs[s] # 0
    BY <1>8 DEF Crash, Burying
  <2>3. QED
    BY <1>2, <2>1, <2>2 DEF Remembers
<1>9. CASE RestoreTombs
  <2>1. s \notin lost /\ UNCHANGED <<tombs, ended>> /\ dead' = tombs /\ stage \notin Up
    BY <1>9 DEF RestoreTombs, store, ghost, Up
  <2>2. QED
    BY <1>1, <1>2, <2>1 DEF Remembers
<1>10. CASE TimePasses
  <2>1. /\ writes = {} /\ stage' = stage
        /\ tombs'[s] = Less(tombs[s]) /\ ended'[s] = Less(ended[s]) /\ dead'[s] = Less(dead[s])
    BY <1>10, ShrunkTyped DEF TimePasses, LifeTypeOK
  <2>2. CASE s \notin lost
    <3>1. Remembers(s) /\ ~Burying(s)
      BY <1>2, <2>1, <2>2 DEF Burying
    <3>2. QED
      BY <1>1, <2>1, <3>1 DEF Remembers, Less
  <2>3. CASE s \in lost
    <3>1. ~(ended'[s] > 0)
      BY <1>10, <2>3 DEF TimePasses
    <3>2. tombs'[s] <= ended'[s]
      BY DEF Dated
    <3>3. tombs'[s] \in Nat /\ ended'[s] \in Nat
      BY DEF LifeTypeOK, Left
    <3>4. tombs'[s] = 0
      BY <3>1, <3>2, <3>3
    <3>5. QED
      BY <3>1, <3>4 DEF Remembers
  <2>4. QED
    BY <2>2, <2>3
<1>11. CASE UNCHANGED lifeVars
  BY <1>2, <1>11 DEF lifeVars, mem, store, ghost, Remembers, Burying
<1>12. QED
  BY <1>3, <1>4, <1>5, <1>6, <1>7, <1>8, <1>9, <1>10, <1>11, StepKinds

-----------------------------------------------------------------------------
(* The theorems.                                                            *)

\* Every step preserves the invariant.
LEMMA SetupInvNext == SetupInv /\ [LifeNext]_lifeVars => SetupInv'
<1> SUFFICES ASSUME SetupInv, [LifeNext]_lifeVars PROVE SetupInv'
  OBVIOUS
<1>1. /\ LifeTypeOK /\ Bounded /\ Single /\ Awaits /\ ArmedIsLive /\ Dated /\ Remembered
  BY DEF SetupInv
<1>2. LifeTypeOK' /\ Bounded'
  BY <1>1, TypedNext
<1>3. Single' /\ Awaits'
  BY <1>1, SingleNext
<1>4. ArmedIsLive'
  BY <1>1, ArmedIsLiveNext
<1>5. Dated'
  BY <1>1, DatedNext
<1>6. Remembered'
  BY <1>1, <1>2, <1>5, RememberedNext
<1>7. QED
  BY <1>2, <1>3, <1>4, <1>5, <1>6 DEF SetupInv

\* The inductive invariant holds whatever the structures, the lives of setups,
\* watches and tombstones, and the number of writes under way.
THEOREM SetupInvariant == LifeSpec => []SetupInv
<1>1. LifeInit => SetupInv
  BY SetupInvInit
<1>2. SetupInv /\ [LifeNext]_lifeVars => SetupInv'
  BY SetupInvNext
<1>3. QED
  BY <1>1, <1>2, PTL DEF LifeSpec

\* EntryLifecycleV2 and the three collections only hold values of their types.
THEOREM SetupTypes == LifeSpec => []LifeTypeOK
<1>1. SetupInv => LifeTypeOK
  BY DEF SetupInv
<1>2. QED
  BY <1>1, SetupInvariant, PTL

\* No interleaving of scans, monitors, late writes and restarts leaves a symbol
\* with an armed setup and a watch at once.
THEOREM SetupOneTracked == LifeSpec => []OneTracked
<1>1. SetupInv => OneTracked
  BY DEF SetupInv, Single, OneTracked
<1>2. QED
  BY <1>1, SetupInvariant, PTL

\* A running worker never holds a setup that its own tombstones forbid.
THEOREM SetupArmedIsLive == LifeSpec => []ArmedIsLive
<1>1. SetupInv => ArmedIsLive
  BY DEF SetupInv
<1>2. QED
  BY <1>1, SetupInvariant, PTL

\* A setup appears by being armed, which a tombstone forbids, or by a restore,
\* which a tombstone row overrules: in both cases its end was lost, or is over.
LEMMA EndedOnceStep ==
  ASSUME SetupInv, [LifeNext]_lifeVars, NEW s \in Structure,
         Follows(s)', ~Follows(s), ended[s] > 0
  PROVE  s \in lost
<1> USE SetupAssumption
<1>1. SUFFICES ASSUME s \notin lost PROVE FALSE
  OBVIOUS
<1>2. /\ dead[s] \in Nat /\ ended[s] \in Nat /\ tombs[s] \in Nat
      /\ armed \in Tracked(ArmedTtl) \cup {NoSetup}
  BY DEF SetupInv, LifeTypeOK, Left
<1>3. /\ stage \in Up => dead[s] # 0
      /\ stage \notin Up => tombs[s] # 0
  BY <1>1, <1>2 DEF SetupInv, Remembered
<1>4. CASE ScanArmed \/ ArmedPriority
  BY <1>4 DEF ScanArmed, ArmedPriority, EndArmed, Follows
<1>5. CASE ScanFree
  <2>1. PICK r \in Structure : DiscoverArmed(r) \/ DiscoverWatch(r)
    BY <1>5 DEF ScanFree
  <2>2. CASE DiscoverArmed(r)
    <3>1. r = s /\ dead[s] = 0 /\ stage \in Up
      BY <1>5, <2>2 DEF ScanFree, DiscoverArmed, ArmNow, MayArm, Follows, Up
    <3>2. QED
      BY <1>3, <3>1
  <2>3. CASE DiscoverWatch(r)
    BY <1>5, <2>3 DEF ScanFree, DiscoverWatch, Follows
  <2>4. QED
    BY <2>1, <2>2, <2>3
<1>6. CASE WatchPromoted
  <2>1. dead[s] = 0 /\ stage \in Up
    BY <1>6 DEF WatchPromoted, Promotes, ArmNow, MayArm, Follows, Up
  <2>2. QED
    BY <1>3, <2>1
<1>7. CASE PollWatch \/ WatchPending \/ WatchCancelled
  BY <1>7 DEF PollWatch, WatchPending, WatchCancelled, Follows
<1>8. CASE Persist
  BY <1>8, PersistKeeps DEF Follows, mem
<1>9. CASE \E w \in writes : Land(w) \/ Lose(w)
  BY <1>9 DEF Land, Lose, mem, Follows
<1>10. CASE Crash \/ RestartWorker \/ RestoreArmed \/ RestoreWatch \/ RestoreTerminal
  BY <1>10 DEF Crash, RestartWorker, RestoreArmed, RestoreWatch, RestoreTerminal, Follows, Up
<1>11. CASE RestoreTombs
  <2>1. stage \notin Up /\ armed # NoSetup /\ armed.id = s /\ ~Buried
    BY <1>11 DEF RestoreTombs, Follows, Up
  <2>2. tombs[s] = 0
    BY <1>2, <2>1 DEF Buried
  <2>3. QED
    BY <1>3, <2>1, <2>2
<1>12. CASE TimePasses
  <2>1. CASE armed = NoSetup
    BY <1>12, <2>1 DEF TimePasses, Follows
  <2>2. CASE armed # NoSetup
    <3>1. armed' = Aged(armed) /\ stage' = stage
      BY <1>12, <2>2 DEF TimePasses
    <3>2. armed'.id = armed.id
      BY <1>2, <2>2, <3>1, AgedTracked
    <3>3. QED
      BY <2>2, <3>1, <3>2 DEF Follows
  <2>3. QED
    BY <2>1, <2>2
<1>13. CASE UNCHANGED lifeVars
  BY <1>13 DEF lifeVars, mem, Follows
<1>14. QED
  BY <1>4, <1>5, <1>6, <1>7, <1>8, <1>9, <1>10, <1>11, <1>12, <1>13 DEF LifeNext, Restore

\* A consumed setup is not armed or restored again within the life of its
\* tombstone, unless a crash or an outage lost every trace of the tombstone.
THEOREM SetupEndedOnce == LifeSpec => EndedOnce
<1>1. SetupInv /\ [LifeNext]_lifeVars =>
        [\A s \in Structure : Follows(s)' /\ ~Follows(s) /\ ended[s] > 0 => s \in lost]_lifeVars
  BY EndedOnceStep
<1>2. QED
  BY <1>1, SetupInvariant, PTL DEF LifeSpec, EndedOnce

-----------------------------------------------------------------------------
(* The promise.                                                             *)

\* What SetupPromise sees of the structures in memory.
LEMMA SeenTyped ==
  ASSUME LifeTypeOK
  PROVE  /\ Watched \in Structure \cup {NoSetup} /\ Armed \in Structure \cup {NoSetup}
         /\ Barred \subseteq Structure
         /\ armed # NoSetup => armed.id \in Structure /\ armed.id # NoSetup
         /\ watch # NoSetup => watch.id \in Structure /\ watch.id # NoSetup
BY SetupAssumption DEF LifeTypeOK, Tracked, Watched, Armed, Barred

\* The lifecycle starts as the promise does.
LEMMA PromiseInit == LifeInit => Promise!Init
BY DEF LifeInit, Promise!Init, Running, Watched, Armed, Barred, Up, Nothing

\* Every step of the lifecycle is a step of the promise, or none of it.
LEMMA PromiseNext == SetupInv /\ SetupInv' /\ [LifeNext]_lifeVars => [Promise!Next]_(Promise!vars)
<1> SUFFICES ASSUME SetupInv, SetupInv', [LifeNext]_lifeVars
             PROVE  [Promise!Next]_(Promise!vars)
  OBVIOUS
<1> USE SetupAssumption
<1>a. LifeTypeOK /\ LifeTypeOK' /\ Single /\ Single' /\ ArmedIsLive /\ ArmedIsLive'
  BY DEF SetupInv
<1>b. \A s \in Structure : dead[s] \in Nat /\ dead'[s] \in Nat
  BY <1>a DEF LifeTypeOK, Left
<1>c. ASSUME UNCHANGED <<Running, Watched, Armed, Barred>>
      PROVE  [Promise!Next]_(Promise!vars)
  BY <1>c DEF Promise!vars
<1>d. ASSUME Running, Running', Promise!Follow
      PROVE  [Promise!Next]_(Promise!vars)
  BY <1>d DEF Promise!Next
<1>1. CASE ScanArmed \/ ArmedPriority
  <2>1. Running /\ Running' /\ armed # NoSetup /\ EndArmed
    BY <1>1 DEF ScanArmed, ArmedPriority, ArmedSymbol, EndArmed, Running, Up
  <2>2. Armed = armed.id /\ Armed # NoSetup /\ Armed' = NoSetup /\ Watched' = Watched
    BY <1>a, <2>1, SeenTyped DEF EndArmed, Armed, Watched
  <2>3. Barred' = Barred \cup {Armed}
    <3>1. dead' = [dead EXCEPT ![armed.id] = ConsumedTtl] /\ armed.id \in Structure
      BY <1>a, <2>1, EndArmedBuries DEF Running
    <3>2. QED
      BY <1>a, <2>1, <2>2, <3>1 DEF Barred, LifeTypeOK, Left
  <2>4. Promise!End
    BY <2>2, <2>3 DEF Promise!End
  <2>5. QED
    BY <1>d, <2>1, <2>4 DEF Promise!Follow
<1>2. CASE ScanFree
  <2>1. PICK s \in Structure : DiscoverArmed(s) \/ DiscoverWatch(s)
    BY <1>2 DEF ScanFree
  <2>2. Running /\ Running' /\ armed = NoSetup /\ watch = NoSetup /\ dead' = dead
    BY <1>2, <2>1 DEF ScanFree, DiscoverArmed, DiscoverWatch, ArmNow, Running, Up
  <2>3. Armed = NoSetup /\ Watched = NoSetup /\ Barred' = Barred
    BY <2>2 DEF Armed, Watched, Barred
  <2>4. CASE DiscoverArmed(s)
    <3>1. armed' = [id |-> s, ttl |-> ArmedTtl] /\ watch' = watch
      BY <2>4 DEF DiscoverArmed, ArmNow
    <3>2. armed' # NoSetup
      BY <3>1
    <3>3. Armed' = s /\ Watched' = NoSetup
      BY <2>2, <3>1, <3>2 DEF Armed, Watched
    <3>4. s \notin Barred
      BY <1>b, <2>4 DEF DiscoverArmed, MayArm, Barred
    <3>5. Promise!Arm(s)
      BY <2>3, <3>3, <3>4 DEF Promise!Arm
    <3>6. QED
      BY <1>d, <2>2, <3>5 DEF Promise!Follow
  <2>5. CASE DiscoverWatch(s)
    <3>1. watch' = [id |-> s, ttl |-> WatchTtl] /\ armed' = armed
      BY <2>5 DEF DiscoverWatch
    <3>2. watch' # NoSetup
      BY <3>1
    <3>3. Armed' = NoSetup /\ Watched' = s
      BY <2>2, <3>1, <3>2 DEF Armed, Watched
    <3>4. Promise!Watch(s)
      BY <2>3, <3>3 DEF Promise!Watch
    <3>5. QED
      BY <1>d, <2>2, <3>4 DEF Promise!Follow
  <2>6. QED
    BY <2>1, <2>4, <2>5
<1>3. CASE PollWatch \/ WatchPending
  <2>1. UNCHANGED <<stage, armed, watch, dead>>
    BY <1>3 DEF PollWatch, WatchPending
  <2>2. QED
    BY <1>c, <2>1 DEF Running, Watched, Armed, Barred
<1>4. CASE WatchCancelled
  <2>1. /\ Running /\ Running' /\ watch # NoSetup /\ watch' = NoSetup
        /\ UNCHANGED <<armed, dead, stage>>
    BY <1>4 DEF WatchCancelled, Running, Up
  <2>2. Watched # NoSetup /\ Watched' = NoSetup /\ Armed' = Armed /\ Barred' = Barred
    BY <1>a, <2>1, SeenTyped DEF Watched, Armed, Barred, Running
  <2>3. Promise!GiveUp
    BY <2>2 DEF Promise!GiveUp
  <2>4. QED
    BY <1>d, <2>1, <2>3 DEF Promise!Follow
<1>5. CASE WatchPromoted
  <2>1. PICK s \in Structure : Promotes(s) /\ ArmNow(s)
    BY <1>5 DEF WatchPromoted
  <2>2. /\ Running /\ Running' /\ watch # NoSetup /\ watch' = NoSetup /\ dead' = dead
        /\ armed' = [id |-> s, ttl |-> ArmedTtl]
    BY <1>5, <2>1 DEF WatchPromoted, ArmNow, Running, Up
  <2>3. armed = NoSetup /\ armed' # NoSetup
    BY <1>a, <2>2 DEF Single
  <2>4. /\ Armed = NoSetup /\ Watched = watch.id /\ Armed' = s /\ Watched' = NoSetup
        /\ Barred' = Barred
    BY <2>2, <2>3 DEF Watched, Armed, Barred
  <2>5. s \notin Barred /\ Side(s) = Side(watch.id)
    BY <1>b, <2>1 DEF Promotes, MayArm, Barred
  <2>6. Promise!Arm(s)
    BY <2>4, <2>5 DEF Promise!Arm
  <2>7. QED
    BY <1>d, <2>2, <2>6 DEF Promise!Follow
<1>6. CASE Persist
  <2>1. Running <=> Running'
    BY <1>6, PersistKeeps DEF Running, Up
  <2>2. UNCHANGED <<armed, watch, dead>>
    BY <1>6, PersistKeeps DEF mem
  <2>3. QED
    BY <1>c, <2>1, <2>2 DEF Running, Watched, Armed, Barred
<1>7. CASE \E w \in writes : Land(w) \/ Lose(w)
  <2>1. UNCHANGED <<stage, armed, watch, dead>>
    BY <1>7 DEF Land, Lose, mem
  <2>2. QED
    BY <1>c, <2>1 DEF Running, Watched, Armed, Barred
<1>8. CASE Crash
  <2>1. ~Running'
    BY <1>8 DEF Crash, Running, Up
  <2>2. Watched' = NoSetup /\ Armed' = NoSetup /\ Barred' = {}
    BY <2>1 DEF Watched, Armed, Barred
  <2>3. CASE Running
    BY <2>1, <2>2, <2>3 DEF Promise!Next, Promise!Crash
  <2>4. CASE ~Running
    <3>1. Watched = NoSetup /\ Armed = NoSetup /\ Barred = {}
      BY <2>4 DEF Watched, Armed, Barred
    <3>2. QED
      BY <1>c, <2>1, <2>2, <2>4, <3>1 DEF Running
  <2>5. QED
    BY <2>3, <2>4
<1>9. CASE RestartWorker \/ RestoreArmed \/ RestoreWatch \/ RestoreTerminal
  <2>1. ~Running /\ ~Running'
    BY <1>9 DEF RestartWorker, RestoreArmed, RestoreWatch, RestoreTerminal, Running, Up
  <2>2. UNCHANGED <<Watched, Armed, Barred>>
    BY <2>1 DEF Watched, Armed, Barred
  <2>3. QED
    BY <1>c, <2>1, <2>2 DEF Running
<1>10. CASE RestoreTombs
  <2>1. ~Running /\ Running'
    BY <1>10 DEF RestoreTombs, Running, Up
  <2>2. Watched' = NoSetup \/ Armed' = NoSetup
    BY <1>a DEF Single, Watched, Armed
  <2>3. Armed' \notin Barred'
    BY <1>a DEF ArmedIsLive, Armed, Barred, Running
  <2>4. /\ Watched' \in Structure \cup {NoSetup} /\ Armed' \in Structure \cup {NoSetup}
        /\ Barred' \in SUBSET Structure
    BY <1>a DEF LifeTypeOK, Tracked, Watched, Armed, Barred
  <2>5. Promise!Recover(Watched', Armed', Barred')
    BY <2>2, <2>3 DEF Promise!Recover
  <2>6. QED
    BY <2>1, <2>4, <2>5 DEF Promise!Next
<1>11. CASE TimePasses
  <2>1. stage' = stage /\ (Running <=> Running')
    BY <1>11 DEF TimePasses, Running
  <2>2. Watched' = Watched /\ Armed' = Armed
    <3>1. armed # NoSetup => armed' # NoSetup /\ armed'.id = armed.id
      BY <1>a, <1>11, AgedTracked DEF TimePasses, LifeTypeOK
    <3>2. watch # NoSetup => watch' # NoSetup /\ watch'.id = watch.id
      BY <1>a, <1>11, AgedTracked DEF TimePasses, LifeTypeOK
    <3>3. (armed = NoSetup => armed' = NoSetup) /\ (watch = NoSetup => watch' = NoSetup)
      BY <1>11 DEF TimePasses
    <3>4. QED
      BY <2>1, <3>1, <3>2, <3>3 DEF Watched, Armed
  <2>3. Barred' \subseteq Barred
    <3>1. \A s \in Structure : dead[s] = 0 => dead'[s] = 0
      BY <1>a, <1>11, ShrunkTyped DEF TimePasses, LifeTypeOK
    <3>2. QED
      BY <1>b, <2>1, <3>1 DEF Barred
  <2>4. CASE Running
    <3> DEFINE S == Barred \ Barred'
    <3>1. Armed \notin S
      BY <1>a, <2>4, SeenTyped DEF ArmedIsLive, Armed, Barred, Running
    <3>2. Barred' = Barred \ S
      BY <2>3
    <3>3. Promise!Lapse(S)
      BY <2>2, <3>1, <3>2 DEF Promise!Lapse
    <3>4. S \in SUBSET Structure
      BY DEF Barred
    <3>5. QED
      BY <1>d, <2>1, <2>4, <3>3, <3>4 DEF Promise!Follow
  <2>5. CASE ~Running
    <3>1. Barred = {} /\ Barred' = {}
      BY <2>1, <2>5 DEF Barred
    <3>2. QED
      BY <1>c, <2>1, <2>2, <3>1
  <2>6. QED
    BY <2>4, <2>5
<1>12. CASE UNCHANGED lifeVars
  BY <1>c, <1>12 DEF lifeVars, mem, Running, Watched, Armed, Barred
<1>13. QED
  BY <1>1, <1>2, <1>3, <1>4, <1>5, <1>6, <1>7, <1>8, <1>9, <1>10, <1>11, <1>12
  DEF LifeNext, Restore

\* The setup lifecycle implements SetupPromise: an armed structure is followed
\* until it ends, an ended one is barred, and a restart follows nothing barred.
THEOREM SetupKeepsPromise == LifeSpec => KeepsPromise
<1>1. LifeInit => Promise!Init
  BY PromiseInit
<1>2. SetupInv /\ SetupInv' /\ [LifeNext]_lifeVars => [Promise!Next]_(Promise!vars)
  BY PromiseNext
<1>3. QED
  BY <1>1, <1>2, SetupInvariant, PTL DEF LifeSpec, KeepsPromise, Promise!Spec

=============================================================================
