--------------------------- MODULE SetupLifecycle ---------------------------
(***************************************************************************)
(* The setups of one symbol of an account: what the scanner discovers, the *)
(* monitors follow and the strategy router consumes, how it is stored, and *)
(* what a restarted worker makes of the rows.                              *)
(*                                                                         *)
(* A structure stands for the signature of a StrategyCandidate: setup_id   *)
(* and watch_id are both derived from it.  Times are what is left of them, *)
(* in units of about ten minutes (a setup lives one, a watch three, a      *)
(* tombstone six).  A write or a request takes less than a unit.           *)
(***************************************************************************)
EXTENDS Integers, FiniteSets

CONSTANTS
    Structure,
    Side(_),          \* strategy and direction of a structure
    NoSetup,
    ArmedTtl, WatchTtl, ConsumedTtl,
    MaxWrites         \* bound: writes under way when a snapshot is processed

ASSUME SetupAssumption ==
    /\ NoSetup \notin Structure \cup [id : Structure, ttl : Nat]
    /\ {ArmedTtl, WatchTtl, ConsumedTtl} \subseteq Nat \ {0}
    /\ MaxWrites \in Nat
    /\ ArmedTtl <= ConsumedTtl /\ WatchTtl <= ConsumedTtl

VARIABLES
    stage,        \* what on_snapshot, or _build_runtime, is waiting for
    armed,        \* armed_setups of the symbol: [id, ttl] or NoSetup
    watch,        \* watching_setups of the symbol: [id, ttl] or NoSetup
    dead,         \* _consumed: what is left of the tombstone of a setup id
    deadW,        \* _consumed_watches
    polled,       \* the watch monitor took a snapshot, not processed yet
    armedRow,     \* armed_setups in the database: [id, ttl] if active, or NoSetup
    watchRow,     \* setup_watches: [id, active, ttl] or NoSetup
    tombs,        \* armed_consumed_setups: what is left of each row
    writes,       \* upserts under way in threads or background tasks
    ended,        \* ghost: what is left of the promise not to arm s again
    lost          \* ghost: structures whose tombstone did not survive

mem == <<armed, watch, dead, deadW, polled>>
store == <<armedRow, watchRow, tombs, writes>>
ghost == <<ended, lost>>
lifeVars == <<stage, mem, store, ghost>>

Tracked(ttl) == [id : Structure, ttl : 0..ttl]
Left == [Structure -> 0..ConsumedTtl]
Write == [doc : {"armedOn", "armedOff", "watchOn", "watchOff", "tomb"},
          id : Structure, ttl : 0..ConsumedTtl]
Up == {"idle", "saveArmed", "saveWatch"}

LifeTypeOK ==
    /\ stage \in Up \cup {"down", "readArmed", "readWatch", "readTerminal", "readTombs"}
    /\ armed \in Tracked(ArmedTtl) \cup {NoSetup}
    /\ watch \in Tracked(WatchTtl) \cup {NoSetup}
    /\ dead \in Left /\ deadW \in Left
    /\ polled \in BOOLEAN
    /\ armedRow \in Tracked(ArmedTtl) \cup {NoSetup}
    /\ watchRow \in [id : Structure, active : BOOLEAN, ttl : 1..WatchTtl] \cup {NoSetup}
    /\ tombs \in Left
    /\ writes \subseteq Write
    /\ ended \in Left
    /\ lost \subseteq Structure

Nothing == [s \in Structure |-> 0]

LifeInit ==
    /\ stage = "idle"
    /\ armed = NoSetup /\ watch = NoSetup
    /\ dead = Nothing /\ deadW = Nothing
    /\ polled = FALSE
    /\ armedRow = NoSetup /\ watchRow = NoSetup /\ tombs = Nothing
    /\ writes = {}
    /\ ended = Nothing /\ lost = {}

-----------------------------------------------------------------------------
(* The engine: EntryLifecycleV2 and its tombstones.                         *)

Longer(a, b) == IF a >= b THEN a ELSE b

\* consume
Consumed(t) == Longer(ConsumedTtl, t.ttl)

\* Mutant: arm does not look at the tombstones.
MayArmUnchecked(s) == TRUE

\* arm and watch refuse a structure with a tombstone of their kind.
MayArm(s) == dead[s] = 0
MayWatch(s) == deadW[s] = 0

\* Mutant: a triggered setup is not consumed.
UntilForgotten(t) == dead[t.id]

\* trigger keeps the tombstone of a setup that is already consumed.
Until(t) == IF dead[t.id] > 0 THEN dead[t.id] ELSE Consumed(t)

-----------------------------------------------------------------------------
(* Writes.  The two documents of a symbol are keyed by the symbol.          *)

\* The bound on writes under way, asked before a snapshot changes anything.
Room == Cardinality(writes) <= MaxWrites

Upsert(doc, t) == [doc |-> doc, id |-> t.id, ttl |-> t.ttl]

\* _schedule_armed_terminal: the record of the tombstone gives the expiry.
ArmedTerminal(t) ==
    {Upsert("armedOff", t), [doc |-> "tomb", id |-> t.id, ttl |-> Until(t)]}

\* _schedule_watch_terminal: the row expires with the watch.
WatchTerminal(t) == {Upsert("watchOff", t)}

\* The effect of an upsert on the collections.
Landed(w) ==
    /\ armedRow' = IF w.doc = "armedOn" THEN [id |-> w.id, ttl |-> w.ttl]
                   ELSE IF w.doc = "armedOff" THEN NoSetup
                   ELSE armedRow
    /\ watchRow' = IF w.doc \notin {"watchOn", "watchOff"} THEN watchRow
                   ELSE IF w.ttl = 0 THEN NoSetup
                   ELSE [id |-> w.id, active |-> w.doc = "watchOn", ttl |-> w.ttl]
    /\ tombs' = IF w.doc = "tomb" THEN [tombs EXCEPT ![w.id] = w.ttl] ELSE tombs

\* A thread that timed out may land after its task gave up or tried again.
Land(w) ==
    /\ w \in writes
    /\ Landed(w)
    /\ writes' = writes \ {w}
    /\ UNCHANGED <<stage, mem, ghost>>

\* The retries are exhausted, or the write died with its process.
Lose(w) ==
    /\ w \in writes
    /\ writes' = writes \ {w}
    /\ lost' = IF w.doc = "tomb" /\ tombs[w.id] = 0 THEN lost \cup {w.id} ELSE lost
    /\ UNCHANGED <<stage, mem, armedRow, watchRow, tombs, ended>>

-----------------------------------------------------------------------------
(* Entries.                                                                 *)

\* A setup is armed; its row is awaited.
ArmNow(s) ==
    /\ armed' = [id |-> s, ttl |-> ArmedTtl]
    /\ stage' = "saveArmed"

\* discover_armed: a complete structure that is not consumed is armed.
DiscoverArmed(s) ==
    /\ MayArm(s)
    /\ ArmNow(s)
    /\ UNCHANGED <<watch, dead, deadW, polled, store, ghost>>

\* discover_watch: a precursor that is not consumed is watched.
DiscoverWatch(s) ==
    /\ MayWatch(s)
    /\ watch' = [id |-> s, ttl |-> WatchTtl]
    /\ stage' = "saveWatch"
    /\ UNCHANGED <<armed, dead, deadW, polled, store, ghost>>

\* The armed setup triggers, or trigger_armed cancels it.
EndArmed ==
    /\ armed' = NoSetup
    /\ dead' = [dead EXCEPT ![armed.id] = Until(armed)]
    /\ writes' = writes \cup ArmedTerminal(armed)
    /\ ended' = [ended EXCEPT ![armed.id] = ConsumedTtl]
    /\ UNCHANGED <<stage, watch, deadW, armedRow, watchRow, tombs, lost>>

\* The scanner's snapshot: a setup is followed up, a watch is left to its
\* monitor, and only a symbol without either is searched.
ScanArmed ==
    /\ stage = "idle" /\ armed # NoSetup /\ Room
    /\ EndArmed
    /\ UNCHANGED polled

ScanFree ==
    /\ stage = "idle" /\ armed = NoSetup /\ watch = NoSetup
    /\ Room
    /\ \E s \in Structure : DiscoverArmed(s) \/ DiscoverWatch(s)

-----------------------------------------------------------------------------
(* The priority monitors: a snapshot is taken for what has not expired, and *)
(* processed, perhaps later, when the account's lock is free.  A snapshot   *)
(* for the setup does what the scanner's would do, unless it finds none.    *)

WatchingSymbol == watch # NoSetup /\ watch.ttl > 0

PollWatch ==
    /\ stage \in Up /\ WatchingSymbol
    /\ polled' = TRUE
    /\ UNCHANGED <<stage, armed, watch, dead, deadW, store, ghost>>

\* There is nothing to follow any more, or advance_watch returns pending.
WatchPending ==
    /\ stage = "idle" /\ polled
    /\ watch # NoSetup => watch.ttl > 0
    /\ polled' = FALSE
    /\ UNCHANGED <<stage, armed, watch, dead, deadW, store, ghost>>

ArmedSymbol == armed # NoSetup /\ armed.ttl > 0

ArmedPriority ==
    /\ stage = "idle" /\ ArmedSymbol /\ Room
    /\ EndArmed
    /\ UNCHANGED polled

\* advance_watch: expired, invalidated, its regime gone, another side, or a
\* complete structure that is consumed: the watch is cancelled.
WatchCancelled ==
    /\ stage = "idle" /\ polled /\ watch # NoSetup /\ Room
    /\ polled' = FALSE
    /\ watch' = NoSetup
    /\ deadW' = [deadW EXCEPT ![watch.id] = Consumed(watch)]
    /\ writes' = writes \cup WatchTerminal(watch)
    /\ UNCHANGED <<stage, armed, dead, armedRow, watchRow, tombs, ghost>>

\* advance_watch arms a complete structure of the same side.
Promotes(s) ==
    /\ watch.ttl > 0
    /\ Side(s) = Side(watch.id)
    /\ MayArm(s)

WatchPromoted ==
    /\ stage = "idle" /\ polled /\ watch # NoSetup /\ Room
    /\ \E s \in Structure : Promotes(s) /\ ArmNow(s)
    /\ polled' = FALSE
    /\ watch' = NoSetup
    /\ deadW' = [deadW EXCEPT ![watch.id] = Consumed(watch)]
    /\ writes' = writes \cup WatchTerminal(watch)
    /\ UNCHANGED <<dead, armedRow, watchRow, tombs, ghost>>

-----------------------------------------------------------------------------
(* The awaited write of an ACTIVE row: it lands, and may still be under way *)
(* in a thread that the timeout left behind, or it fails and may land later.*)

PersistArmed ==
    LET w == Upsert("armedOn", armed)
    IN  /\ stage = "saveArmed"
        /\ stage' = "idle"
        /\ \/ Landed(w) \/ UNCHANGED <<armedRow, watchRow, tombs>>
        /\ writes' \in {writes, writes \cup {w}}
        /\ UNCHANGED <<mem, ghost>>

PersistWatch ==
    LET w == Upsert("watchOn", watch)
    IN  /\ stage = "saveWatch"
        /\ stage' = "idle"
        /\ \/ Landed(w) \/ UNCHANGED <<armedRow, watchRow, tombs>>
        /\ writes' \in {writes, writes \cup {w}}
        /\ UNCHANGED <<mem, ghost>>

-----------------------------------------------------------------------------
(* Crash and restart.  The requests of the old process may still land.      *)

Crash ==
    /\ stage # "down"
    /\ stage' = "down"
    /\ armed' = NoSetup /\ watch' = NoSetup
    /\ dead' = Nothing /\ deadW' = Nothing /\ polled' = FALSE
    /\ lost' = lost \cup {w.id : w \in {x \in writes : x.doc = "tomb" /\ tombs[x.id] = 0}}
    /\ UNCHANGED <<store, ended>>

RestartWorker ==
    /\ stage = "down"
    /\ stage' = "readArmed"
    /\ UNCHANGED <<mem, store, ghost>>

\* Mutant: the setups are read from the rows of the watches.
RestoreArmedFromWatches ==
    /\ stage = "readArmed"
    /\ stage' = "readWatch"
    /\ armed' = watchRow
    /\ UNCHANGED <<watch, dead, deadW, polled, store, ghost>>

\* ACTIVE setups that have not expired.
RestoreArmed ==
    /\ stage = "readArmed"
    /\ stage' = "readWatch"
    /\ armed' = armedRow
    /\ UNCHANGED <<watch, dead, deadW, polled, store, ghost>>

\* Mutant: a watch is restored beside the setup of its symbol.
RestoreWatchAnyway ==
    /\ stage = "readWatch"
    /\ stage' = "readTerminal"
    /\ watch' = IF watchRow # NoSetup /\ watchRow.active
                THEN [id |-> watchRow.id, ttl |-> watchRow.ttl]
                ELSE NoSetup
    /\ UNCHANGED <<armed, dead, deadW, polled, store, ghost>>

\* ACTIVE watches, unless the symbol already has a setup.
RestoreWatch ==
    /\ stage = "readWatch"
    /\ stage' = "readTerminal"
    /\ watch' = IF armed = NoSetup /\ watchRow # NoSetup /\ watchRow.active
                THEN [id |-> watchRow.id, ttl |-> watchRow.ttl]
                ELSE NoSetup
    /\ UNCHANGED <<armed, dead, deadW, polled, store, ghost>>

\* The terminal row of the symbol's last watch is its tombstone.
RestoreTerminal ==
    /\ stage = "readTerminal"
    /\ stage' = "readTombs"
    /\ deadW' = IF watchRow # NoSetup /\ ~watchRow.active
                THEN [deadW EXCEPT ![watchRow.id] = watchRow.ttl]
                ELSE deadW
    /\ UNCHANGED <<armed, watch, dead, polled, store, ghost>>

\* Mutant: an ACTIVE row is believed whatever the tombstones say.
BuriedIgnored == FALSE

\* A consumed tombstone wins over an ACTIVE row.
Buried == armed # NoSetup /\ tombs[armed.id] > 0

RestoreTombs ==
    /\ stage = "readTombs"
    /\ stage' = "idle"
    /\ dead' = tombs
    /\ armed' = IF Buried THEN NoSetup ELSE armed
    /\ UNCHANGED <<watch, deadW, polled, store, ghost>>

-----------------------------------------------------------------------------
Less(n) == IF n > 0 THEN n - 1 ELSE 0
Aged(t) == [t EXCEPT !.ttl = Less(t.ttl)]
Shrunk(f) == [s \in Structure |-> Less(f[s])]

\* A unit of time passes; rows that expire are dropped or no longer read.
TimePasses ==
    /\ stage \in {"idle", "down"} /\ writes = {}
    /\ armed' = IF armed = NoSetup THEN NoSetup ELSE Aged(armed)
    /\ watch' = IF watch = NoSetup THEN NoSetup ELSE Aged(watch)
    /\ dead' = Shrunk(dead) /\ deadW' = Shrunk(deadW)
    /\ armedRow' = IF armedRow = NoSetup \/ armedRow.ttl = 1 THEN NoSetup ELSE Aged(armedRow)
    /\ watchRow' = IF watchRow = NoSetup \/ watchRow.ttl = 1 THEN NoSetup ELSE Aged(watchRow)
    /\ tombs' = Shrunk(tombs) /\ ended' = Shrunk(ended)
    /\ lost' = {s \in lost : ended'[s] > 0}
    /\ UNCHANGED <<stage, polled, writes>>

Persist == PersistArmed \/ PersistWatch
Restore == RestoreArmed \/ RestoreWatch \/ RestoreTerminal \/ RestoreTombs

LifeNext ==
    \/ ScanArmed \/ ScanFree
    \/ PollWatch \/ WatchPending
    \/ ArmedPriority \/ WatchCancelled \/ WatchPromoted
    \/ Persist
    \/ \E w \in writes : Land(w) \/ Lose(w)
    \/ Crash \/ RestartWorker \/ Restore
    \/ TimePasses

LifeSpec == LifeInit /\ [][LifeNext]_lifeVars

\* A priority snapshot of the watch is processed.
FollowWatch == WatchPending \/ WatchCancelled \/ WatchPromoted

\* Threads and tasks end, time passes and the monitors poll; no crash is forced,
\* no discovery, no trigger, and nothing makes the scanner come round: it rotates
\* over a shortlist that the symbol may have left.
LifeFairSpec ==
    /\ LifeSpec
    /\ WF_lifeVars(Persist) /\ WF_lifeVars(\E w \in writes : Lose(w))
    /\ WF_lifeVars(RestartWorker) /\ WF_lifeVars(Restore)
    /\ WF_lifeVars(TimePasses)
    /\ WF_lifeVars(PollWatch) /\ WF_lifeVars(FollowWatch)

-----------------------------------------------------------------------------
(* Properties.                                                              *)

\* A symbol never has a setup and a watch at once: on_snapshot asks for the
\* setup first and would leave the watch behind it for ever.
OneTracked == stage \in Up => armed = NoSetup \/ watch = NoSetup

\* A structure that ended, triggered or cancelled, is armed again within the
\* life of its tombstone only if a crash or an outage lost the tombstone.
Follows(s) == stage \in Up /\ armed # NoSetup /\ armed.id = s

EndedOnce ==
    [][\A s \in Structure : Follows(s)' /\ ~Follows(s) /\ ended[s] > 0 => s \in lost]_lifeVars

\* Whatever lands late, and in whatever order, a worker that runs never holds
\* a setup that its own tombstones forbid.
ArmedIsLive == stage \in Up /\ armed # NoSetup => dead[armed.id] = 0

\* A watch ends: it is promoted or cancelled, at the latest when it expires.
WatchEnds == watch # NoSetup ~> watch = NoSetup

\* What is tracked and barred, as SetupPromise sees it: nothing while down.
Running == stage \in Up
Watched == IF Running /\ watch # NoSetup THEN watch.id ELSE NoSetup
Armed == IF Running /\ armed # NoSetup THEN armed.id ELSE NoSetup
Barred == {s \in Structure : Running /\ dead[s] > 0}

Promise == INSTANCE SetupPromise WITH
    up <- Running, watching <- Watched, armed <- Armed, barred <- Barred

\* The lifecycle keeps the promise.
KeepsPromise == Promise!Spec

-----------------------------------------------------------------------------
(* The inductive invariant.                                                 *)

\* An upsert carries no more than the life of its document.
Bounded ==
    \A w \in writes :
        /\ w.doc = "armedOn" => w.ttl <= ArmedTtl
        /\ w.doc \in {"watchOn", "watchOff"} => w.ttl <= WatchTtl

\* At most one of setup and watch is in memory, and neither before a restore
\* has come to it.
Single ==
    /\ armed = NoSetup \/ watch = NoSetup
    /\ stage \in {"down", "readArmed"} => armed = NoSetup
    /\ stage \in {"down", "readArmed", "readWatch"} => watch = NoSetup

\* A row is awaited for what is in memory.
Awaits ==
    /\ stage = "saveArmed" => armed # NoSetup
    /\ stage = "saveWatch" => watch # NoSetup

\* A tombstone row is not younger than the end of its structure, and one that
\* is being written is of the present unit of time.
Dated ==
    /\ \A s \in Structure : tombs[s] <= ended[s]
    /\ \A w \in writes : w.doc = "tomb" => w.ttl = ConsumedTtl /\ ended[w.id] = ConsumedTtl

Burying(s) == \E w \in writes : w.doc = "tomb" /\ w.id = s

\* The end of a structure whose tombstone is not lost is known to a worker that
\* runs, and to the database or to a write that is under way.
Remembered ==
    \A s \in Structure \ lost :
        /\ tombs[s] \in {0, ended[s]}
        /\ ended[s] > 0 =>
              /\ stage \in Up => dead[s] >= ended[s]
              /\ tombs[s] = ended[s] \/ (stage \in Up /\ Burying(s))

SetupInv == LifeTypeOK /\ Bounded /\ Single /\ Awaits /\ ArmedIsLive /\ Dated /\ Remembered
=============================================================================
