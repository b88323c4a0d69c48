-------------------------- MODULE PositionJournal --------------------------
(***************************************************************************)
(* How one position reaches the database: the Position objects of a user's *)
(* runtimes, the background jobs of their TradePersistence that save them, *)
(* the threads those jobs leave behind when they stop waiting, and the     *)
(* revision guard of Database._save_position that orders the writes.       *)
(*                                                                         *)
(* A worker process builds runtimes one after the other (refresh); the one *)
(* that is replaced keeps its jobs, and a handler that held it may go on.  *)
(* Worker processes follow one another as the lease makes them.  A         *)
(* document is abstracted to its revision and its status; everything else  *)
(* in it is a function of the live object at that revision.                *)
(***************************************************************************)
EXTENDS Integers

CONSTANTS
    Runtime,    \* UserRuntimes of one user, of successive worker processes,
                \* numbered in the order they are built
    Job,        \* slots for background save jobs of a runtime
    NoDoc,      \* no document: nothing stored, nothing restored
    MaxRev,     \* bound on revisions
    Tries       \* attempts of a save job before it gives up

ASSUME JournalAssumption ==
    /\ Runtime \subseteq Nat
    /\ MaxRev \in Nat
    /\ Tries \in Nat \ {0}
    /\ NoDoc \notin [rev : Nat, status : {"OPEN", "CLOSED"}]

VARIABLES
    worker,     \* the worker process that holds the lease
    build,      \* build[r]: what has become of runtime r
    live,       \* live[r]: the Position object of its PositionManager
    jobs,       \* jobs[r][j]: a task of TradePersistence._background
    flight,     \* commands sent by a thread and not yet applied or lost
    row,        \* the document of the positions collection
    acked,      \* documents whose save was reported as done
    reported    \* reported[r]: r logged POSITION_PERSIST_ERROR

journalVars == <<worker, build, live, jobs, flight, row, acked, reported>>

Doc == [rev : 0..MaxRev, status : {"OPEN", "CLOSED"}]

\* running: in _runtimes; replaced: no longer, but its process lives; cancelled:
\* its process ended with a job unfinished; dead: its process was killed.
Build == {"new", "loading", "running", "replaced", "ended", "cancelled", "dead"}

\* waiting: between two attempts; sent: wait_for(to_thread(...)) is pending;
\* landed: the thread of this attempt has finished its upsert.
JobState == [state : {"free", "waiting", "sent", "landed"},
             left : 0..Tries,
             doc : Doc \cup {NoDoc}]
FreeJob == [state |-> "free", left |-> 0, doc |-> NoDoc]
NewJob == [state |-> "waiting", left |-> Tries, doc |-> NoDoc]

Command == [runtime : Runtime, job : Job, doc : Doc]

JournalTypeOK ==
    /\ worker \in {"none", "up", "draining"}
    /\ build \in [Runtime -> Build]
    /\ live \in [Runtime -> Doc \cup {NoDoc}]
    /\ jobs \in [Runtime -> [Job -> JobState]]
    /\ flight \subseteq Command
    /\ row \in Doc \cup {NoDoc}
    /\ acked \subseteq Doc
    /\ reported \in [Runtime -> BOOLEAN]

\* The event loop of its process runs its jobs, and, before the task group
\* ends, its handlers.
Looped(r) == worker # "none" /\ build[r] \in {"running", "replaced"}
Trades(r) == worker = "up" /\ build[r] \in {"running", "replaced"}

Pending(r) == \E j \in Job : jobs[r][j].state # "free"
SetJob(r, j, job) == [jobs EXCEPT ![r] = [jobs[r] EXCEPT ![j] = job]]

JournalInit ==
    /\ worker = "none"
    /\ build = [r \in Runtime |-> "new"]
    /\ live = [r \in Runtime |-> NoDoc]
    /\ jobs = [r \in Runtime |-> [j \in Job |-> FreeJob]]
    /\ flight = {}
    /\ row = NoDoc
    /\ acked = {}
    /\ reported = [r \in Runtime |-> FALSE]

-----------------------------------------------------------------------------
(* The worker process and the runtimes it builds.                           *)

\* The lease is free: it was released, or its owner was killed and it ran out.
\* It outlives the driver's timeouts, so that the commands of a killed process
\* are settled by then; those that a released lease leaves behind are not.
StartWorker ==
    /\ worker = "none"
    /\ \A c \in flight : build[c.runtime] # "dead"
    /\ worker' = "up"
    /\ UNCHANGED <<build, live, jobs, flight, row, acked, reported>>

\* _build_runtime: the position is restored if its row is OPEN.
Load(r) ==
    /\ worker = "up" /\ build[r] = "new"
    /\ \A q \in Runtime : build[q] # "loading" /\ (q < r => build[q] # "new")
    /\ build' = [build EXCEPT ![r] = "loading"]
    /\ live' = [live EXCEPT ![r] =
           IF row # NoDoc THEN IF row.status = "OPEN" THEN row ELSE NoDoc
                          ELSE NoDoc]
    /\ UNCHANGED <<worker, jobs, flight, row, acked, reported>>

\* Every runtime that is "from" becomes "to".
Turned(from, to) == [q \in Runtime |-> IF build[q] = from THEN to ELSE build[q]]

\* refresh puts the new runtime in the place of the one before it.
Install(r) ==
    /\ worker = "up" /\ build[r] = "loading"
    /\ build' = [Turned("running", "replaced") EXCEPT ![r] = "running"]
    /\ UNCHANGED <<worker, live, jobs, flight, row, acked, reported>>

\* The build raises: the runtime that was there is popped all the same.
FailBuild(r) ==
    /\ worker = "up" /\ build[r] = "loading"
    /\ build' = [Turned("running", "replaced") EXCEPT ![r] = "ended"]
    /\ UNCHANGED <<worker, live, jobs, flight, row, acked, reported>>

\* refresh no longer finds the user among those that trade or hold.
DropUser ==
    /\ worker = "up"
    /\ row # NoDoc => row.status = "CLOSED"
    /\ \E r \in Runtime : build[r] = "running"
    /\ \A r \in Runtime : build[r] # "loading"
    /\ build' = Turned("running", "replaced")
    /\ UNCHANGED <<worker, live, jobs, flight, row, acked, reported>>

\* A fill: PositionManager.add, then save_fill and its scheduled retries.
Fill(r, j) ==
    /\ Trades(r)
    /\ row = NoDoc
    /\ \A q \in Runtime : live[q] = NoDoc
    /\ jobs[r][j].state = "free"
    /\ live' = [live EXCEPT ![r] = [rev |-> 0, status |-> "OPEN"]]
    /\ jobs' = SetJob(r, j, NewJob)
    /\ UNCHANGED <<worker, build, flight, row, acked, reported>>

\* PositionManager.mark, with and without the throttled _persist.
Mark(r) ==
    /\ Trades(r)
    /\ live[r] # NoDoc
    /\ live[r].status = "OPEN"
    /\ live[r].rev < MaxRev
    /\ live' = [live EXCEPT ![r] = [rev |-> live[r].rev + 1, status |-> "OPEN"]]
    /\ \/ jobs' = jobs
       \/ \E j \in Job : jobs[r][j].state = "free" /\ jobs' = SetJob(r, j, NewJob)
    /\ UNCHANGED <<worker, build, flight, row, acked, reported>>

\* mark and close_or_reduce in one step, each counting a revision; the save is
\* forced.
ClosePosition(r, j) ==
    /\ Trades(r)
    /\ live[r] # NoDoc
    /\ live[r].status = "OPEN"
    /\ live[r].rev + 1 < MaxRev
    /\ jobs[r][j].state = "free"
    /\ live' = [live EXCEPT ![r] = [rev |-> live[r].rev + 2, status |-> "CLOSED"]]
    /\ jobs' = SetJob(r, j, NewJob)
    /\ UNCHANGED <<worker, build, flight, row, acked, reported>>

\* The task group ends, and with it a refresh that is building.
StopWorker ==
    /\ worker = "up"
    /\ worker' = "draining"
    /\ build' = Turned("loading", "ended")
    /\ UNCHANGED <<live, jobs, flight, row, acked, reported>>

\* main.run gathers the jobs of the runtimes that are in _runtimes, releases the
\* lease and returns; asyncio.run cancels the jobs that are left, unlogged.
EndWorker ==
    /\ worker = "draining"
    /\ \A r \in Runtime : build[r] = "running" => ~Pending(r)
    /\ worker' = "none"
    /\ build' = [r \in Runtime |->
           IF build[r] \in {"running", "replaced"}
           THEN IF Pending(r) THEN "cancelled" ELSE "ended"
           ELSE build[r]]
    /\ jobs' = [r \in Runtime |-> [j \in Job |-> FreeJob]]
    /\ UNCHANGED <<live, flight, row, acked, reported>>

KillWorker ==
    /\ worker # "none"
    /\ worker' = "none"
    /\ build' = [r \in Runtime |->
           IF build[r] \in {"loading", "running", "replaced"} THEN "dead" ELSE build[r]]
    /\ jobs' = [r \in Runtime |-> [j \in Job |-> FreeJob]]
    /\ UNCHANGED <<live, flight, row, acked, reported>>

-----------------------------------------------------------------------------
(* TradePersistence: one attempt of a job, and the thread it runs.          *)

\* Mutant: a failed attempt is not counted.
SendUncounted(r, j) ==
    /\ Looped(r)
    /\ jobs[r][j].state = "waiting"
    /\ \E d \in {live[r], jobs[r][j].doc} \ {NoDoc} :
         /\ jobs' = SetJob(r, j, [state |-> "sent", left |-> jobs[r][j].left, doc |-> d])
         /\ flight' = flight \cup {[runtime |-> r, job |-> j, doc |-> d]}
    /\ UNCHANGED <<worker, build, live, row, acked, reported>>

\* A runner's attempt serialises the live object; the inner retry of _upsert
\* sends the document of the attempt before it once more.
Send(r, j) ==
    /\ Looped(r)
    /\ jobs[r][j].state = "waiting"
    /\ jobs[r][j].left > 0
    /\ \E d \in {live[r], jobs[r][j].doc} \ {NoDoc} :
         /\ jobs' = SetJob(r, j, [state |-> "sent", left |-> jobs[r][j].left - 1,
                                  doc |-> d])
         /\ flight' = flight \cup {[runtime |-> r, job |-> j, doc |-> d]}
    /\ UNCHANGED <<worker, build, live, row, acked, reported>>

\* Mutants: no revision guard, and no guard at all.
AcceptsAnyRevision(d) == row = NoDoc \/ ~(row.status = "CLOSED" /\ d.status = "OPEN")
SaveLastComer(d) == d

\* Database._save_position: keep the newer revision, never reopen.
Accepts(d) ==
    \/ row = NoDoc
    \/ /\ row.rev <= d.rev
       /\ ~(row.status = "CLOSED" /\ d.status = "OPEN")

SavePosition(d) == IF Accepts(d) THEN d ELSE row

\* The thread reaches the database, whether or not anybody still waits for it.
\* An update that matches no document is a success too.
Arrive(c) ==
    /\ c \in flight
    /\ flight' = flight \ {c}
    /\ row' = SavePosition(c.doc)
    /\ LET job == jobs[c.runtime][c.job]
       IN jobs' = IF job.state = "sent" /\ job.doc = c.doc
                  THEN SetJob(c.runtime, c.job,
                              [state |-> "landed", left |-> job.left, doc |-> job.doc])
                  ELSE jobs
    /\ UNCHANGED <<worker, build, live, acked, reported>>

\* The command is lost: a driver error, or the connection of a dead process.
Vanish(c) ==
    /\ c \in flight
    /\ flight' = flight \ {c}
    /\ UNCHANGED <<worker, build, live, jobs, row, acked, reported>>

\* wait_for returns: _upsert reports True and the runner ends.
Confirm(r, j) ==
    /\ Looped(r)
    /\ jobs[r][j].state = "landed"
    /\ jobs' = SetJob(r, j, FreeJob)
    /\ acked' = acked \cup {jobs[r][j].doc}
    /\ UNCHANGED <<worker, build, live, flight, row, reported>>

\* Mutant: the last failed attempt is not logged.
GiveUpQuietly(r, j) ==
    /\ Looped(r)
    /\ jobs[r][j].state \in {"sent", "landed"}
    /\ jobs' = SetJob(r, j, IF jobs[r][j].left > 0
                           THEN [jobs[r][j] EXCEPT !.state = "waiting"] ELSE FreeJob)
    /\ UNCHANGED <<worker, build, live, flight, row, acked, reported>>

\* The wait times out or raises; the thread of a timed out wait lives on.
GiveUp(r, j) ==
    /\ Looped(r)
    /\ jobs[r][j].state \in {"sent", "landed"}
    /\ IF jobs[r][j].left > 0
       THEN /\ jobs' = SetJob(r, j, [state |-> "waiting", left |-> jobs[r][j].left,
                                     doc |-> jobs[r][j].doc])
            /\ reported' = reported
       ELSE /\ jobs' = SetJob(r, j, FreeJob)
            /\ reported' = [reported EXCEPT ![r] = TRUE]
    /\ UNCHANGED <<worker, build, live, flight, row, acked>>

JobStep(r, j) == Send(r, j) \/ Confirm(r, j) \/ GiveUp(r, j)

RuntimeStep(r) ==
    \/ Load(r)
    \/ Install(r)
    \/ FailBuild(r)
    \/ Mark(r)
    \/ \E j \in Job :
         \/ Fill(r, j)
         \/ ClosePosition(r, j)
         \/ JobStep(r, j)

JournalNext ==
    \/ StartWorker
    \/ DropUser
    \/ StopWorker
    \/ EndWorker
    \/ KillWorker
    \/ \E r \in Runtime : RuntimeStep(r)
    \/ \E c \in flight : Arrive(c) \/ Vanish(c)

JournalSpec == JournalInit /\ [][JournalNext]_journalVars

\* The event loop keeps running the tasks it holds: every wait_for returns,
\* every delay ends, and main.run goes on once its gather is complete.
JournalFairness ==
    /\ WF_journalVars(EndWorker)
    /\ WF_journalVars(\E r \in Runtime : \E j \in Job : JobStep(r, j))

-----------------------------------------------------------------------------
(* Properties.                                                              *)

RowIs(status) == row # NoDoc /\ row.status = status
LiveIs(r, status) == live[r] # NoDoc /\ live[r].status = status

\* The row is d, or has moved on to a newer revision or from an open d to a close.
Stored(d) ==
    /\ row # NoDoc
    /\ \/ row.rev > d.rev
       \/ row.rev = d.rev /\ row.status = d.status
       \/ row.status = "CLOSED" /\ d.status = "OPEN"

\* The stored position never goes back: whatever the order in which delayed
\* threads reach the database, its revision never decreases and a stored close
\* is never undone (_save_position).
RowNeverRegresses ==
    [][row # NoDoc => /\ row' # NoDoc
                      /\ row'.rev >= row.rev
                      /\ row.status = "CLOSED" => row'.status = "CLOSED"]_journalVars

\* What save_position reports as saved is stored, then and ever after, or the
\* row has moved on to a close or to a newer revision, although an update the
\* guard refused is reported as a success as well (_upsert looks at exceptions
\* only).
ReportedIsStored == \A d \in acked : Stored(d)

\* A close that is neither stored nor overtaken is not forgotten in silence:
\* its runtime still holds a task that saves it, or has logged
\* POSITION_PERSIST_ERROR, or its process was killed, or the runtime had been
\* replaced when its process ended (schedule_position_save, main.run).
NoSilentLoss ==
    \A r \in Runtime :
        LiveIs(r, "CLOSED") /\ ~Stored(live[r]) =>
            Pending(r) \/ reported[r] \/ build[r] \in {"dead", "cancelled"}

\* "Los cierres se contabilizan sin duplicarlos y sobreviven a reinicios"
\* (IMPLEMENTACION_Y_DESPLIEGUE.md): a close that was reported as saved is the
\* stored position.  It is not where a newer revision of an older runtime or
\* process reached the row first.
AckedCloseDurable == (\E d \in acked : d.status = "CLOSED") => RowIs("CLOSED")

\* The shutdown of a worker terminates: however many attempts fail, main.run's
\* gather over the save tasks ends, so the lease is released.
DrainEnds == worker = "draining" ~> worker = "none"

-----------------------------------------------------------------------------
(* The inductive invariant behind them.                                     *)

\* A runtime without an event loop holds no task, and one that is not installed
\* has no close.
IdleIsEmpty ==
    \A r \in Runtime :
        /\ ~Looped(r) => ~Pending(r)
        /\ build[r] \in {"new", "loading"} => ~LiveIs(r, "CLOSED")


JobsAreSound ==
    \A r \in Runtime : \A j \in Job :
        /\ jobs[r][j].state \in {"sent", "landed"} => jobs[r][j].doc # NoDoc
        /\ jobs[r][j].state = "landed" => Stored(jobs[r][j].doc)

\* The job that ClosePosition scheduled, or one that has taken the close.
Carried ==
    \A r \in Runtime :
        LiveIs(r, "CLOSED") /\ ~Stored(live[r]) /\ build[r] \notin {"dead", "cancelled"} =>
            \/ reported[r]
            \/ \E j \in Job : /\ jobs[r][j].state # "free"
                              /\ jobs[r][j].doc \in {NoDoc, live[r]}

JournalInv ==
    /\ JournalTypeOK
    /\ IdleIsEmpty
    /\ JobsAreSound
    /\ Carried
    /\ ReportedIsStored
=============================================================================
