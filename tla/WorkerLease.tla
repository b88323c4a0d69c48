---------------------------- MODULE WorkerLease ----------------------------
(***************************************************************************)
(* The lease that keeps a single trading worker per database: the row of   *)
(* worker_leases, the thread that renews it, and the worker process of     *)
(* app/main.py that starts, runs, drains its queued writes and releases.   *)
(*                                                                         *)
(* A member of Worker is one process instance: the code draws a new uuid   *)
(* per instance, so a restarted process is another member.  Every host has *)
(* its own clock, which runs ahead of real time by the constant Skew.      *)
(***************************************************************************)
EXTENDS Integers

CONSTANTS
    Worker,     \* worker process instances
    NoWorker,   \* the owner of a missing lease row
    Ttl,        \* ttl_seconds
    Margin,     \* the 10 seconds valid() keeps in hand
    Skew,       \* Skew[w]: how far the clock of w's host runs ahead
    MaxTime     \* bound on the real clock

ASSUME LeaseAssumption ==
    /\ NoWorker \notin Worker
    /\ Ttl \in Nat
    /\ Margin \in Nat
    /\ MaxTime \in Nat
    /\ Skew \in [Worker -> Nat]

\* The margin of valid() covers the difference between two hosts' clocks.
ASSUME SkewWithinMargin ==
    \A a, b \in Worker : Skew[a] <= Skew[b] + Margin

VARIABLES
    now,         \* real time
    lease,       \* the row of worker_leases
    phase,       \* phase[w]: where the process of w is in main.run
    renewal,     \* renewal[w]: the renew() call of w that is under way
    validUntil,  \* validUntil[w]: the attribute valid_until
    queued       \* queued[w]: business writes of w are still queued

leaseVars == <<now, lease, phase, renewal, validUntil, queued>>

Phase == {"new", "starting", "running", "closing", "ended", "dead"}
NoRow == [owner |-> NoWorker, expires |-> 0]
Idle == [step |-> "idle", at |-> 0]

Clock(w) == now + Skew[w]

\* Mutant: valid() without its margin.
GuardWithoutMargin(w) ==
    /\ phase[w] = "running"
    /\ Clock(w) < validUntil[w]

\* valid(), judged on the clock of w's own host, in a worker that trades.
GuardOpen(w) ==
    /\ phase[w] = "running"
    /\ Clock(w) < validUntil[w] - Margin

LeaseTypeOK ==
    /\ now \in 0..MaxTime
    /\ lease \in [owner : Worker \cup {NoWorker}, expires : Nat]
    /\ phase \in [Worker -> Phase]
    /\ renewal \in [Worker -> [step : {"idle", "called", "taken", "refused"},
                               at : Nat]]
    /\ validUntil \in [Worker -> Nat]
    /\ queued \in [Worker -> BOOLEAN]

LeaseInit ==
    /\ now = 0
    /\ lease = NoRow
    /\ phase = [w \in Worker |-> "new"]
    /\ renewal = [w \in Worker |-> Idle]
    /\ validUntil = [w \in Worker |-> 0]
    /\ queued = [w \in Worker |-> FALSE]

-----------------------------------------------------------------------------
(* renew(): the clock is read first, then the row is taken atomically, then *)
(* valid_until is set.  It runs in a thread, so the three steps interleave  *)
(* with everything else and a cancelled task does not stop it.              *)

CallRenew(w) ==
    renewal' = [renewal EXCEPT ![w] = [step |-> "called", at |-> Clock(w)]]

\* Mutant: the row is up for grabs as soon as its owner stops entering.
MayTakeEarly(w) ==
    \/ lease.owner \in {w, NoWorker}
    \/ lease.expires - Margin <= renewal[w].at

\* find_one_and_update: the row is mine, or missing, or expired.
MayTake(w) ==
    \/ lease.owner \in {w, NoWorker}
    \/ lease.expires <= renewal[w].at

Answer(w, result) == [step |-> result, at |-> renewal[w].at]

\* Mutant: a renewal adds to the row's expiry instead of setting it.
RenewRowExtends(w) ==
    /\ renewal[w].step = "called"
    /\ MayTake(w)
    /\ lease' = [owner |-> w, expires |-> lease.expires + Ttl]
    /\ renewal' = [renewal EXCEPT ![w] = Answer(w, "taken")]
    /\ UNCHANGED <<now, phase, validUntil, queued>>

RenewRow(w) ==
    /\ renewal[w].step = "called"
    /\ \/ /\ MayTake(w)
          /\ lease' = [owner |-> w, expires |-> renewal[w].at + Ttl]
          /\ renewal' = [renewal EXCEPT ![w] = Answer(w, "taken")]
       \/ /\ ~MayTake(w)
          /\ lease' = lease
          /\ renewal' = [renewal EXCEPT ![w] = Answer(w, "refused")]
    /\ UNCHANGED <<now, phase, validUntil, queued>>

\* Mutant: run() swallows the loss of the lease.
DemotedAtStartOnly(p) == IF p = "starting" THEN "ended" ELSE p

\* A refused or failed renewal: main.run raises, or run() raises inside the
\* task group.
Demoted(p) ==
    IF p = "starting" THEN "ended" ELSE IF p = "running" THEN "closing" ELSE p

RenewReturn(w) ==
    /\ phase[w] # "dead"
    /\ renewal[w].step \in {"taken", "refused"}
    /\ renewal' = [renewal EXCEPT ![w] = Idle]
    /\ \/ /\ renewal[w].step = "taken"
          /\ validUntil' = [validUntil EXCEPT ![w] = renewal[w].at + Ttl]
          /\ phase' = [phase EXCEPT ![w] = IF @ = "starting" THEN "running" ELSE @]
       \/ /\ renewal[w].step = "refused"
          /\ validUntil' = validUntil
          /\ phase' = [phase EXCEPT ![w] = Demoted(@)]
    /\ UNCHANGED <<now, lease, queued>>

\* The driver raises: the command was lost, or it was applied and its answer
\* was lost.
RenewError(w) ==
    /\ phase[w] # "dead"
    /\ renewal[w].step # "idle"
    /\ renewal' = [renewal EXCEPT ![w] = Idle]
    /\ phase' = [phase EXCEPT ![w] = Demoted(@)]
    /\ UNCHANGED <<now, lease, validUntil, queued>>

-----------------------------------------------------------------------------
(* The process: main.run().                                                 *)

Start(w) ==
    /\ phase[w] = "new"
    /\ phase' = [phase EXCEPT ![w] = "starting"]
    /\ CallRenew(w)
    /\ UNCHANGED <<now, lease, validUntil, queued>>

\* WorkerLease.run: the sleep is over.  A stalled event loop makes it late.
RunRenew(w) ==
    /\ phase[w] = "running"
    /\ renewal[w].step = "idle"
    /\ CallRenew(w)
    /\ UNCHANGED <<now, lease, phase, validUntil, queued>>

\* A running worker queues background writes; the tasks retry until done.
QueueWrite(w) ==
    /\ phase[w] = "running"
    /\ ~queued[w]
    /\ queued' = [queued EXCEPT ![w] = TRUE]
    /\ UNCHANGED <<now, lease, phase, renewal, validUntil>>

FlushWrites(w) ==
    /\ phase[w] \in {"running", "closing"}
    /\ queued[w]
    /\ queued' = [queued EXCEPT ![w] = FALSE]
    /\ UNCHANGED <<now, lease, phase, renewal, validUntil>>

\* Another task of the group fails, or the process is asked to stop.
Stop(w) ==
    /\ phase[w] = "running"
    /\ phase' = [phase EXCEPT ![w] = "closing"]
    /\ UNCHANGED <<now, lease, renewal, validUntil, queued>>

\* The finally block of main.run, once the queued writes are gathered.
\* delete_one matches the row only while it is mine, and may fail.
Release(w) ==
    /\ phase[w] = "closing"
    /\ ~queued[w]
    /\ phase' = [phase EXCEPT ![w] = "ended"]
    /\ \/ lease' = IF lease.owner = w THEN NoRow ELSE lease
       \/ lease' = lease
    /\ UNCHANGED <<now, renewal, validUntil, queued>>

\* The process is killed: its queue is lost, a command it sent may still land.
Kill(w) ==
    /\ phase[w] \in {"starting", "running", "closing"}
    /\ phase' = [phase EXCEPT ![w] = "dead"]
    /\ queued' = [queued EXCEPT ![w] = FALSE]
    /\ UNCHANGED <<now, lease, renewal, validUntil>>

TickClock ==
    /\ now < MaxTime
    /\ now' = now + 1
    /\ UNCHANGED <<lease, phase, renewal, validUntil, queued>>

WorkerStep(w) ==
    \/ Start(w)
    \/ RunRenew(w)
    \/ RenewRow(w)
    \/ RenewReturn(w)
    \/ RenewError(w)
    \/ QueueWrite(w)
    \/ FlushWrites(w)
    \/ Stop(w)
    \/ Release(w)
    \/ Kill(w)

LeaseNext == TickClock \/ \E w \in Worker : WorkerStep(w)

LeaseSpec == LeaseInit /\ [][LeaseNext]_leaseVars

\* A live event loop keeps running its tasks: run() wakes up and renews, and a
\* renewal that was called answers or fails.  Nothing makes a process start,
\* stop or die, and nothing makes the answer positive.
Renews(w) == RunRenew(w) \/ RenewRow(w) \/ RenewReturn(w)

LeaseFairness == \A w \in Worker : WF_leaseVars(Renews(w))

LeaseFairSpec == LeaseSpec /\ LeaseFairness

-----------------------------------------------------------------------------
(* The inductive invariant behind GuardImpliesOwner.                        *)

\* A deadline t that w once held is still backed by the row, or some host's
\* clock has already passed it.
Backed(w, t) ==
    \/ lease.owner = w /\ t <= lease.expires
    \/ \E b \in Worker : t <= Clock(b)

\* A renewal works with a clock reading that is not in the future and that is
\* later than the one valid_until came from.
RenewalsCurrent ==
    \A w \in Worker :
        /\ renewal[w].at <= Clock(w)
        /\ validUntil[w] <= Clock(w) + Ttl
        /\ renewal[w].step # "idle" => validUntil[w] <= renewal[w].at + Ttl

\* What a worker believes of its tenure, or is about to believe, is backed.
TenureBacked ==
    \A w \in Worker :
        /\ phase[w] = "running" => Backed(w, validUntil[w])
        /\ phase[w] \in {"starting", "running"} /\ renewal[w].step = "taken"
               => Backed(w, renewal[w].at + Ttl)

-----------------------------------------------------------------------------
(* Properties.                                                              *)

\* A worker whose entry guard is open owns the lease row, on every clock: the
\* guard closes before another host can see the row expired.
GuardImpliesOwner == \A w \in Worker : GuardOpen(w) => lease.owner = w

\* So no two workers ever have an open guard at once.
OneEntryWorker ==
    \A a, b \in Worker : GuardOpen(a) /\ GuardOpen(b) => a = b

\* A crashed or ended owner blocks its successor for at most Ttl of its clock.
BoundedOutage ==
    lease.owner # NoWorker => lease.expires <= Clock(lease.owner) + Ttl

LeaseInv == LeaseTypeOK /\ RenewalsCurrent /\ TenureBacked /\ BoundedOutage

\* A running worker whose row was taken finds out: it stops, or it takes the
\* row back because the new owner's lease ran out.
LostLeaseIsNoticed ==
    \A w \in Worker :
        (phase[w] = "running" /\ lease.owner # w)
            ~> (phase[w] # "running" \/ lease.owner = w)

\* The comment in main.run's finally block: a worker that shuts down finishes
\* its queued business writes before its ownership is given up.
DrainBeforeHandover ==
    \A w \in Worker :
        phase[w] = "closing" /\ queued[w] => lease.owner \in {w, NoWorker}
=============================================================================
