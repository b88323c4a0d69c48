------------------------ MODULE WorkerLease_proofs ------------------------
(***************************************************************************)
(* Proofs about WorkerLease, for any set of workers, any time to live and  *)
(* any clock skew the margin covers.                                       *)
(***************************************************************************)
EXTENDS WorkerLease, TLAPS

\* The clocks are natural numbers.
LEMMA ClockNat ==
  ASSUME LeaseTypeOK, NEW w \in Worker
  PROVE  Clock(w) \in Nat /\ Clock(w) >= now
BY LeaseAssumption DEF LeaseTypeOK, Clock

\* The initial state satisfies the inductive invariant: nobody was ever given
\* a deadline.
LEMMA LeaseInvInit == LeaseInit => LeaseInv
<1> SUFFICES ASSUME LeaseInit PROVE LeaseInv
  OBVIOUS
<1> USE LeaseAssumption
<1>1. LeaseTypeOK
  BY DEF LeaseInit, LeaseTypeOK, NoRow, Idle, Phase
<1>2. RenewalsCurrent
  <2>1. SUFFICES ASSUME NEW w \in Worker
                 PROVE  /\ renewal[w].at <= Clock(w)
                        /\ validUntil[w] <= Clock(w) + Ttl
                        /\ renewal[w].step = "idle"
    BY DEF RenewalsCurrent
  <2>2. renewal[w] = Idle /\ validUntil[w] = 0
    BY DEF LeaseInit
  <2>3. QED
    BY <1>1, <2>2, ClockNat DEF Idle
<1>3. TenureBacked
  BY DEF LeaseInit, TenureBacked
<1>4. BoundedOutage
  BY DEF LeaseInit, BoundedOutage, NoRow
<1>5. QED
  BY <1>1, <1>2, <1>3, <1>4 DEF LeaseInv

\* A step that leaves the row and the attribute valid_until alone, starts no
\* tenure and reports no success preserves the invariant.
LEMMA QuietStep ==
  ASSUME LeaseInv, LeaseTypeOK', now <= now', UNCHANGED <<lease, validUntil>>,
         \A w \in Worker : phase'[w] = "running" => phase[w] = "running",
         \A w \in Worker : renewal'[w].step = "taken"
             => renewal[w] = renewal'[w]
                /\ (phase'[w] = "starting" => phase[w] = "starting"),
         \A w \in Worker : \/ renewal'[w].at = renewal[w].at
                              /\ renewal[w].step # "idle"
                           \/ renewal'[w].at <= Clock(w)'
                              /\ renewal'[w].step = "idle"
                           \/ renewal'[w].at = Clock(w)
                           \/ renewal'[w] = renewal[w]
  PROVE  LeaseInv'
<1> USE LeaseAssumption
<1>1. RenewalsCurrent'
  BY DEF LeaseInv, LeaseTypeOK, RenewalsCurrent, Clock
<1>2. TenureBacked'
  BY DEF LeaseInv, LeaseTypeOK, TenureBacked, Backed, Clock
<1>3. BoundedOutage'
  BY DEF LeaseInv, LeaseTypeOK, BoundedOutage, Clock
<1>4. QED
  BY <1>1, <1>2, <1>3 DEF LeaseInv

\* So does a step that ends a renewal of w without a success.
LEMMA IdleStep ==
  ASSUME LeaseInv, LeaseTypeOK', NEW w \in Worker, UNCHANGED <<now, lease, validUntil>>,
         renewal' = [renewal EXCEPT ![w] = Idle],
         phase' = [phase EXCEPT ![w] = Demoted(@)]
  PROVE  LeaseInv'
<1>1. \A u \in Worker : phase'[u] \in {"starting", "running"} => phase'[u] = phase[u]
  BY DEF LeaseInv, LeaseTypeOK, Demoted
<1>2. \A u \in Worker : renewal'[u] = renewal[u] \/ renewal'[u] = Idle
  BY DEF LeaseInv, LeaseTypeOK
<1>3. \A u \in Worker : Clock(u)' \in Nat /\ Clock(u)' >= 0
  <2>1. ASSUME NEW u \in Worker PROVE Clock(u)' \in Nat /\ Clock(u)' >= 0
    <3>1. Clock(u) \in Nat
      BY ClockNat DEF LeaseInv
    <3>2. Clock(u)' = Clock(u)
      BY DEF Clock
    <3>3. QED
      BY <3>1, <3>2
  <2>2. QED
    BY <2>1
<1>4. Idle.step = "idle" /\ Idle.at = 0
  BY DEF Idle
<1>5. now <= now'
  BY DEF LeaseInv, LeaseTypeOK
<1>6. \A u \in Worker : phase'[u] = "running" => phase[u] = "running"
  BY <1>1
<1>7. \A u \in Worker : renewal'[u].step = "taken"
         => renewal[u] = renewal'[u] /\ (phase'[u] = "starting" => phase[u] = "starting")
  BY <1>1, <1>2, <1>4
<1>8. \A u \in Worker :
         \/ renewal'[u].at <= Clock(u)' /\ renewal'[u].step = "idle"
         \/ renewal'[u] = renewal[u]
  BY <1>2, <1>3, <1>4
<1>9. QED
  BY <1>5, <1>6, <1>7, <1>8, QuietStep

\* Every step keeps the types.
LEMMA TypeStep == LeaseTypeOK /\ [LeaseNext]_leaseVars => LeaseTypeOK'
<1> SUFFICES ASSUME LeaseTypeOK, [LeaseNext]_leaseVars PROVE LeaseTypeOK'
  OBVIOUS
<1> USE LeaseAssumption DEF LeaseTypeOK
<1>1. CASE UNCHANGED leaseVars
  BY <1>1 DEF leaseVars
<1>2. CASE TickClock
  BY <1>2 DEF TickClock
<1>3. ASSUME NEW w \in Worker, Start(w) \/ RunRenew(w) PROVE LeaseTypeOK'
  <2>1. Clock(w) \in Nat
    BY ClockNat
  <2>2. QED
    <3>1. [step |-> "called", at |-> Clock(w)]
             \in [step : {"idle", "called", "taken", "refused"}, at : Nat]
      BY <2>1
    <3>2. "starting" \in Phase
      BY DEF Phase
    <3>3. CASE Start(w)
      BY <3>1, <3>2, <3>3 DEF Start, CallRenew
    <3>4. CASE RunRenew(w)
      BY <3>1, <3>4 DEF RunRenew, CallRenew
    <3>5. QED
      BY <1>3, <3>3, <3>4
<1>4. ASSUME NEW w \in Worker, RenewRow(w) PROVE LeaseTypeOK'
  BY <1>4 DEF RenewRow, Answer
<1>5. ASSUME NEW w \in Worker, RenewReturn(w) \/ RenewError(w) PROVE LeaseTypeOK'
  <2>1. Idle \in [step : {"idle", "called", "taken", "refused"}, at : Nat]
    BY DEF Idle
  <2>2. \A p \in Phase : Demoted(p) \in Phase
    BY DEF Demoted, Phase
  <2>3. "running" \in Phase
    BY DEF Phase
  <2>4. CASE RenewReturn(w)
    BY <2>4, <2>1, <2>2, <2>3 DEF RenewReturn
  <2>5. CASE RenewError(w)
    BY <2>5, <2>1, <2>2 DEF RenewError
  <2>6. QED
    BY <1>5, <2>4, <2>5
<1>6. ASSUME NEW w \in Worker, QueueWrite(w) \/ FlushWrites(w) PROVE LeaseTypeOK'
  BY <1>6 DEF QueueWrite, FlushWrites
<1>7. ASSUME NEW w \in Worker, Stop(w) \/ Kill(w) PROVE LeaseTypeOK'
  BY <1>7 DEF Stop, Kill, Phase
<1>8. ASSUME NEW w \in Worker, Release(w) PROVE LeaseTypeOK'
  BY <1>8 DEF Release, NoRow, Phase
<1>9. QED
  BY <1>1, <1>2, <1>3, <1>4, <1>5, <1>6, <1>7, <1>8 DEF LeaseNext, WorkerStep

\* Every step of a worker or of the clock preserves the inductive invariant.
LEMMA LeaseInvStep == LeaseInv /\ [LeaseNext]_leaseVars => LeaseInv'
<1> SUFFICES ASSUME LeaseInv, [LeaseNext]_leaseVars PROVE LeaseInv'
  OBVIOUS
<1> USE LeaseAssumption
<1>0. LeaseTypeOK /\ LeaseTypeOK'
  BY TypeStep DEF LeaseInv
<1>1. CASE UNCHANGED leaseVars
  BY <1>0, <1>1, QuietStep DEF leaseVars, LeaseTypeOK
<1>2. CASE TickClock
  BY <1>0, <1>2, QuietStep DEF TickClock, LeaseTypeOK
<1>3. ASSUME NEW w \in Worker, Start(w) \/ RunRenew(w) PROVE LeaseInv'
  BY <1>0, <1>3, QuietStep DEF Start, RunRenew, CallRenew, LeaseTypeOK
<1>4. ASSUME NEW w \in Worker, QueueWrite(w) \/ FlushWrites(w) \/ Stop(w) \/ Kill(w)
      PROVE  LeaseInv'
  BY <1>0, <1>4, QuietStep DEF QueueWrite, FlushWrites, Stop, Kill, LeaseTypeOK
<1>5. ASSUME NEW w \in Worker, RenewRow(w) PROVE LeaseInv'
  <2>1. CASE MayTake(w)
    <3>1. /\ lease' = [owner |-> w, expires |-> renewal[w].at + Ttl]
          /\ renewal' = [renewal EXCEPT ![w] = Answer(w, "taken")]
          /\ UNCHANGED <<now, phase, validUntil>>
      BY <1>5, <2>1 DEF RenewRow
    <3>2. RenewalsCurrent'
      BY <1>0, <1>5, <3>1 DEF LeaseInv, LeaseTypeOK, RenewalsCurrent, RenewRow, Answer, Clock
    <3>3. TenureBacked'
      <4>1. ASSUME NEW u \in Worker, NEW t \in Nat, Backed(u, t),
                   u = w => t <= renewal[w].at + Ttl
            PROVE  Backed(u, t)'
        BY <1>0, <4>1, <2>1, <3>1 DEF LeaseInv, LeaseTypeOK, RenewalsCurrent, MayTake, Backed, Clock
      <4>2. ASSUME NEW u \in Worker
            PROVE  /\ phase'[u] = "running" => Backed(u, validUntil[u])'
                   /\ phase'[u] \in {"starting", "running"} /\ renewal'[u].step = "taken"
                         => Backed(u, renewal[u].at + Ttl)'
        <5>1. CASE u = w
          BY <1>0, <1>5, <5>1, <3>1, <4>1 DEF LeaseInv, LeaseTypeOK, RenewalsCurrent, TenureBacked, RenewRow, Answer, Backed
        <5>2. CASE u # w
          <6>1. renewal'[u] = renewal[u] /\ phase'[u] = phase[u]
            BY <1>0, <3>1, <5>2 DEF LeaseTypeOK
          <6>2. validUntil[u] \in Nat /\ renewal[u].at + Ttl \in Nat
            BY <1>0 DEF LeaseTypeOK
          <6>3. phase[u] = "running" => Backed(u, validUntil[u])'
            BY <4>1, <5>2, <6>2, <3>1 DEF LeaseInv, TenureBacked, Backed
          <6>4. phase[u] \in {"starting", "running"} /\ renewal[u].step = "taken"
                  => Backed(u, renewal[u].at + Ttl)'
            BY <4>1, <5>2, <6>2, <6>1, <3>1 DEF LeaseInv, TenureBacked, Backed
          <6>5. QED
            BY <6>1, <6>3, <6>4
        <5>3. QED
          BY <5>1, <5>2
      <4>3. QED
        BY <1>0, <3>1, <4>2 DEF TenureBacked, Answer, LeaseTypeOK, Backed, Clock
    <3>4. BoundedOutage'
      BY <1>0, <3>1 DEF LeaseInv, LeaseTypeOK, RenewalsCurrent, BoundedOutage, Clock
    <3>5. QED
      BY <1>0, <3>2, <3>3, <3>4 DEF LeaseInv
  <2>2. CASE ~MayTake(w)
    BY <1>0, <1>5, <2>2, QuietStep DEF RenewRow, Answer, LeaseTypeOK
  <2>3. QED
    BY <2>1, <2>2
<1>6. ASSUME NEW w \in Worker, RenewReturn(w) PROVE LeaseInv'
  <2>1. CASE renewal[w].step = "taken"
    <3>1. /\ UNCHANGED <<now, lease>>
          /\ renewal' = [renewal EXCEPT ![w] = Idle]
          /\ validUntil' = [validUntil EXCEPT ![w] = renewal[w].at + Ttl]
          /\ phase' = [phase EXCEPT ![w] = IF @ = "starting" THEN "running" ELSE @]
      BY <1>6, <2>1 DEF RenewReturn
    <3>2. RenewalsCurrent'
      BY <1>0, <3>1 DEF LeaseInv, LeaseTypeOK, RenewalsCurrent, Idle, Clock
    <3>3. TenureBacked'
      BY <1>0, <2>1, <3>1 DEF LeaseInv, LeaseTypeOK, TenureBacked, Backed, Idle, Clock
    <3>4. BoundedOutage'
      BY <1>0, <3>1 DEF LeaseInv, LeaseTypeOK, BoundedOutage, Clock
    <3>5. QED
      BY <1>0, <3>2, <3>3, <3>4 DEF LeaseInv
  <2>2. CASE renewal[w].step = "refused"
    <3>1. /\ UNCHANGED <<now, lease, validUntil>>
          /\ renewal' = [renewal EXCEPT ![w] = Idle]
          /\ phase' = [phase EXCEPT ![w] = Demoted(@)]
      BY <1>6, <2>2 DEF RenewReturn
    <3>2. QED
      BY <1>0, <3>1, IdleStep
  <2>3. QED
    BY <1>6, <2>1, <2>2 DEF RenewReturn
<1>7. ASSUME NEW w \in Worker, RenewError(w) PROVE LeaseInv'
  BY <1>0, <1>7, IdleStep DEF RenewError
<1>8. ASSUME NEW w \in Worker, Release(w) PROVE LeaseInv'
  <2>1. CASE lease' = lease
    BY <1>0, <1>8, <2>1, QuietStep DEF Release, LeaseTypeOK
  <2>2. CASE lease.owner = w /\ lease' = NoRow
    <3>1. RenewalsCurrent'
      BY <1>0, <1>8 DEF Release, LeaseInv, LeaseTypeOK, RenewalsCurrent, Clock
    <3>2. TenureBacked'
      BY <1>0, <1>8, <2>2 DEF Release, LeaseInv, LeaseTypeOK, TenureBacked, Backed, Clock
    <3>3. BoundedOutage'
      BY <2>2 DEF BoundedOutage, NoRow
    <3>4. QED
      BY <1>0, <3>1, <3>2, <3>3 DEF LeaseInv
  <2>3. QED
    BY <1>8, <2>1, <2>2 DEF Release
<1>9. QED
  BY <1>1, <1>2, <1>3, <1>4, <1>5, <1>6, <1>7, <1>8 DEF LeaseNext, WorkerStep

\* The inductive invariant holds throughout.
THEOREM LeaseInvariant == LeaseSpec => []LeaseInv
BY LeaseInvInit, LeaseInvStep, PTL DEF LeaseSpec

\* Types, and the bound on how long a row outlives its owner's clock.
THEOREM LeaseTypesAndOutage == LeaseSpec => [](LeaseTypeOK /\ BoundedOutage)
<1>1. LeaseInv => LeaseTypeOK /\ BoundedOutage
  BY DEF LeaseInv
<1>2. QED
  BY <1>1, LeaseInvariant, PTL

\* An open guard means the row is owned: a deadline some clock has passed is,
\* by the margin, no longer a valid one on any clock.
LEMMA InvImpliesOwner == LeaseInv => GuardImpliesOwner
<1> SUFFICES ASSUME LeaseInv, NEW w \in Worker, GuardOpen(w)
             PROVE  lease.owner = w
  BY DEF GuardImpliesOwner
<1>1. Backed(w, validUntil[w])
  BY DEF LeaseInv, TenureBacked, GuardOpen
<1>2. ASSUME NEW b \in Worker, validUntil[w] <= Clock(b)
      PROVE  FALSE
  BY <1>2, LeaseAssumption, SkewWithinMargin DEF LeaseInv, LeaseTypeOK, GuardOpen, Clock
<1>3. QED
  BY <1>1, <1>2 DEF Backed

\* valid() implies ownership of the lease row, whatever the interleaving of
\* renewals, take-overs, releases and crashes.
THEOREM GuardOwnership == LeaseSpec => []GuardImpliesOwner
BY InvImpliesOwner, LeaseInvariant, PTL

\* At most one worker may open entries at any time.
THEOREM MutualExclusion == LeaseSpec => []OneEntryWorker
<1>1. GuardImpliesOwner => OneEntryWorker
  BY DEF GuardImpliesOwner, OneEntryWorker
<1>2. QED
  BY <1>1, GuardOwnership, PTL
=============================================================================
