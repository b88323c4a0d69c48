------------------------------ MODULE MCWorker ------------------------------
(***************************************************************************)
(* Instances of what outlives a worker process: its lease and the rows of  *)
(* the positions.  They share no state, so that one run checks each of     *)
(* them by itself: part names the one that moves.                          *)
(***************************************************************************)
EXTENDS WorkerLease, PositionJournal, TLC

CONSTANTS w1, w2, j1
VARIABLE part

workerVars == <<leaseVars, journalVars, part>>

\* Hosts whose clocks differ by as much as the margin allows.
MCSkew == (w1 :> 0) @@ (w2 :> 1)

WorkerInit ==
    /\ LeaseInit /\ JournalInit
    /\ part \in {"lease", "journal"}

WorkerNext ==
    /\ UNCHANGED part
    /\ \/ part = "lease" /\ LeaseNext /\ UNCHANGED journalVars
       \/ part = "journal" /\ JournalNext /\ UNCHANGED leaseVars

WorkerSpec ==
    /\ WorkerInit /\ [][WorkerNext]_workerVars
    /\ LeaseFairness /\ JournalFairness
=============================================================================
