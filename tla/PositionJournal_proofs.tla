----------------------- MODULE PositionJournal_proofs -----------------------
(* Proofs about PositionJournal: its safety properties hold for every       *)
(* number of runtimes, tasks, attempts and revisions, whoever else writes.  *)
EXTENDS PositionJournal, TLAPS

\* A missing document is not a document.
LEMMA NoDocIsNoDocument == NoDoc \notin Doc
  BY JournalAssumption DEF JournalAssumption, Doc

\* The two new states of a job are job states.
LEMMA NewJobs == FreeJob \in JobState /\ NewJob \in JobState
  BY JournalAssumption DEF JournalAssumption, FreeJob, NewJob, JobState

\* What SetJob changes and what it leaves alone.
LEMMA SetJobEffect ==
  ASSUME JournalTypeOK, NEW r \in Runtime, NEW j \in Job, NEW n \in JobState,
         jobs' = SetJob(r, j, n)
  PROVE  /\ jobs' \in [Runtime -> [Job -> JobState]]
         /\ jobs'[r][j] = n
         /\ \A q \in Runtime : \A i \in Job : q # r \/ i # j => jobs'[q][i] = jobs[q][i]
  BY DEF JournalTypeOK, SetJob

\* What is stored stays stored while the row only moves on.
LEMMA StaysStored ==
  ASSUME NEW d \in Doc, row \in Doc \cup {NoDoc}, row' \in Doc \cup {NoDoc},
         Stored(d),
         row' = row \/ /\ row' # NoDoc
                       /\ row'.rev >= row.rev
                       /\ row.status = "CLOSED" => row'.status = "CLOSED"
  PROVE  row' # NoDoc /\ (\/ row'.rev > d.rev
                          \/ row'.rev = d.rev /\ row'.status = d.status
                          \/ row'.status = "CLOSED" /\ d.status = "OPEN")
  <1>1. CASE row' = row
    BY <1>1 DEF Stored
  <1>2. CASE row' # row
    <2>1. row \in Doc /\ row' \in Doc
      BY <1>2 DEF Stored
    <2> QED BY <1>2, <2>1 DEF Stored, Doc
  <1> QED BY <1>1, <1>2

\* The guard of _save_position lets the row go forward only.
LEMMA SavedGoesForward ==
  ASSUME NEW d \in Doc, row \in Doc \cup {NoDoc}, row' = SavePosition(d)
  PROVE  /\ row' \in Doc
         /\ row # NoDoc => /\ row'.rev >= row.rev
                           /\ row.status = "CLOSED" => row'.status = "CLOSED"
         /\ \/ row'.rev > d.rev
            \/ row'.rev = d.rev /\ row'.status = d.status
            \/ row'.status = "CLOSED" /\ d.status = "OPEN"
  <1>1. CASE Accepts(d)
    BY <1>1, NoDocIsNoDocument DEF SavePosition, Accepts, Doc
  <1>2. CASE ~Accepts(d)
    BY <1>2, NoDocIsNoDocument DEF SavePosition, Accepts, Doc
  <1> QED BY <1>1, <1>2

-----------------------------------------------------------------------------
(* The steps of the worker process and of refresh: they leave the row and   *)
(* what is in flight alone.                                                 *)

\* A step that changes neither row, jobs, acked nor reported, leaves the jobs
\* sound and what was reported stored.
LEMMA QuietSteps ==
  ASSUME JournalInv, UNCHANGED <<jobs, row, acked>>
  PROVE  JobsAreSound' /\ ReportedIsStored'
  BY DEF JournalInv, JobsAreSound, ReportedIsStored, Stored

\* StartWorker keeps the invariant.
LEMMA StartWorkerKeeps == ASSUME JournalInv, StartWorker PROVE JournalInv'
  <1>1. JournalTypeOK'
    BY DEF JournalInv, StartWorker, JournalTypeOK
  <1>2. IdleIsEmpty'
    BY DEF JournalInv, StartWorker, IdleIsEmpty, Looped, Pending, LiveIs
  <1>3. JobsAreSound' /\ ReportedIsStored'
    BY QuietSteps DEF StartWorker
  <1>4. Carried'
    BY DEF JournalInv, StartWorker, Carried, LiveIs, Stored
  <1> QED BY <1>1, <1>2, <1>3, <1>4 DEF JournalInv

\* Load keeps the invariant.
LEMMA LoadKeeps ==
  ASSUME JournalInv, NEW r \in Runtime, Load(r) PROVE JournalInv'
  <1>1. JournalTypeOK'
    BY DEF JournalInv, Load, JournalTypeOK, Build
  <1>2. IdleIsEmpty'
    BY NoDocIsNoDocument
       DEF JournalInv, Load, JournalTypeOK, Build, IdleIsEmpty, Looped, Pending, LiveIs
  <1>3. JobsAreSound' /\ ReportedIsStored'
    BY QuietSteps DEF Load
  <1>4. Carried'
    BY NoDocIsNoDocument
       DEF JournalInv, Load, JournalTypeOK, Build, Carried, LiveIs, Stored
  <1> QED BY <1>1, <1>2, <1>3, <1>4 DEF JournalInv

\* What Turned does.
LEMMA TurnedEffect ==
  ASSUME NEW from, NEW to \in Build, JournalTypeOK
  PROVE  /\ Turned(from, to) \in [Runtime -> Build]
         /\ \A q \in Runtime : Turned(from, to)[q] =
                IF build[q] = from THEN to ELSE build[q]
  BY DEF Turned, JournalTypeOK

\* Install keeps the invariant.
LEMMA InstallKeeps ==
  ASSUME JournalInv, NEW r \in Runtime, Install(r) PROVE JournalInv'
  <1>0. JournalTypeOK /\ IdleIsEmpty /\ Carried
    BY DEF JournalInv
  <1>b. /\ build' \in [Runtime -> Build] /\ build'[r] = "running"
        /\ \A q \in Runtime \ {r} : build'[q] =
              IF build[q] = "running" THEN "replaced" ELSE build[q]
    BY <1>0, TurnedEffect, "running" \in Build, "replaced" \in Build DEF Install, Build
  <1>1. JournalTypeOK'
    BY <1>0, <1>b DEF Install, JournalTypeOK
  <1>2. IdleIsEmpty'
    BY <1>0, <1>b DEF Install, IdleIsEmpty, Looped, Pending, LiveIs
  <1>3. JobsAreSound' /\ ReportedIsStored'
    BY QuietSteps DEF Install
  <1>4. Carried'
    BY <1>0, <1>b DEF Install, IdleIsEmpty, Carried, LiveIs, Stored
  <1> QED BY <1>1, <1>2, <1>3, <1>4 DEF JournalInv

\* FailBuild keeps the invariant.
LEMMA FailBuildKeeps ==
  ASSUME JournalInv, NEW r \in Runtime, FailBuild(r) PROVE JournalInv'
  <1>0. JournalTypeOK /\ IdleIsEmpty /\ Carried
    BY DEF JournalInv
  <1>b. /\ build' \in [Runtime -> Build] /\ build'[r] = "ended"
        /\ \A q \in Runtime \ {r} : build'[q] =
              IF build[q] = "running" THEN "replaced" ELSE build[q]
    BY <1>0, TurnedEffect, "ended" \in Build, "replaced" \in Build DEF FailBuild, Build
  <1>1. JournalTypeOK'
    BY <1>0, <1>b DEF FailBuild, JournalTypeOK
  <1>2. IdleIsEmpty'
    BY <1>0, <1>b DEF FailBuild, IdleIsEmpty, Looped, Pending, LiveIs
  <1>3. JobsAreSound' /\ ReportedIsStored'
    BY QuietSteps DEF FailBuild
  <1>4. Carried'
    BY <1>0, <1>b DEF FailBuild, IdleIsEmpty, Carried, LiveIs, Stored
  <1> QED BY <1>1, <1>2, <1>3, <1>4 DEF JournalInv

\* DropUser keeps the invariant.
LEMMA DropUserKeeps == ASSUME JournalInv, DropUser PROVE JournalInv'
  <1>0. JournalTypeOK /\ IdleIsEmpty /\ Carried
    BY DEF JournalInv
  <1>b. /\ build' \in [Runtime -> Build]
        /\ \A q \in Runtime : build'[q] =
              IF build[q] = "running" THEN "replaced" ELSE build[q]
    BY <1>0, TurnedEffect, "replaced" \in Build DEF DropUser, Build
  <1>1. JournalTypeOK'
    BY <1>0, <1>b DEF DropUser, JournalTypeOK
  <1>2. IdleIsEmpty'
    BY <1>0, <1>b DEF DropUser, IdleIsEmpty, Looped, Pending, LiveIs
  <1>3. JobsAreSound' /\ ReportedIsStored'
    BY QuietSteps DEF DropUser
  <1>4. Carried'
    BY <1>0, <1>b DEF DropUser, Carried, LiveIs, Stored
  <1> QED BY <1>1, <1>2, <1>3, <1>4 DEF JournalInv

\* StopWorker keeps the invariant: what is being built has no close.
LEMMA StopWorkerKeeps == ASSUME JournalInv, StopWorker PROVE JournalInv'
  <1>0. JournalTypeOK /\ IdleIsEmpty /\ Carried
    BY DEF JournalInv
  <1>b. /\ build' \in [Runtime -> Build]
        /\ \A q \in Runtime : build'[q] =
              IF build[q] = "loading" THEN "ended" ELSE build[q]
    BY <1>0, TurnedEffect, "ended" \in Build DEF StopWorker, Build
  <1>1. JournalTypeOK'
    BY <1>0, <1>b DEF StopWorker, JournalTypeOK
  <1>2. IdleIsEmpty'
    BY <1>0, <1>b DEF StopWorker, IdleIsEmpty, Looped, Pending, LiveIs
  <1>3. JobsAreSound' /\ ReportedIsStored'
    BY QuietSteps DEF StopWorker
  <1>4. Carried'
    BY <1>0, <1>b DEF StopWorker, IdleIsEmpty, Carried, LiveIs, Stored
  <1> QED BY <1>1, <1>2, <1>3, <1>4 DEF JournalInv

\* A process that ends or dies holds no job.
LEMMA NoJobs ==
  ASSUME jobs' = [r \in Runtime |-> [j \in Job |-> FreeJob]]
  PROVE  /\ jobs' \in [Runtime -> [Job -> JobState]]
         /\ \A r \in Runtime : \A j \in Job : jobs'[r][j].state = "free"
  BY NewJobs DEF FreeJob

\* EndWorker keeps the invariant: a job that is cancelled makes its runtime
\* "cancelled", and a runtime without a job has carried its close.
LEMMA EndWorkerKeeps == ASSUME JournalInv, EndWorker PROVE JournalInv'
  <1>0. JournalTypeOK /\ IdleIsEmpty /\ JobsAreSound /\ Carried /\ ReportedIsStored
    BY DEF JournalInv
  <1>b. /\ build' \in [Runtime -> Build]
        /\ \A q \in Runtime : build'[q] =
              IF build[q] \in {"running", "replaced"}
              THEN IF Pending(q) THEN "cancelled" ELSE "ended"
              ELSE build[q]
    BY <1>0 DEF EndWorker, JournalTypeOK, Build
  <1>j. /\ jobs' \in [Runtime -> [Job -> JobState]]
        /\ \A q \in Runtime : \A j \in Job : jobs'[q][j].state = "free"
    BY NoJobs DEF EndWorker
  <1>u. UNCHANGED <<live, flight, row, acked, reported>>
    BY DEF EndWorker
  <1>1. JournalTypeOK'
    BY <1>0, <1>b, <1>j, <1>u DEF EndWorker, JournalTypeOK
  <1>2. IdleIsEmpty'
    BY <1>0, <1>b, <1>j, <1>u DEF IdleIsEmpty, Pending, LiveIs
  <1>3. JobsAreSound' /\ ReportedIsStored'
    BY <1>0, <1>j, <1>u DEF JobsAreSound, ReportedIsStored, Stored
  <1>4. Carried'
    <2>1. SUFFICES ASSUME NEW q \in Runtime, LiveIs(q, "CLOSED"), ~Stored(live[q]),
                          build'[q] \notin {"dead", "cancelled"}, ~reported[q]
                   PROVE  FALSE
      BY <1>u DEF Carried, LiveIs, Stored
    <2>2. build[q] \notin {"dead", "cancelled"} /\ ~Pending(q)
      BY <1>0, <1>b, <2>1 DEF IdleIsEmpty, Looped
    <2> QED BY <1>0, <2>1, <2>2 DEF Carried, Pending
  <1> QED BY <1>1, <1>2, <1>3, <1>4 DEF JournalInv

\* KillWorker keeps the invariant.
LEMMA KillWorkerKeeps == ASSUME JournalInv, KillWorker PROVE JournalInv'
  <1>0. JournalTypeOK /\ IdleIsEmpty /\ JobsAreSound /\ Carried /\ ReportedIsStored
    BY DEF JournalInv
  <1>b. /\ build' \in [Runtime -> Build]
        /\ \A q \in Runtime : build'[q] =
              IF build[q] \in {"loading", "running", "replaced"} THEN "dead" ELSE build[q]
    BY <1>0 DEF KillWorker, JournalTypeOK, Build
  <1>j. /\ jobs' \in [Runtime -> [Job -> JobState]]
        /\ \A q \in Runtime : \A j \in Job : jobs'[q][j].state = "free"
    BY NoJobs DEF KillWorker
  <1>u. UNCHANGED <<live, flight, row, acked, reported>>
    BY DEF KillWorker
  <1>1. JournalTypeOK'
    BY <1>0, <1>b, <1>j, <1>u DEF KillWorker, JournalTypeOK
  <1>2. IdleIsEmpty'
    BY <1>0, <1>b, <1>j, <1>u DEF IdleIsEmpty, Pending, LiveIs
  <1>3. JobsAreSound' /\ ReportedIsStored'
    BY <1>0, <1>j, <1>u DEF JobsAreSound, ReportedIsStored, Stored
  <1>4. Carried'
    <2>1. SUFFICES ASSUME NEW q \in Runtime, LiveIs(q, "CLOSED"), ~Stored(live[q]),
                          build'[q] \notin {"dead", "cancelled"}, ~reported[q]
                   PROVE  FALSE
      BY <1>u DEF Carried, LiveIs, Stored
    <2>2. build[q] \notin {"dead", "cancelled"} /\ ~Pending(q)
      BY <1>0, <1>b, <2>1 DEF IdleIsEmpty, Looped
    <2> QED BY <1>0, <2>1, <2>2 DEF Carried, Pending
  <1> QED BY <1>1, <1>2, <1>3, <1>4 DEF JournalInv

-----------------------------------------------------------------------------
(* The steps of a position: they change the live object and schedule jobs.  *)

\* A job that is scheduled leaves the others as they are.
LEMMA NewJobKeeps ==
  ASSUME JournalInv, NEW r \in Runtime, NEW j \in Job, jobs[r][j].state = "free",
         jobs' = SetJob(r, j, NewJob), UNCHANGED <<worker, build, row, acked>>,
         Trades(r)
  PROVE  /\ jobs' \in [Runtime -> [Job -> JobState]]
         /\ jobs'[r][j].state # "free" /\ jobs'[r][j].doc = NoDoc
         /\ \A q \in Runtime : \A i \in Job : q # r \/ i # j => jobs'[q][i] = jobs[q][i]
         /\ \A q \in Runtime : ~Looped(q) => ~Pending(q)'
         /\ JobsAreSound' /\ ReportedIsStored'
  <1>0. JournalTypeOK /\ IdleIsEmpty /\ JobsAreSound /\ ReportedIsStored
    BY DEF JournalInv
  <1>e. /\ jobs' \in [Runtime -> [Job -> JobState]]
        /\ jobs'[r][j] = NewJob
        /\ \A q \in Runtime : \A i \in Job : q # r \/ i # j => jobs'[q][i] = jobs[q][i]
    BY <1>0, NewJobs, SetJobEffect
  <1>1. \A q \in Runtime : ~Looped(q) => ~Pending(q)'
    BY <1>0, <1>e DEF IdleIsEmpty, Looped, Trades, Pending
  <1>2. JobsAreSound'
    BY <1>0, <1>e DEF JobsAreSound, Stored, NewJob
  <1>3. ReportedIsStored'
    BY <1>0 DEF ReportedIsStored, Stored
  <1> QED BY <1>1, <1>2, <1>3, <1>e DEF NewJob

\* Fill keeps the invariant.
LEMMA FillKeeps ==
  ASSUME JournalInv, NEW r \in Runtime, NEW j \in Job, Fill(r, j) PROVE JournalInv'
  <1>0. JournalTypeOK /\ IdleIsEmpty /\ Carried
    BY DEF JournalInv
  <1>n. /\ jobs' \in [Runtime -> [Job -> JobState]]
        /\ \A q \in Runtime : ~Looped(q) => ~Pending(q)'
        /\ JobsAreSound' /\ ReportedIsStored'
    BY NewJobKeeps DEF Fill
  <1>l. live' \in [Runtime -> Doc \cup {NoDoc}] /\ \A q \in Runtime : ~LiveIs(q, "CLOSED")'
    BY <1>0, JournalAssumption, NoDocIsNoDocument
       DEF JournalAssumption, Fill, JournalTypeOK, LiveIs, Doc
  <1>1. JournalTypeOK'
    BY <1>0, <1>n, <1>l DEF Fill, JournalTypeOK
  <1>2. IdleIsEmpty'
    BY <1>0, <1>n, <1>l DEF Fill, IdleIsEmpty, Looped, Pending
  <1>3. Carried'
    BY <1>l DEF Carried, LiveIs
  <1> QED BY <1>n, <1>1, <1>2, <1>3 DEF JournalInv

\* Mark keeps the invariant.
LEMMA MarkKeeps ==
  ASSUME JournalInv, NEW r \in Runtime, Mark(r) PROVE JournalInv'
  <1>0. JournalTypeOK /\ IdleIsEmpty /\ JobsAreSound /\ Carried /\ ReportedIsStored
    BY DEF JournalInv
  <1>u. UNCHANGED <<worker, build, flight, row, acked, reported>>
    BY DEF Mark
  <1>l. /\ live' \in [Runtime -> Doc \cup {NoDoc}] /\ ~LiveIs(r, "CLOSED")'
        /\ \A q \in Runtime \ {r} : live'[q] = live[q]
    BY <1>0, JournalAssumption, NoDocIsNoDocument
       DEF JournalAssumption, Mark, JournalTypeOK, LiveIs, Doc
  <1>n. /\ jobs' \in [Runtime -> [Job -> JobState]]
        /\ \A q \in Runtime \ {r} : jobs'[q] = jobs[q]
        /\ \A q \in Runtime : ~Looped(q) => ~Pending(q)'
        /\ JobsAreSound' /\ ReportedIsStored'
    <2>1. CASE jobs' = jobs
      BY <1>0, <1>u, <2>1, QuietSteps DEF JournalTypeOK, IdleIsEmpty, Looped, Pending
    <2>2. ASSUME NEW j \in Job, jobs[r][j].state = "free", jobs' = SetJob(r, j, NewJob)
          PROVE  /\ jobs' \in [Runtime -> [Job -> JobState]]
                 /\ \A q \in Runtime \ {r} : jobs'[q] = jobs[q]
                 /\ \A q \in Runtime : ~Looped(q) => ~Pending(q)'
                 /\ JobsAreSound' /\ ReportedIsStored'
      <3>1. \A q \in Runtime \ {r} : jobs'[q] = jobs[q]
        BY <1>0, <2>2 DEF SetJob, JournalTypeOK
      <3> QED BY <1>u, <2>2, <3>1, NewJobKeeps DEF Mark
    <2> QED BY <2>1, <2>2 DEF Mark
  <1>1. JournalTypeOK'
    BY <1>0, <1>n, <1>l, <1>u DEF JournalTypeOK
  <1>2. IdleIsEmpty'
    BY <1>0, <1>n, <1>l, <1>u DEF IdleIsEmpty, Looped, Pending, LiveIs
  <1>3. Carried'
    <2>1. ASSUME NEW q \in Runtime \ {r}, LiveIs(q, "CLOSED"), ~Stored(live[q]),
                 build[q] \notin {"dead", "cancelled"}, ~reported[q]
          PROVE  \E i \in Job : /\ jobs[q][i].state # "free"
                                /\ jobs[q][i].doc \in {NoDoc, live[q]}
      BY <1>0, <2>1 DEF Carried
    <2> QED BY <1>u, <1>l, <1>n, <2>1 DEF Carried, LiveIs, Stored
  <1> QED BY <1>n, <1>1, <1>2, <1>3 DEF JournalInv

\* ClosePosition keeps the invariant: its job carries the close.
LEMMA ClosePositionKeeps ==
  ASSUME JournalInv, NEW r \in Runtime, NEW j \in Job, ClosePosition(r, j)
  PROVE  JournalInv'
  <1>0. JournalTypeOK /\ IdleIsEmpty /\ Carried
    BY DEF JournalInv
  <1>u. UNCHANGED <<worker, build, flight, row, acked, reported>>
    BY DEF ClosePosition
  <1>l. /\ live' \in [Runtime -> Doc \cup {NoDoc}]
        /\ \A q \in Runtime \ {r} : live'[q] = live[q]
    BY <1>0, JournalAssumption
       DEF JournalAssumption, ClosePosition, JournalTypeOK, Doc
  <1>n. /\ jobs' \in [Runtime -> [Job -> JobState]]
        /\ jobs'[r][j].state # "free" /\ jobs'[r][j].doc = NoDoc
        /\ \A q \in Runtime : \A i \in Job : q # r \/ i # j => jobs'[q][i] = jobs[q][i]
        /\ \A q \in Runtime : ~Looped(q) => ~Pending(q)'
        /\ JobsAreSound' /\ ReportedIsStored'
    BY <1>u, NewJobKeeps DEF ClosePosition
  <1>1. JournalTypeOK'
    BY <1>0, <1>n, <1>l, <1>u DEF JournalTypeOK
  <1>2. IdleIsEmpty'
    BY <1>0, <1>n, <1>l, <1>u DEF ClosePosition, Trades, IdleIsEmpty, Looped, Pending, LiveIs
  <1>3. Carried'
    <2>1. SUFFICES ASSUME NEW q \in Runtime, LiveIs(q, "CLOSED")', ~Stored(live[q])',
                          build[q] \notin {"dead", "cancelled"}, ~reported[q]
                   PROVE  \E i \in Job : /\ jobs'[q][i].state # "free"
                                         /\ jobs'[q][i].doc \in {NoDoc, live'[q]}
      BY <1>u DEF Carried
    <2>2. CASE q = r
      BY <1>n, <2>2
    <2>3. CASE q # r
      <3>1. \E i \in Job : /\ jobs[q][i].state # "free"
                           /\ jobs[q][i].doc \in {NoDoc, live[q]}
        BY <1>0, <1>u, <1>l, <2>1, <2>3 DEF Carried, LiveIs, Stored
      <3> QED BY <1>l, <1>n, <2>3, <3>1
    <2> QED BY <2>2, <2>3
  <1> QED BY <1>n, <1>1, <1>2, <1>3 DEF JournalInv

-----------------------------------------------------------------------------
(* The steps of a job and of a thread.                                      *)

\* Send keeps the invariant: a job that carries the close still does.
LEMMA SendKeeps ==
  ASSUME JournalInv, NEW r \in Runtime, NEW j \in Job, Send(r, j) PROVE JournalInv'
  <1>0. JournalTypeOK /\ IdleIsEmpty /\ JobsAreSound /\ Carried /\ ReportedIsStored
    BY DEF JournalInv
  <1>u. UNCHANGED <<worker, build, live, row, acked, reported>>
    BY DEF Send
  <1>p. PICK d \in {live[r], jobs[r][j].doc} \ {NoDoc} :
          /\ jobs' = SetJob(r, j, [state |-> "sent", left |-> jobs[r][j].left - 1, doc |-> d])
          /\ flight' = flight \cup {[runtime |-> r, job |-> j, doc |-> d]}
    BY DEF Send
  <1> DEFINE n == [state |-> "sent", left |-> jobs[r][j].left - 1, doc |-> d]
  <1>d. d \in Doc /\ n \in JobState
    <2>1. jobs[r][j] \in JobState /\ live[r] \in Doc \cup {NoDoc}
      BY <1>0 DEF JournalTypeOK
    <2>2. d \in Doc
      BY <2>1 DEF JobState
    <2>3. jobs[r][j].left - 1 \in 0..Tries
      BY <2>1, JournalAssumption DEF JournalAssumption, JobState, Send
    <2> QED BY <2>2, <2>3 DEF JobState
  <1>e. /\ jobs' \in [Runtime -> [Job -> JobState]]
        /\ jobs'[r][j] = n
        /\ \A q \in Runtime : \A i \in Job : q # r \/ i # j => jobs'[q][i] = jobs[q][i]
    BY <1>0, <1>d, <1>p, SetJobEffect
  <1>1. JournalTypeOK'
    BY <1>0, <1>d, <1>e, <1>p, <1>u DEF JournalTypeOK, Command
  <1>2. IdleIsEmpty'
    BY <1>0, <1>e, <1>u DEF Send, IdleIsEmpty, Looped, Pending, LiveIs
  <1>3. JobsAreSound'
    BY <1>0, <1>d, <1>e, <1>u, NoDocIsNoDocument DEF JobsAreSound, Stored
  <1>4. Carried'
    <2>1. SUFFICES ASSUME NEW q \in Runtime, LiveIs(q, "CLOSED"), ~Stored(live[q]),
                          build[q] \notin {"dead", "cancelled"}, ~reported[q]
                   PROVE  \E i \in Job : /\ jobs'[q][i].state # "free"
                                         /\ jobs'[q][i].doc \in {NoDoc, live[q]}
      BY <1>u DEF Carried, LiveIs, Stored
    <2>2. PICK i \in Job : jobs[q][i].state # "free" /\ jobs[q][i].doc \in {NoDoc, live[q]}
      BY <1>0, <2>1 DEF Carried
    <2>3. CASE q = r /\ i = j
      BY <1>e, <1>p, <2>2, <2>3
    <2>4. CASE q # r \/ i # j
      BY <1>e, <2>2, <2>4
    <2> QED BY <2>3, <2>4
  <1>5. ReportedIsStored'
    BY <1>0, <1>u DEF ReportedIsStored, Stored
  <1> QED BY <1>1, <1>2, <1>3, <1>4, <1>5 DEF JournalInv

\* Confirm keeps the invariant: what it reports has landed.
LEMMA ConfirmKeeps ==
  ASSUME JournalInv, NEW r \in Runtime, NEW j \in Job, Confirm(r, j) PROVE JournalInv'
  <1>0. JournalTypeOK /\ IdleIsEmpty /\ JobsAreSound /\ Carried /\ ReportedIsStored
    BY DEF JournalInv
  <1>u. UNCHANGED <<worker, build, live, flight, row, reported>>
    BY DEF Confirm
  <1>d. jobs[r][j].doc \in Doc /\ Stored(jobs[r][j].doc)
    BY <1>0 DEF Confirm, JobsAreSound, JournalTypeOK, JobState
  <1>e. /\ jobs' \in [Runtime -> [Job -> JobState]]
        /\ jobs'[r][j] = FreeJob
        /\ \A q \in Runtime : \A i \in Job : q # r \/ i # j => jobs'[q][i] = jobs[q][i]
    BY <1>0, NewJobs, SetJobEffect DEF Confirm
  <1>1. JournalTypeOK'
    BY <1>0, <1>d, <1>e, <1>u DEF Confirm, JournalTypeOK
  <1>2. IdleIsEmpty'
    BY <1>0, <1>e, <1>u DEF IdleIsEmpty, Looped, Pending, LiveIs, FreeJob
  <1>3. JobsAreSound'
    BY <1>0, <1>e, <1>u DEF JobsAreSound, Stored, FreeJob
  <1>4. Carried'
    <2>1. SUFFICES ASSUME NEW q \in Runtime, LiveIs(q, "CLOSED"), ~Stored(live[q]),
                          build[q] \notin {"dead", "cancelled"}, ~reported[q]
                   PROVE  \E i \in Job : /\ jobs'[q][i].state # "free"
                                         /\ jobs'[q][i].doc \in {NoDoc, live[q]}
      BY <1>u DEF Carried, LiveIs, Stored
    <2>2. PICK i \in Job : jobs[q][i].state # "free" /\ jobs[q][i].doc \in {NoDoc, live[q]}
      BY <1>0, <2>1 DEF Carried
    <2>3. q # r \/ i # j
      BY <1>d, <2>1, <2>2, NoDocIsNoDocument
    <2> QED BY <1>e, <2>2, <2>3
  <1>5. ReportedIsStored'
    <2>1. acked' = acked \cup {jobs[r][j].doc}
      BY DEF Confirm
    <2> QED BY <1>0, <1>d, <1>u, <2>1 DEF ReportedIsStored, Stored
  <1> QED BY <1>1, <1>2, <1>3, <1>4, <1>5 DEF JournalInv

\* GiveUp keeps the invariant: the job stays, or its end is logged.
LEMMA GiveUpKeeps ==
  ASSUME JournalInv, NEW r \in Runtime, NEW j \in Job, GiveUp(r, j) PROVE JournalInv'
  <1>0. JournalTypeOK /\ IdleIsEmpty /\ JobsAreSound /\ Carried /\ ReportedIsStored
    BY DEF JournalInv
  <1>t. jobs[r][j] \in JobState /\ jobs[r][j].doc # NoDoc
    BY <1>0 DEF JournalTypeOK, GiveUp, JobsAreSound
  <1>u. UNCHANGED <<worker, build, live, flight, row, acked>>
    BY DEF GiveUp
  <1>p. PICK n \in JobState :
          /\ jobs' = SetJob(r, j, n)
          /\ \/ n.state = "waiting" /\ n.doc = jobs[r][j].doc /\ reported' = reported
             \/ n = FreeJob /\ reported' = [reported EXCEPT ![r] = TRUE]
    <2>1. CASE jobs[r][j].left > 0
      <3>1. [state |-> "waiting", left |-> jobs[r][j].left, doc |-> jobs[r][j].doc] \in JobState
        BY <1>t DEF JobState
      <3> QED BY <2>1, <3>1 DEF GiveUp
    <2>2. CASE ~(jobs[r][j].left > 0)
      BY <2>2, NewJobs DEF GiveUp
    <2> QED BY <2>1, <2>2
  <1>e. /\ jobs' \in [Runtime -> [Job -> JobState]]
        /\ jobs'[r][j] = n
        /\ \A q \in Runtime : \A i \in Job : q # r \/ i # j => jobs'[q][i] = jobs[q][i]
    BY <1>0, <1>p, SetJobEffect
  <1>r. reported' \in [Runtime -> BOOLEAN] /\ \A q \in Runtime : reported[q] => reported'[q]
    BY <1>0, <1>p DEF JournalTypeOK
  <1>1. JournalTypeOK'
    BY <1>0, <1>e, <1>r, <1>u DEF JournalTypeOK
  <1>2. IdleIsEmpty'
    BY <1>0, <1>e, <1>u DEF GiveUp, IdleIsEmpty, Looped, Pending, LiveIs
  <1>3. JobsAreSound'
    BY <1>0, <1>e, <1>p, <1>u DEF JobsAreSound, Stored, FreeJob
  <1>4. Carried'
    <2>1. SUFFICES ASSUME NEW q \in Runtime, LiveIs(q, "CLOSED"), ~Stored(live[q]),
                          build[q] \notin {"dead", "cancelled"}, ~reported'[q]
                   PROVE  \E i \in Job : /\ jobs'[q][i].state # "free"
                                         /\ jobs'[q][i].doc \in {NoDoc, live[q]}
      BY <1>u DEF Carried, LiveIs, Stored
    <2>2. PICK i \in Job : jobs[q][i].state # "free" /\ jobs[q][i].doc \in {NoDoc, live[q]}
      BY <1>0, <1>r, <2>1 DEF Carried
    <2>3. CASE q # r \/ i # j
      BY <1>e, <2>2, <2>3
    <2>4. CASE q = r /\ i = j
      <3>1. n.state = "waiting" /\ n.doc = jobs[r][j].doc
        BY <1>0, <1>p, <2>1, <2>4 DEF JournalTypeOK
      <3> QED BY <1>e, <2>2, <2>4, <3>1
    <2> QED BY <2>3, <2>4
  <1>5. ReportedIsStored'
    BY <1>0, <1>u DEF ReportedIsStored, Stored
  <1> QED BY <1>1, <1>2, <1>3, <1>4, <1>5 DEF JournalInv

\* Arrive keeps the invariant: what has landed is stored or overtaken, and what
\* was stored before stays so.
LEMMA ArriveKeeps ==
  ASSUME JournalInv, NEW c \in flight, Arrive(c) PROVE JournalInv'
  <1>0. JournalTypeOK /\ IdleIsEmpty /\ JobsAreSound /\ Carried /\ ReportedIsStored
    BY DEF JournalInv
  <1>c. c.runtime \in Runtime /\ c.job \in Job /\ c.doc \in Doc
    BY <1>0 DEF JournalTypeOK, Command
  <1>u. UNCHANGED <<worker, build, live, acked, reported>> /\ flight' = flight \ {c}
    BY DEF Arrive
  <1>p. PICK n \in JobState :
          /\ jobs' = SetJob(c.runtime, c.job, n)
          /\ n.doc = jobs[c.runtime][c.job].doc
          /\ n.state # jobs[c.runtime][c.job].state =>
               n.state = "landed" /\ n.doc = c.doc /\ jobs[c.runtime][c.job].state = "sent"
    <2>t. jobs[c.runtime][c.job] \in JobState
      BY <1>0, <1>c DEF JournalTypeOK
    <2>1. CASE jobs[c.runtime][c.job].state = "sent" /\ jobs[c.runtime][c.job].doc = c.doc
      <3> DEFINE n == [state |-> "landed", left |-> jobs[c.runtime][c.job].left,
                       doc |-> jobs[c.runtime][c.job].doc]
      <3>1. n \in JobState
        BY <2>t DEF JobState
      <3>2. jobs' = SetJob(c.runtime, c.job, n)
        BY <2>1 DEF Arrive
      <3> QED BY <2>1, <3>1, <3>2
    <2>2. CASE ~(jobs[c.runtime][c.job].state = "sent" /\ jobs[c.runtime][c.job].doc = c.doc)
      <3>1. jobs' = jobs
        BY <2>2 DEF Arrive
      <3>2. jobs = SetJob(c.runtime, c.job, jobs[c.runtime][c.job])
        BY <1>0, <1>c DEF JournalTypeOK, SetJob
      <3> QED BY <2>t, <3>1, <3>2
    <2> QED BY <2>1, <2>2
  <1>e. /\ jobs' \in [Runtime -> [Job -> JobState]]
        /\ jobs'[c.runtime][c.job] = n
        /\ \A q \in Runtime : \A i \in Job :
             q # c.runtime \/ i # c.job => jobs'[q][i] = jobs[q][i]
    BY <1>0, <1>c, <1>p, SetJobEffect
  <1>w. /\ row \in Doc \cup {NoDoc} /\ row' \in Doc
        /\ row # NoDoc => /\ row'.rev >= row.rev
                          /\ row.status = "CLOSED" => row'.status = "CLOSED"
        /\ \/ row'.rev > c.doc.rev
           \/ row'.rev = c.doc.rev /\ row'.status = c.doc.status
           \/ row'.status = "CLOSED" /\ c.doc.status = "OPEN"
    BY <1>0, <1>c, SavedGoesForward DEF JournalTypeOK, Arrive
  <1>k. ASSUME NEW d \in Doc, Stored(d)
        PROVE  row' # NoDoc /\ (\/ row'.rev > d.rev
                                \/ row'.rev = d.rev /\ row'.status = d.status
                                \/ row'.status = "CLOSED" /\ d.status = "OPEN")
    <2>1. row # NoDoc
      BY <1>k DEF Stored
    <2> QED BY <1>k, <1>w, <2>1, NoDocIsNoDocument, StaysStored
  <1>1. JournalTypeOK'
    BY <1>0, <1>e, <1>u, <1>w DEF JournalTypeOK
  <1>2. IdleIsEmpty'
    <2>1. ASSUME NEW q \in Runtime, ~Looped(q), NEW i \in Job
          PROVE  jobs'[q][i].state = "free"
      BY <1>0, <1>c, <1>e, <1>p, <2>1 DEF IdleIsEmpty, Pending
    <2> QED BY <1>0, <1>u, <2>1 DEF IdleIsEmpty, Looped, Pending, LiveIs
  <1>3. JobsAreSound'
    <2>1. ASSUME NEW q \in Runtime, NEW i \in Job
          PROVE  /\ jobs'[q][i].state \in {"sent", "landed"} => jobs'[q][i].doc # NoDoc
                 /\ jobs'[q][i].state = "landed" => Stored(jobs[q][i].doc)'
      <3>1. CASE q # c.runtime \/ i # c.job
        <4>1. jobs'[q][i] = jobs[q][i] /\ jobs[q][i] \in JobState
          BY <1>0, <1>e, <3>1 DEF JournalTypeOK
        <4>2. CASE jobs[q][i].state = "landed"
          <5>1. jobs[q][i].doc \in Doc /\ Stored(jobs[q][i].doc)
            BY <1>0, <4>1, <4>2 DEF JobsAreSound, JobState
          <5> QED BY <1>0, <1>k, <4>1, <5>1 DEF JobsAreSound, Stored
        <4>3. CASE jobs[q][i].state # "landed"
          BY <1>0, <4>1, <4>3 DEF JobsAreSound
        <4> QED BY <4>2, <4>3
      <3>2. CASE q = c.runtime /\ i = c.job
        <4>t. jobs[q][i] \in JobState
          BY <1>0 DEF JournalTypeOK
        <4>1. CASE n.state = jobs[q][i].state
          <5>1. CASE n.state = "landed"
            <6>1. jobs[q][i].doc \in Doc /\ Stored(jobs[q][i].doc)
              BY <1>0, <4>1, <4>t, <5>1 DEF JobsAreSound, JobState
            <6> QED BY <1>0, <1>e, <1>k, <1>p, <3>2, <4>1, <6>1 DEF JobsAreSound, Stored
          <5>2. CASE n.state # "landed"
            BY <1>0, <1>e, <1>p, <3>2, <4>1, <5>2 DEF JobsAreSound
          <5> QED BY <5>1, <5>2
        <4>2. CASE n.state # jobs[q][i].state
          <5>1. n.state = "landed" /\ n.doc = c.doc
            BY <1>p, <3>2, <4>2
          <5> QED BY <1>c, <1>e, <1>w, <3>2, <5>1, NoDocIsNoDocument DEF Stored
        <4> QED BY <4>1, <4>2
      <3> QED BY <3>1, <3>2
    <2> QED BY <2>1 DEF JobsAreSound
  <1>4. Carried'
    <2>1. SUFFICES ASSUME NEW q \in Runtime, LiveIs(q, "CLOSED"), ~Stored(live[q])',
                          build[q] \notin {"dead", "cancelled"}, ~reported[q]
                   PROVE  \E i \in Job : /\ jobs'[q][i].state # "free"
                                         /\ jobs'[q][i].doc \in {NoDoc, live[q]}
      BY <1>u DEF Carried, LiveIs
    <2>2. live[q] \in Doc /\ ~Stored(live[q])
      <3>1. live[q] \in Doc
        BY <1>0, <2>1 DEF JournalTypeOK, LiveIs
      <3> QED BY <1>k, <1>u, <2>1, <3>1 DEF Stored
    <2>3. PICK i \in Job : jobs[q][i].state # "free" /\ jobs[q][i].doc \in {NoDoc, live[q]}
      BY <1>0, <2>1, <2>2 DEF Carried
    <2>4. jobs'[q][i].state # "free" /\ jobs'[q][i].doc = jobs[q][i].doc
      BY <1>e, <1>p, <2>3
    <2> QED BY <2>3, <2>4
  <1>5. ReportedIsStored'
    <2>1. ASSUME NEW d \in acked PROVE Stored(d)'
      <3>1. d \in Doc /\ Stored(d)
        BY <1>0, <2>1 DEF JournalTypeOK, ReportedIsStored
      <3> QED BY <1>k, <3>1 DEF Stored
    <2> QED BY <1>u, <2>1 DEF ReportedIsStored
  <1> QED BY <1>1, <1>2, <1>3, <1>4, <1>5 DEF JournalInv

\* Vanish keeps the invariant.
LEMMA VanishKeeps ==
  ASSUME JournalInv, NEW c \in flight, Vanish(c) PROVE JournalInv'
  BY DEF JournalInv, Vanish, JournalTypeOK, IdleIsEmpty, Looped, Pending, LiveIs,
         JobsAreSound, Stored, Carried, ReportedIsStored

-----------------------------------------------------------------------------
\* The initial states satisfy the invariant.
LEMMA JournalInitInv == JournalInit => JournalInv
  <1> SUFFICES ASSUME JournalInit PROVE JournalInv
    OBVIOUS
  <1>1. JournalTypeOK
    BY NewJobs DEF JournalInit, JournalTypeOK, Build
  <1>2. IdleIsEmpty
    BY DEF JournalInit, IdleIsEmpty, Pending, FreeJob, LiveIs
  <1>3. JobsAreSound /\ Carried /\ ReportedIsStored
    BY DEF JournalInit, JobsAreSound, FreeJob, Carried, LiveIs, ReportedIsStored
  <1> QED BY <1>1, <1>2, <1>3 DEF JournalInv

\* Every step keeps the invariant.
LEMMA JournalNextInv == JournalInv /\ [JournalNext]_journalVars => JournalInv'
  <1> SUFFICES ASSUME JournalInv, [JournalNext]_journalVars PROVE JournalInv'
    OBVIOUS
  <1>1. CASE StartWorker \/ DropUser \/ StopWorker \/ EndWorker \/ KillWorker
    BY <1>1, StartWorkerKeeps, DropUserKeeps, StopWorkerKeeps, EndWorkerKeeps,
       KillWorkerKeeps
  <1>2. ASSUME NEW r \in Runtime, RuntimeStep(r) PROVE JournalInv'
    <2>1. CASE Load(r) \/ Install(r) \/ FailBuild(r) \/ Mark(r)
      BY <2>1, LoadKeeps, InstallKeeps, FailBuildKeeps, MarkKeeps
    <2>2. ASSUME NEW j \in Job, Fill(r, j) \/ ClosePosition(r, j) \/ JobStep(r, j)
          PROVE  JournalInv'
      BY <2>2, FillKeeps, ClosePositionKeeps, SendKeeps, ConfirmKeeps, GiveUpKeeps
         DEF JobStep
    <2> QED BY <1>2, <2>1, <2>2 DEF RuntimeStep
  <1>3. ASSUME NEW c \in flight, Arrive(c) \/ Vanish(c) PROVE JournalInv'
    BY <1>3, ArriveKeeps, VanishKeeps
  <1>4. CASE UNCHANGED journalVars
    BY <1>4 DEF journalVars, JournalInv, JournalTypeOK, IdleIsEmpty, Looped, Pending,
                LiveIs, JobsAreSound, Stored, Carried, ReportedIsStored
  <1> QED BY <1>1, <1>2, <1>3, <1>4 DEF JournalNext

\* Every reachable state satisfies the invariant: types, what jobs hold, and
\* that a close which is not stored is carried by a job, logged or cut off.
THEOREM JournalInvariant == JournalSpec => []JournalInv
  BY JournalInitInv, JournalNextInv, PTL DEF JournalSpec

\* What was reported as saved is stored, then and ever after, or overtaken,
\* whatever threads of replaced runtimes and of earlier processes still write.
THEOREM ReportedSavesHold == JournalSpec => []ReportedIsStored
  <1>1. JournalInv => ReportedIsStored
    BY DEF JournalInv
  <1> QED BY <1>1, JournalInvariant, PTL

\* A close that is neither stored nor overtaken is still being saved, or was
\* logged, or its process was killed or ended after the runtime was replaced.
THEOREM ClosesAreCarried == JournalSpec => []NoSilentLoss
  <1>1. JournalInv => NoSilentLoss
    BY DEF JournalInv, Carried, NoSilentLoss, Pending
  <1> QED BY <1>1, JournalInvariant, PTL

\* One step of the row: only a thread writes it, and the guard of
\* _save_position lets it go forward only.
LEMMA RowStep ==
  ASSUME JournalTypeOK, [JournalNext]_journalVars, row # NoDoc
  PROVE  row' # NoDoc /\ row'.rev >= row.rev /\ (row.status = "CLOSED" => row'.status = "CLOSED")
  <1>1. row \in Doc
    BY DEF JournalTypeOK
  <1>2. CASE row' = row
    BY <1>1, <1>2 DEF Doc
  <1>3. ASSUME NEW c \in flight, Arrive(c)
        PROVE  row' # NoDoc /\ row'.rev >= row.rev
               /\ (row.status = "CLOSED" => row'.status = "CLOSED")
    <2>1. c.doc \in Doc
      BY DEF JournalTypeOK, Command
    <2> QED BY <1>1, <1>3, <2>1, NoDocIsNoDocument, SavedGoesForward DEF Arrive
  <1>4. row' = row \/ \E c \in flight : Arrive(c)
    BY DEF JournalNext, RuntimeStep, JobStep, StartWorker, DropUser, StopWorker, EndWorker,
           KillWorker, Load, Install, FailBuild, Fill, Mark, ClosePosition, Send, Confirm,
           GiveUp, Vanish, journalVars
  <1> QED BY <1>2, <1>3, <1>4

\* The stored position never goes back, whatever order the threads arrive in.
THEOREM RowMonotone == JournalSpec => RowNeverRegresses
  <1>1. JournalInv /\ [JournalNext]_journalVars =>
          [row # NoDoc => /\ row' # NoDoc
                          /\ row'.rev >= row.rev
                          /\ row.status = "CLOSED" => row'.status = "CLOSED"]_journalVars
    BY RowStep DEF JournalInv
  <1> QED BY <1>1, JournalInvariant, PTL DEF JournalSpec, RowNeverRegresses
=============================================================================
