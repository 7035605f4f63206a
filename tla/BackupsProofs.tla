--------------------------- MODULE BackupsProofs ---------------------------
(***************************************************************************)
(* Proofs about Backups, for any number of requests, any retention policy  *)
(* and any number of faults: one backup runs at a time, and a request is   *)
(* served once.                                                            *)
(***************************************************************************)
EXTENDS Backups, WellFoundedInduction, TLAPS

JobStates == {"none", "created", "folder", "snapshot", "complete", "failed"}
Statuses == {"none", "Pending", "Completed", "Failed", "Skipped"}

\* The part of TypeOK that the proofs need: all but the pruning of the volume.
Shape ==
    /\ cron \in [Scheduled -> Active \cup Ended \cup {"none", "deleted"}]
    /\ backup \in [Names -> [there : BOOLEAN, processed : BOOLEAN, status : Statuses]]
    /\ job \in [Names -> [state : JobStates, processed : BOOLEAN]]
    /\ sync \in [step : Steps, jobs : SUBSET Names, todo : SUBSET Names]
    /\ folder \in [Names -> {"none", "empty", "partial", "full"}]

Runs(n) == job[n].state \in {"created", "folder", "snapshot"}

\* A Job is labelled as processed once it has finished, and one runs at a time.
JobsInv ==
    /\ \A n \in Names : job[n].processed => isJobFinished(job[n])
    /\ \A n \in Names : job[n].state = "none" => job[n] = NoJob
    /\ OneJobAtATime

\* The request has been made, and cannot be made again.
Requested(n) ==
    IF n \in Scheduled THEN cron[n] \in {"requested", "deleted"} \cup Ended
    ELSE backup[n].there

Started(n) == job[n] # NoJob \/ folder[n] # "none"

Waiting(n) == job[n] # NoJob /\ ~job[n].processed

\* No sync takes up the request any more: it has its label, or it is gone for good.
Done(n) ==
    \/ backup[n].processed
    \/ n \in Scheduled /\ ~backup[n].there /\ cron[n] = "deleted"

\* A request that has been started is never without both: its own label, or a Job that
\* is not labelled and so brings the next sync to it.
RequestInv ==
    /\ \A n \in Names : Started(n) => Requested(n) /\ (Done(n) \/ Waiting(n))
    /\ \A n \in Scheduled : cron[n] \in {"requested"} \cup Ended => backup[n].there
    /\ \A n \in Names : backup[n].there => Requested(n)

Reconciling == {"label", "status", "jobLabel"}
Creating == {"validate", "create", "pending", "skip", "skipLabel", "failLabel"}
Quiet == Reconciling \cup {"backups", "dangling", "validate", "create", "failLabel"}

\* What a sync has read still holds when it is used.
SyncInv ==
    /\ sync.step \in Quiet => \A n \in Names : ~Runs(n)
    /\ \A n \in sync.jobs \cup sync.todo : Requested(n)
    /\ sync.step = "backups" => Unprocessed \subseteq sync.jobs
    /\ sync.step \in Reconciling \cup {"dangling", "validate", "create"} =>
          \A n \in sync.todo \ sync.jobs : ~Started(n)
    /\ sync.step \in Reconciling \cup {"dangling"} =>
          \A n \in sync.jobs \ sync.todo : Done(n)
    /\ sync.step \in Reconciling => sync.jobs \cap sync.todo # {}
    /\ sync.step \in {"status", "jobLabel"} => Done(Reconciled)
    /\ sync.step = "dangling" => sync.jobs \cap sync.todo = {}
    /\ sync.step \in Creating => sync.jobs = {} /\ sync.todo # {}

BackupInv == Shape /\ JobsInv /\ RequestInv /\ SyncInv

----------------------------------------------------------------------------
\* A set of backups that is not empty has a first one.
LEMMA HasFirst ==
    ASSUME NEW T \in SUBSET Nat, T # {}
    PROVE  \E x \in T : \A y \in T : x <= y
<1> DEFINE R == {ss \in Nat \X Nat : ss[1] < ss[2]}
<1>1. IsWellFoundedOn(R, Nat)
  BY NatLessThanWellFounded DEF OpToRel
<1>2. \E x \in T : \A y \in T : ~(<<y, x>> \in R)
  <2> HIDE DEF R
  <2> QED BY <1>1, WFMin
<1>3. PICK x \in T : \A y \in T : ~(<<y, x>> \in R)
  BY <1>2
<1>4. ASSUME NEW y \in T PROVE x <= y
  <2>1. ~(<<y, x>> \in R) /\ x \in Nat /\ y \in Nat
    BY <1>3
  <2>2. ~(y < x)
    BY <2>1
  <2> QED BY <2>1, <2>2
<1> QED BY <1>4

\* Min picks a member, whatever set of requests a sync has listed.
LEMMA MinIn ==
    ASSUME NEW T \in SUBSET Names, T # {}
    PROVE  Min(T) \in T
<1>1. T \in SUBSET Nat
  BY BackupAssumption DEF Names
<1> QED BY <1>1, HasFirst DEF Min

\* The request whose Job is reconciled is one the sync has listed with its Job.
LEMMA ReconciledIn ==
    ASSUME Shape, SyncInv, sync.step \in Reconciling
    PROVE  Reconciled \in Names /\ Reconciled \in sync.jobs /\ Reconciled \in sync.todo
<1>1. sync.jobs \cap sync.todo \in SUBSET Names
  BY DEF Shape
<1>2. sync.jobs \cap sync.todo # {}
  BY DEF SyncInv
<1>3. Reconciled \in sync.jobs \cap sync.todo
  BY <1>1, <1>2, MinIn DEF Reconciled
<1> QED BY <1>1, <1>3

\* The request a Job is created for, or that is skipped, is one the sync has listed.
LEMMA ChosenIn ==
    ASSUME Shape, SyncInv, sync.step \in Creating
    PROVE  Chosen \in Names /\ Chosen \in sync.todo
<1>1. sync.todo \in SUBSET Names /\ sync.todo # {}
  BY DEF Shape, SyncInv
<1> QED BY <1>1, MinIn DEF Chosen

\* OneJobAtATime, by the name the proofs use.
LEMMA OneRuns ==
    OneJobAtATime <=> \A m, n \in Names : Runs(m) /\ Runs(n) => m = n
  BY DEF OneJobAtATime, Runs

\* A new request.
LEMMA NewBackup ==
    /\ [NoBackup EXCEPT !.there = TRUE]
           \in [there : BOOLEAN, processed : BOOLEAN, status : Statuses]
    /\ [NoBackup EXCEPT !.there = TRUE].there
<1>1. NoBackup \in [there : BOOLEAN, processed : BOOLEAN, status : Statuses]
  BY DEF NoBackup, Statuses
<1> QED BY <1>1

----------------------------------------------------------------------------
\* What all steps but those of a sync leave true, and most of a sync as well.
Kept ==
    \A n \in Names :
        /\ Requested(n) => Requested(n)'
        /\ Requested(n) /\ Done(n) => Done(n)'
        /\ Runs(n)' => Runs(n)
        /\ Started(n)' => Started(n)
        /\ Waiting(n)' => Waiting(n)

\* Once Kept holds of a step, what a sync has read stays true.
LEMMA SyncStands ==
    ASSUME Shape, SyncInv, Kept, sync' = sync
    PROVE  SyncInv'
<1>1. sync.jobs \subseteq Names /\ sync.todo \subseteq Names
  BY DEF Shape
<1>2. Reconciled' = Reconciled
  BY DEF Reconciled
<1>3. (sync.step \in Quiet => \A n \in Names : ~Runs(n))'
  BY DEF SyncInv, Kept
<1>4. (\A n \in sync.jobs \cup sync.todo : Requested(n))'
  BY <1>1 DEF SyncInv, Kept
<1>5. (sync.step = "backups" => Unprocessed \subseteq sync.jobs)'
  BY DEF SyncInv, Kept, Unprocessed, Waiting
<1>6. (sync.step \in Reconciling \cup {"dangling", "validate", "create"} =>
          \A n \in sync.todo \ sync.jobs : ~Started(n))'
  BY <1>1 DEF SyncInv, Kept
<1>7. (sync.step \in Reconciling \cup {"dangling"} =>
          \A n \in sync.jobs \ sync.todo : Done(n))'
  BY <1>1 DEF SyncInv, Kept
<1>8. (sync.step \in {"status", "jobLabel"} => Done(Reconciled))'
  <2> SUFFICES ASSUME sync.step \in {"status", "jobLabel"} PROVE Done(Reconciled)'
    BY DEF SyncInv
  <2>1. Reconciled \in Names /\ Reconciled \in sync.todo
    BY ReconciledIn DEF Reconciling
  <2>2. Requested(Reconciled) /\ Done(Reconciled)
    BY <2>1 DEF SyncInv
  <2>3. \A n \in Names : Requested(n) /\ Done(n) => Done(n)'
    BY DEF Kept
  <2> QED BY <2>1, <2>2, <2>3, <1>2 DEF Done
<1>9. /\ (sync.step \in Reconciling => sync.jobs \cap sync.todo # {})'
      /\ (sync.step = "dangling" => sync.jobs \cap sync.todo = {})'
      /\ (sync.step \in Creating => sync.jobs = {} /\ sync.todo # {})'
  BY DEF SyncInv
<1> QED BY <1>3, <1>4, <1>5, <1>6, <1>7, <1>8, <1>9 DEF SyncInv

\* A sync that has ended holds nothing.
LEMMA SyncEnds ==
    ASSUME sync' = Idle
    PROVE  SyncInv'
  BY DEF SyncInv, Idle, Quiet, Reconciling, Creating

\* A request that has been started keeps its label or its Job when Kept holds.
LEMMA RequestsStand ==
    ASSUME Shape, RequestInv, Kept,
           \A n \in Names : Waiting(n) => Waiting(n)' \/ Done(n)',
           \A n \in Scheduled :
               cron'[n] \in {"requested"} \cup Ended => backup'[n].there,
           \A n \in Names : backup'[n].there => Requested(n)'
    PROVE  RequestInv'
  BY DEF RequestInv, Kept

----------------------------------------------------------------------------
(* Steps of the others *)

\* A request that has been made stays so: its number in the CronJob only moves on.
CronMoves ==
    \A n \in Scheduled :
        \/ cron'[n] = cron[n]
        \/ cron[n] \notin {"requested", "deleted"} \cup Ended
              /\ cron'[n] \notin {"requested", "deleted"} \cup Ended
        \/ cron[n] = "requested" /\ cron'[n] = "failed"
        \/ cron[n] \in Ended /\ cron'[n] = "deleted"

\* Steps of the CronJob and of its pods that touch no request: folders only go.
LEMMA CronStep ==
    ASSUME BackupInv, UNCHANGED <<job, backup, sync>>, Shape', CronMoves,
           \A n \in Names : folder'[n] # "none" => folder[n] # "none"
    PROVE  BackupInv'
<1>1. Kept
  <2> SUFFICES ASSUME NEW n \in Names
               PROVE  /\ Requested(n) => Requested(n)'
                      /\ Requested(n) /\ Done(n) => Done(n)'
                      /\ Runs(n)' => Runs(n)
                      /\ Started(n)' => Started(n)
                      /\ Waiting(n)' => Waiting(n)
    BY DEF Kept
  <2>1. Requested(n) => Requested(n)'
    BY DEF Requested, CronMoves, Ended
  <2>2. Done(n) => Done(n)'
    BY DEF Done, CronMoves, Ended
  <2>3. (Runs(n)' => Runs(n)) /\ (Started(n)' => Started(n)) /\ (Waiting(n)' => Waiting(n))
    BY DEF Runs, Started, Waiting
  <2> QED BY <2>1, <2>2, <2>3
<1>2. SyncInv'
  BY <1>1, SyncStands DEF BackupInv
<1>3. JobsInv'
  BY DEF BackupInv, JobsInv, OneJobAtATime
<1>4. RequestInv'
  <2>1. \A n \in Names : Waiting(n) => Waiting(n)'
    BY DEF Waiting
  <2>2. \A n \in Scheduled : cron'[n] \in {"requested"} \cup Ended => backup'[n].there
    BY DEF BackupInv, RequestInv, CronMoves, Ended
  <2>3. \A n \in Names : backup'[n].there => Requested(n)'
    BY <1>1 DEF BackupInv, RequestInv, Kept
  <2> QED BY <1>1, <2>1, <2>2, <2>3, RequestsStand DEF BackupInv
<1> QED BY <1>2, <1>3, <1>4 DEF BackupInv

\* A request is made: nothing has been started for it before.
LEMMA RequestStep ==
    ASSUME BackupInv, UNCHANGED <<job, sync, folder>>, NEW n \in Names, ~Requested(n),
           NEW new \in {"requested", "succeeded"},
           n \in Scheduled => cron' = [cron EXCEPT ![n] = new],
           n \notin Scheduled => cron' = cron,
           backup' = [backup EXCEPT ![n] = [NoBackup EXCEPT !.there = TRUE]]
    PROVE  BackupInv'
<1> USE DEF BackupInv
<1>1. /\ [NoBackup EXCEPT !.there = TRUE]
             \in [there : BOOLEAN, processed : BOOLEAN, status : Statuses]
      /\ [NoBackup EXCEPT !.there = TRUE].there
  BY NewBackup
<1>2. backup' \in [Names -> [there : BOOLEAN, processed : BOOLEAN, status : Statuses]]
  BY <1>1 DEF Shape, Statuses
<1>3. Shape'
  BY <1>2 DEF Shape, Active, Ended
<1>4. /\ backup'[n].there
      /\ \A m \in Names \ {n} : backup'[m] = backup[m]
      /\ \A m \in Scheduled \ {n} : cron'[m] = cron[m]
  BY <1>1 DEF Shape, Names
<1>5. Kept
  <2> SUFFICES ASSUME NEW m \in Names, m # n
               PROVE  (Requested(m) => Requested(m)') /\ (Done(m) => Done(m)')
    BY DEF Kept, Runs, Started, Waiting, RequestInv
  <2> QED BY <1>4 DEF Requested, Done
<1>6. SyncInv'
  BY <1>5, SyncStands
<1>7. JobsInv'
  BY DEF JobsInv, OneJobAtATime
<1>8. RequestInv'
  <2>1. \A m \in Names : Waiting(m) => Waiting(m)'
    BY DEF Waiting
  <2>2. \A m \in Scheduled : cron'[m] \in {"requested"} \cup Ended => backup'[m].there
    BY <1>4 DEF RequestInv, Names
  <2>3. Requested(n)'
    BY <1>4 DEF Requested, Shape, Ended
  <2>4. \A m \in Names : backup'[m].there => Requested(m)'
    BY <1>4, <1>5, <2>3 DEF RequestInv, Kept
  <2> QED BY <1>5, <2>1, <2>2, <2>4, RequestsStand
<1> QED BY <1>3, <1>6, <1>7, <1>8

\* The pod of a Job that runs moves it on, and writes in its own folder.
LEMMA PodStep ==
    ASSUME BackupInv, UNCHANGED <<cron, backup, sync>>, NEW n \in Names, Runs(n),
           NEW s \in JobStates \ {"none"},
           job' = [job EXCEPT ![n].state = s],
           folder' \in [Names -> {"none", "empty", "partial", "full"}],
           \A m \in Names \ {n} : folder'[m] = folder[m]
    PROVE  BackupInv'
<1> USE DEF BackupInv
<1>1. /\ job'[n] = [state |-> s, processed |-> job[n].processed]
      /\ \A m \in Names \ {n} : job'[m] = job[m]
      /\ job' \in [Names -> [state : JobStates, processed : BOOLEAN]]
  BY DEF Shape
<1>2. Shape'
  BY <1>1 DEF Shape
<1>3. ~job[n].processed /\ job[n] # NoJob
  BY DEF JobsInv, isJobFinished, Runs, NoJob
<1>4. job'[n] # NoJob /\ ~job'[n].processed /\ job'[n].state # "none"
  BY <1>1, <1>3 DEF NoJob
<1>5. Kept
  <2> SUFFICES ASSUME NEW m \in Names
               PROVE  /\ Requested(m) => Requested(m)'
                      /\ Done(m) => Done(m)'
                      /\ Runs(m)' => Runs(m)
                      /\ Started(m)' => Started(m)
                      /\ Waiting(m)' => Waiting(m)
    BY DEF Kept
  <2>1. (Requested(m) => Requested(m)') /\ (Done(m) => Done(m)')
    BY DEF Requested, Done
  <2>2. CASE m = n
    BY <2>1, <2>2, <1>3 DEF Runs, Started, Waiting
  <2>3. CASE m # n
    BY <2>1, <2>3, <1>1 DEF Runs, Started, Waiting
  <2> QED BY <2>2, <2>3
<1>6. SyncInv'
  BY <1>5, SyncStands
<1>7. JobsInv'
  <2>1. \A m \in Names : Runs(m)' => Runs(m)
    BY <1>5 DEF Kept
  <2>2. (\A m, k \in Names : Runs(m) /\ Runs(k) => m = k)'
    BY <2>1, OneRuns DEF JobsInv
  <2>3. OneJobAtATime'
    BY <2>2 DEF OneJobAtATime, Runs
  <2> QED BY <1>1, <1>4, <2>3 DEF JobsInv, isJobFinished
<1>8. RequestInv'
  <2>1. \A m \in Names : Waiting(m) => Waiting(m)'
    BY <1>1, <1>4 DEF Waiting
  <2>2. \A m \in Names : backup'[m].there => Requested(m)'
    BY <1>5 DEF RequestInv, Kept
  <2> QED BY <1>5, <2>1, <2>2, RequestsStand DEF RequestInv
<1> QED BY <1>2, <1>6, <1>7, <1>8

\* A Job goes, or is labelled as processed: the request it was for is Done.
LEMMA JobStep ==
    ASSUME BackupInv, UNCHANGED <<cron, backup, folder>>, NEW n \in Names, Done(n),
           NEW new \in {NoJob, [job[n] EXCEPT !.processed = TRUE]},
           ~Runs(n) \/ new = NoJob, job[n] # NoJob,
           job' = [job EXCEPT ![n] = new]
    PROVE  /\ Kept /\ JobsInv' /\ RequestInv'
           /\ job' \in [Names -> [state : JobStates, processed : BOOLEAN]]
<1> USE DEF BackupInv
<1>1. /\ new \in [state : JobStates, processed : BOOLEAN]
      /\ new = NoJob \/ (new.processed /\ new.state = job[n].state)
  <2>1. job[n] \in [state : JobStates, processed : BOOLEAN]
    BY DEF Shape
  <2>2. CASE new = NoJob
    BY <2>2 DEF NoJob, JobStates
  <2>3. CASE new = [job[n] EXCEPT !.processed = TRUE]
    BY <2>1, <2>3
  <2> QED BY <2>2, <2>3
<1>2. /\ job'[n] = new
      /\ \A m \in Names \ {n} : job'[m] = job[m]
      /\ job' \in [Names -> [state : JobStates, processed : BOOLEAN]]
  BY <1>1 DEF Shape
<1>3. new.state # "none" \/ new = NoJob
  BY <1>1 DEF JobsInv
<1>4. Kept
  <2> SUFFICES ASSUME NEW m \in Names
               PROVE  /\ Requested(m) => Requested(m)'
                      /\ Done(m) => Done(m)'
                      /\ Runs(m)' => Runs(m)
                      /\ Started(m)' => Started(m)
                      /\ Waiting(m)' => Waiting(m)
    BY DEF Kept
  <2>1. (Requested(m) => Requested(m)') /\ (Done(m) => Done(m)')
    BY DEF Requested, Done
  <2>2. CASE m = n
    BY <2>1, <2>2, <1>1, <1>2 DEF Runs, Started, Waiting, NoJob
  <2>3. CASE m # n
    BY <2>1, <2>3, <1>2 DEF Runs, Started, Waiting
  <2> QED BY <2>2, <2>3
<1>5. JobsInv'
  <2>1. \A m \in Names : Runs(m)' => Runs(m)
    BY <1>4 DEF Kept
  <2>2. (\A m, k \in Names : Runs(m) /\ Runs(k) => m = k)'
    BY <2>1, OneRuns DEF JobsInv
  <2>3. OneJobAtATime'
    BY <2>2 DEF OneJobAtATime, Runs
  <2>4. job'[n].processed => isJobFinished(job'[n])
    <3>1. CASE new = NoJob
      BY <3>1, <1>2 DEF NoJob
    <3>2. CASE new # NoJob
      BY <3>2, <1>1, <1>2, <1>3 DEF isJobFinished, Runs, JobStates
    <3> QED BY <3>1, <3>2
  <2>5. job'[n].state = "none" => job'[n] = NoJob
    BY <1>2, <1>3
  <2>6. \A m \in Names : job'[m].processed => isJobFinished(job'[m])
    BY <1>2, <2>4 DEF JobsInv
  <2>7. \A m \in Names : job'[m].state = "none" => job'[m] = NoJob
    BY <1>2, <2>5 DEF JobsInv
  <2> QED BY <2>3, <2>6, <2>7 DEF JobsInv
<1>6. RequestInv'
  <2>1. \A m \in Names : Waiting(m) => Waiting(m)' \/ Done(m)'
    BY <1>2 DEF Waiting, Done
  <2>2. \A m \in Names : backup'[m].there => Requested(m)'
    BY <1>4 DEF RequestInv, Kept
  <2> QED BY <1>4, <2>1, <2>2, RequestsStand DEF RequestInv
<1> QED BY <1>2, <1>4, <1>5, <1>6

\* An EtcdBackup is written, and keeps its label, or is deleted with its Job.
LEMMA BackupStep ==
    ASSUME BackupInv, UNCHANGED <<cron, job, folder>>,
           backup' \in [Names -> [there : BOOLEAN, processed : BOOLEAN, status : Statuses]],
           \A n \in Names :
               \/ backup'[n].there = backup[n].there
                     /\ (backup[n].processed => backup'[n].processed)
               \/ n \in Scheduled /\ cron[n] = "deleted" /\ ~backup'[n].there
    PROVE  Kept /\ JobsInv' /\ RequestInv'
<1> USE DEF BackupInv
<1>1. Kept
  <2> SUFFICES ASSUME NEW m \in Names
               PROVE  (Requested(m) => Requested(m)') /\ (Done(m) => Done(m)')
    BY DEF Kept, Runs, Started, Waiting
  <2> QED BY DEF Requested, Done
<1>2. JobsInv'
  BY DEF JobsInv, OneJobAtATime
<1>3. RequestInv'
  <2>1. \A m \in Names : Waiting(m) => Waiting(m)'
    BY DEF Waiting
  <2>2. \A m \in Scheduled : cron'[m] \in {"requested"} \cup Ended => backup'[m].there
    BY DEF RequestInv, Names, Ended
  <2>3. \A m \in Names : backup'[m].there => Requested(m)'
    BY <1>1 DEF RequestInv, Kept
  <2> QED BY <1>1, <2>1, <2>2, <2>3, RequestsStand
<1> QED BY <1>1, <1>2, <1>3

----------------------------------------------------------------------------
(* Steps of a sync *)

\* Past reconciling: what is left are Jobs of requests that are Done, and requests that
\* nothing has been started for.
LEMMA Reconcile ==
    ASSUME NEW jobs \in SUBSET Names, NEW todo \in SUBSET Names, AfterReconcile(jobs, todo),
           jobs \cap todo = {},
           \A n \in Names : ~Runs(n)',
           \A n \in jobs : Requested(n)' /\ Done(n)',
           \A n \in todo : Requested(n)' /\ ~Started(n)'
    PROVE  SyncInv' /\ sync' \in [step : Steps, jobs : SUBSET Names, todo : SUBSET Names]
<1>1. CASE jobs # {}
  <2>1. sync' = [step |-> "dangling", jobs |-> jobs, todo |-> todo]
    BY <1>1 DEF AfterReconcile, Go
  <2> QED BY <2>1, <1>1 DEF SyncInv, Steps, Reconciling, Creating
<1>2. CASE jobs = {} /\ todo # {}
  <2>1. sync' = [step |-> "validate", jobs |-> {}, todo |-> todo]
    BY <1>2 DEF AfterReconcile, Go
  <2> QED BY <2>1, <1>2 DEF SyncInv, Steps, Reconciling, Creating
<1>3. CASE jobs = {} /\ todo = {}
  <2>1. sync' = Idle
    BY <1>3 DEF AfterReconcile, Go
  <2> QED BY <2>1, SyncEnds DEF Idle, Steps
<1> QED BY <1>1, <1>2, <1>3

\* The steps after a Job has been created, for the requests that are left.
LEMMA Later ==
    ASSUME Shape, SyncInv, Kept, NEW s \in {"idle", "pending", "skip", "skipLabel"},
           NEW todo \in SUBSET sync.todo, s = "idle" \/ todo # {},
           sync' = [step |-> s, jobs |-> {}, todo |-> todo]
    PROVE  SyncInv' /\ sync' \in [step : Steps, jobs : SUBSET Names, todo : SUBSET Names]
<1>1. todo \in SUBSET Names
  BY DEF Shape
<1>2. \A n \in todo : Requested(n)'
  BY <1>1 DEF SyncInv, Kept
<1> QED BY <1>1, <1>2 DEF SyncInv, Steps, Quiet, Reconciling, Creating

\* The type of sync.
Syncs == [step : Steps, jobs : SUBSET Names, todo : SUBSET Names]

\* A write to an EtcdBackup that keeps its label and does not delete it.
LEMMA WriteStep ==
    ASSUME BackupInv, UNCHANGED <<cron, job, folder>>, NEW n \in Names,
           NEW new \in [there : BOOLEAN, processed : BOOLEAN, status : Statuses],
           new.there = backup[n].there, backup[n].processed => new.processed,
           NEW step, NEW jobs, NEW todo, WriteBackup(n, new, step, jobs, todo)
    PROVE  /\ Kept /\ JobsInv' /\ RequestInv' /\ (sync' \in Syncs => Shape')
           /\ \/ sync' = Idle
              \/ sync' = [step |-> step, jobs |-> jobs, todo |-> todo] /\ backup'[n] = new
<1>1. CASE backup[n].there
  <2>1. backup' = [backup EXCEPT ![n] = new]
    BY <1>1 DEF WriteBackup
  <2>2. sync' = [step |-> step, jobs |-> jobs, todo |-> todo]
    BY <1>1 DEF WriteBackup, Go
  <2>3. /\ backup' \in [Names -> [there : BOOLEAN, processed : BOOLEAN, status : Statuses]]
        /\ backup'[n] = new
        /\ \A m \in Names \ {n} : backup'[m] = backup[m]
    BY <2>1 DEF BackupInv, Shape
  <2>4. Kept /\ JobsInv' /\ RequestInv'
    BY <2>3, BackupStep
  <2> QED BY <2>2, <2>3, <2>4 DEF BackupInv, Shape, Syncs
<1>2. CASE ~backup[n].there
  <2>1. backup' = backup /\ sync' = Idle
    BY <1>2 DEF WriteBackup
  <2>2. backup' \in [Names -> [there : BOOLEAN, processed : BOOLEAN, status : Statuses]]
    BY <2>1 DEF BackupInv, Shape
  <2>3. Kept /\ JobsInv' /\ RequestInv'
    BY <2>1, <2>2, BackupStep
  <2> QED BY <2>1, <2>2, <2>3 DEF BackupInv, Shape, Syncs
<1> QED BY <1>1, <1>2

\* No Job runs once none was found, and all that are not labelled are listed.
LEMMA ListJobsStep ==
    ASSUME BackupInv, ListJobs
    PROVE  BackupInv'
<1> USE DEF BackupInv
<1>1. /\ sync' = [step |-> "backups", jobs |-> Unprocessed, todo |-> {}]
      /\ UNCHANGED <<cron, backup, job, folder>>
  BY DEF ListJobs, Go, Env, cronVars, disk
<1>2. Shape'
  BY <1>1 DEF Shape, Unprocessed, Steps
<1>3. \A n \in Names : ~Runs(n)
  <2> SUFFICES ASSUME NEW n \in Names, Runs(n) PROVE FALSE
    OBVIOUS
  <2>1. job[n] # NoJob
    BY DEF Runs, NoJob
  <2>2. ~isJobFinished(job[n])
    BY DEF Runs, isJobFinished
  <2>3. n \in Unprocessed
    BY <2>1, <2>2 DEF JobsInv, Unprocessed
  <2> QED BY <2>2, <2>3 DEF ListJobs, findRunningJobs
<1>4. \A n \in Unprocessed : Requested(n)
  BY DEF RequestInv, Started, Unprocessed
<1>5. (\A n \in Names : ~Runs(n))' /\ Unprocessed' = Unprocessed
  BY <1>1, <1>3 DEF Runs, Unprocessed
<1>6. \A n \in Unprocessed : Requested(n)'
  BY <1>1, <1>4 DEF Requested
<1>7. SyncInv'
  BY <1>1, <1>5, <1>6 DEF SyncInv, Reconciling, Creating
<1>8. JobsInv' /\ RequestInv'
  BY <1>1 DEF JobsInv, OneJobAtATime, RequestInv, Started, Requested, Done, Waiting
<1> QED BY <1>2, <1>7, <1>8

\* A request without its label is listed: it has been started only if its Job is listed.
LEMMA ListBackupsStep ==
    ASSUME BackupInv, ListBackups
    PROVE  BackupInv'
<1> USE DEF BackupInv
<1> DEFINE listed == {n \in Names : backup[n].there /\ ~backup[n].processed}
<1>1. /\ sync.step = "backups" /\ sync.jobs \in SUBSET Names
      /\ IF listed \cap sync.jobs # {}
         THEN Go("label", sync.jobs, listed) ELSE AfterReconcile(sync.jobs, listed)
      /\ UNCHANGED <<cron, backup, job, folder>>
  BY DEF ListBackups, Env, cronVars, disk, Shape
<1>2. Kept
  BY <1>1 DEF Kept, Runs, Started, Requested, Done, Waiting
<1>3. JobsInv' /\ RequestInv'
  BY <1>1 DEF JobsInv, OneJobAtATime, RequestInv, Started, Requested, Done, Waiting
<1>4. \A n \in Names : ~Runs(n)'
  BY <1>1 DEF SyncInv, Quiet, Runs
<1>5. \A n \in listed : Requested(n)'
  BY <1>2 DEF RequestInv, Kept
<1>6. \A n \in listed \ sync.jobs : ~Started(n)'
  <2> SUFFICES ASSUME NEW n \in listed, n \notin sync.jobs, Started(n) PROVE FALSE
    BY <1>2 DEF Kept
  <2>1. ~Done(n)
    BY DEF Done
  <2>2. Waiting(n)
    BY <2>1 DEF RequestInv
  <2> QED BY <1>1, <2>2 DEF SyncInv, Unprocessed, Waiting
<1>7. \A n \in sync.jobs : Requested(n)'
  BY <1>1, <1>2 DEF SyncInv, Kept
<1>8. \A n \in sync.jobs \ listed : Done(n)'
  <2> SUFFICES ASSUME NEW n \in sync.jobs, n \notin listed PROVE Done(n)
    BY <1>1, <1>2 DEF Kept, SyncInv
  <2>1. Requested(n) /\ n \in Names
    BY <1>1 DEF SyncInv
  <2>2. CASE backup[n].processed
    BY <2>2 DEF Done
  <2>3. CASE ~backup[n].there
    BY <2>1, <2>3 DEF Requested, RequestInv, Done
  <2> QED BY <2>1, <2>2, <2>3
<1>9. SyncInv' /\ sync' \in Syncs
  <2> HIDE DEF listed
  <2>0. listed \in SUBSET Names
    BY DEF listed
  <2>1. CASE listed \cap sync.jobs # {}
    <3>1. sync' = [step |-> "label", jobs |-> sync.jobs, todo |-> listed]
      BY <1>1, <2>1 DEF Go
    <3> QED BY <3>1, <2>0, <2>1, <1>1, <1>4, <1>5, <1>6, <1>7, <1>8
            DEF SyncInv, Syncs, Steps, Reconciling, Creating
  <2>2. CASE listed \cap sync.jobs = {}
    <3>1. AfterReconcile(sync.jobs, listed)
      BY <1>1, <2>2
    <3> QED BY <3>1, <2>0, <2>2, <1>1, <1>4, <1>5, <1>6, <1>7, <1>8, Reconcile DEF Syncs
  <2> QED BY <2>1, <2>2
<1> QED BY <1>1, <1>3, <1>9 DEF Shape, Syncs

\* reconcileJobStatus goes on to the next of its three writes.
LEMMA Reconciles ==
    ASSUME Shape, SyncInv, Kept, sync.step \in Reconciling, NEW s \in Reconciling,
           sync' = [step |-> s, jobs |-> sync.jobs, todo |-> sync.todo],
           Done(Reconciled)'
    PROVE  SyncInv' /\ sync' \in Syncs
<1>1. sync' \in Syncs
  BY DEF Shape, Syncs, Steps, Reconciling
<1>2. sync.jobs \in SUBSET Names /\ sync.todo \in SUBSET Names
  BY DEF Shape
<1>3. \A n \in Names : ~Runs(n)'
  BY DEF SyncInv, Quiet, Kept
<1>4. \A n \in sync.jobs \cup sync.todo : Requested(n)'
  BY <1>2 DEF SyncInv, Kept
<1>5. \A n \in sync.todo \ sync.jobs : ~Started(n)'
  BY <1>2 DEF SyncInv, Kept
<1>6. \A n \in sync.jobs \ sync.todo : Done(n)'
  BY <1>2, <1>4 DEF SyncInv, Kept
<1>7. sync.jobs \cap sync.todo # {}
  BY DEF SyncInv
<1> QED BY <1>1, <1>3, <1>4, <1>5, <1>6, <1>7 DEF SyncInv, Reconciling, Creating

\* The label of the backup comes first: from then on it is Done.
LEMMA LabelBackupStep ==
    ASSUME BackupInv, LabelBackup
    PROVE  BackupInv'
<1> USE DEF BackupInv
<1> DEFINE new == [backup[Reconciled] EXCEPT !.processed = TRUE]
<1>1. sync.step = "label" /\ UNCHANGED <<cron, job, folder>>
  BY DEF LabelBackup, Env, cronVars, disk
<1>2. Reconciled \in Names
  BY <1>1, ReconciledIn DEF Reconciling
<1>3. /\ new \in [there : BOOLEAN, processed : BOOLEAN, status : Statuses]
      /\ new.there = backup[Reconciled].there /\ new.processed
  <2>1. backup[Reconciled] \in [there : BOOLEAN, processed : BOOLEAN, status : Statuses]
    BY <1>2 DEF Shape
  <2> QED BY <2>1
<1>4. WriteBackup(Reconciled, new, "status", sync.jobs, sync.todo)
  BY DEF LabelBackup
<1> HIDE DEF new
<1>5. /\ Kept /\ JobsInv' /\ RequestInv' /\ (sync' \in Syncs => Shape')
      /\ \/ sync' = Idle
         \/ sync' = [step |-> "status", jobs |-> sync.jobs, todo |-> sync.todo]
               /\ backup'[Reconciled] = new
  BY <1>1, <1>2, <1>3, <1>4, WriteStep
<1>6. CASE sync' = Idle
  BY <1>5, <1>6, SyncEnds DEF Idle, Syncs, Steps
<1>7. CASE /\ sync' = [step |-> "status", jobs |-> sync.jobs, todo |-> sync.todo]
           /\ backup'[Reconciled] = new
  <2>1. Reconciled' = Reconciled
    BY <1>7 DEF Reconciled
  <2>2. Done(Reconciled)'
    BY <2>1, <1>3, <1>7 DEF Done
  <2> QED BY <2>2, <1>1, <1>5, <1>7, Reconciles DEF Reconciling
<1> QED BY <1>5, <1>6, <1>7

\* The status comes next, and changes nothing else.
LEMMA SetFinalStatusStep ==
    ASSUME BackupInv, SetFinalStatus
    PROVE  BackupInv'
<1> USE DEF BackupInv
<1> DEFINE status == IF job[Reconciled].state = "failed" THEN "Failed" ELSE "Completed"
           new == [backup[Reconciled] EXCEPT !.status = status]
<1>1. sync.step = "status" /\ UNCHANGED <<cron, job, folder>>
  BY DEF SetFinalStatus, Env, cronVars, disk
<1>2. Reconciled \in Names /\ Reconciled \in sync.todo
  BY <1>1, ReconciledIn DEF Reconciling
<1>3. /\ new \in [there : BOOLEAN, processed : BOOLEAN, status : Statuses]
      /\ new.there = backup[Reconciled].there
      /\ new.processed = backup[Reconciled].processed
  <2>1. backup[Reconciled] \in [there : BOOLEAN, processed : BOOLEAN, status : Statuses]
    BY <1>2 DEF Shape
  <2>2. status \in Statuses
    BY DEF Statuses
  <2> HIDE DEF status
  <2> QED BY <2>1, <2>2
<1>4. WriteBackup(Reconciled, new, "jobLabel", sync.jobs, sync.todo)
  BY DEF SetFinalStatus
<1> HIDE DEF new
<1>5. /\ Kept /\ JobsInv' /\ RequestInv' /\ (sync' \in Syncs => Shape')
      /\ \/ sync' = Idle
         \/ sync' = [step |-> "jobLabel", jobs |-> sync.jobs, todo |-> sync.todo]
  BY <1>1, <1>2, <1>3, <1>4, WriteStep
<1>6. CASE sync' = Idle
  BY <1>5, <1>6, SyncEnds DEF Idle, Syncs, Steps
<1>7. CASE sync' = [step |-> "jobLabel", jobs |-> sync.jobs, todo |-> sync.todo]
  <2>1. Reconciled' = Reconciled
    BY <1>7 DEF Reconciled
  <2>2. Requested(Reconciled) /\ Done(Reconciled)
    BY <1>1, <1>2 DEF SyncInv
  <2>3. \A n \in Names : Requested(n) /\ Done(n) => Done(n)'
    BY <1>5 DEF Kept
  <2>4. Done(Reconciled)'
    BY <2>1, <2>2, <2>3, <1>2 DEF Done
  <2> QED BY <2>4, <1>1, <1>5, <1>7, Reconciles DEF Reconciling
<1> QED BY <1>5, <1>6, <1>7

\* The label of the Job is last: the next sync need not find the Job any more.
LEMMA LabelJobStep ==
    ASSUME BackupInv, LabelJob
    PROVE  BackupInv'
<1> USE DEF BackupInv
<1>1. sync.step = "jobLabel" /\ UNCHANGED <<cron, backup, folder>>
  BY DEF LabelJob, Env, cronVars, disk
<1>2. Reconciled \in Names /\ Reconciled \in sync.jobs /\ Reconciled \in sync.todo
  BY <1>1, ReconciledIn DEF Reconciling
<1>3. CASE job[Reconciled] = NoJob
  <2>1. sync' = Idle /\ job' = job
    BY <1>3 DEF LabelJob
  <2>2. JobsInv' /\ RequestInv' /\ Shape'
    BY <2>1, <1>1 DEF Shape, Idle, Steps, JobsInv, OneJobAtATime, RequestInv, Started,
                      Requested, Done, Waiting
  <2> QED BY <2>1, <2>2, SyncEnds
<1>4. CASE job[Reconciled] # NoJob
  <2> DEFINE new == [job[Reconciled] EXCEPT !.processed = TRUE]
             jobs == sync.jobs \ {Reconciled}
             todo == sync.todo \ {Reconciled}
  <2>1. Done(Reconciled) /\ ~Runs(Reconciled)
    BY <1>1, <1>2 DEF SyncInv, Quiet, Reconciling
  <2>2. job' = [job EXCEPT ![Reconciled] = new]
    BY <1>4 DEF LabelJob
  <2>3. /\ Kept /\ JobsInv' /\ RequestInv'
        /\ job' \in [Names -> [state : JobStates, processed : BOOLEAN]]
    BY <2>1, <2>2, <1>1, <1>2, <1>4, JobStep
  <2>4. IF jobs \cap todo # {} THEN Go("label", jobs, todo) ELSE AfterReconcile(jobs, todo)
    BY <1>4 DEF LabelJob
  <2>5. jobs \in SUBSET Names /\ todo \in SUBSET Names
    BY DEF Shape
  <2>6. \A n \in Names : ~Runs(n)'
    BY <2>3, <1>1 DEF SyncInv, Quiet, Reconciling, Kept
  <2>7. \A n \in jobs \cup todo : Requested(n)'
    BY <2>3, <2>5 DEF SyncInv, Kept
  <2>8. \A n \in todo \ jobs : ~Started(n)'
    BY <2>3, <2>5, <1>1 DEF SyncInv, Kept, Reconciling
  <2>9. \A n \in jobs \ todo : Done(n)'
    BY <2>3, <2>5, <1>1 DEF SyncInv, Kept, Reconciling
  <2> HIDE DEF jobs, todo, new
  <2>10. SyncInv' /\ sync' \in Syncs
    <3>1. CASE jobs \cap todo # {}
      <4>1. sync' = [step |-> "label", jobs |-> jobs, todo |-> todo]
        BY <2>4, <3>1 DEF Go
      <4> QED BY <4>1, <3>1, <2>5, <2>6, <2>7, <2>8, <2>9
              DEF SyncInv, Syncs, Steps, Reconciling, Creating
    <3>2. CASE jobs \cap todo = {}
      BY <3>2, <2>4, <2>5, <2>6, <2>7, <2>8, <2>9, Reconcile DEF Syncs
    <3> QED BY <3>1, <3>2
  <2> QED BY <2>3, <2>10, <1>1 DEF Shape, Syncs
<1> QED BY <1>3, <1>4

\* A Job without a request that waits for it is deleted: its request is Done.
LEMMA DeleteDanglingStep ==
    ASSUME BackupInv, NEW n \in Names, DeleteDangling(n)
    PROVE  BackupInv'
<1> USE DEF BackupInv
<1>1. sync.step = "dangling" /\ n \in sync.jobs /\ UNCHANGED <<cron, backup, folder>>
  BY DEF DeleteDangling, Env, cronVars, disk
<1>2. CASE job[n] = NoJob
  <2>1. sync' = Idle /\ job' = job
    BY <1>2 DEF DeleteDangling
  <2>2. JobsInv' /\ RequestInv' /\ Shape'
    BY <2>1, <1>1 DEF Shape, Idle, Steps, JobsInv, OneJobAtATime, RequestInv, Started,
                      Requested, Done, Waiting
  <2> QED BY <2>1, <2>2, SyncEnds
<1>3. CASE job[n] # NoJob
  <2> DEFINE jobs == sync.jobs \ {n}
  <2>1. n \notin sync.todo /\ Done(n)
    BY <1>1 DEF SyncInv
  <2>2. job' = [job EXCEPT ![n] = NoJob] /\ AfterReconcile(jobs, sync.todo)
    BY <1>3 DEF DeleteDangling
  <2>3. /\ Kept /\ JobsInv' /\ RequestInv'
        /\ job' \in [Names -> [state : JobStates, processed : BOOLEAN]]
    BY <2>1, <2>2, <1>1, <1>3, JobStep
  <2>4. jobs \in SUBSET Names /\ sync.todo \in SUBSET Names /\ jobs \cap sync.todo = {}
    BY <1>1 DEF Shape, SyncInv
  <2>5. \A m \in Names : ~Runs(m)'
    BY <2>3, <1>1 DEF SyncInv, Quiet, Kept
  <2>6. \A m \in jobs : Requested(m)' /\ Done(m)'
    BY <2>3, <2>4, <1>1 DEF SyncInv, Kept
  <2>7. \A m \in sync.todo : Requested(m)' /\ ~Started(m)'
    BY <2>3, <2>4, <1>1 DEF SyncInv, Kept
  <2> HIDE DEF jobs
  <2>8. SyncInv' /\ sync' \in Syncs
    BY <2>2, <2>4, <2>5, <2>6, <2>7, Reconcile DEF Syncs
  <2> QED BY <2>3, <2>8, <1>1 DEF Shape, Syncs
<1> QED BY <1>2, <1>3

\* The status of a request, and nothing else of it, changes.
LEMMA StatusOnly ==
    ASSUME Shape, NEW n \in Names, NEW status \in Statuses
    PROVE  LET new == [backup[n] EXCEPT !.status = status]
           IN  /\ new \in [there : BOOLEAN, processed : BOOLEAN, status : Statuses]
               /\ new.there = backup[n].there
               /\ new.processed = backup[n].processed
<1>1. backup[n] \in [there : BOOLEAN, processed : BOOLEAN, status : Statuses]
  BY DEF Shape
<1> QED BY <1>1

\* A request is labelled as processed, and nothing else of it changes.
LEMMA LabelOnly ==
    ASSUME Shape, NEW n \in Names
    PROVE  LET new == [backup[n] EXCEPT !.processed = TRUE]
           IN  /\ new \in [there : BOOLEAN, processed : BOOLEAN, status : Statuses]
               /\ new.there = backup[n].there
               /\ new.processed
<1>1. backup[n] \in [there : BOOLEAN, processed : BOOLEAN, status : Statuses]
  BY DEF Shape
<1> QED BY <1>1

\* validateBackup leaves the list of requests as it was.
LEMMA ValidateStep ==
    ASSUME BackupInv, validateBackup
    PROVE  BackupInv'
<1> USE DEF BackupInv
<1>1. sync.step = "validate" /\ UNCHANGED <<cron, job, folder>>
  BY DEF validateBackup, Env, cronVars, disk
<1>2. sync.jobs = {} /\ sync.todo # {} /\ sync.todo \in SUBSET Names /\ Chosen \in Names
  BY <1>1, ChosenIn DEF Creating, SyncInv, Shape
<1>3. ASSUME Kept, NEW s \in {"create", "failLabel"},
             sync' = [step |-> s, jobs |-> {}, todo |-> sync.todo]
      PROVE  SyncInv' /\ sync' \in Syncs
  <2>1. \A n \in Names : ~Runs(n)'
    BY <1>1, <1>3 DEF SyncInv, Quiet, Kept
  <2>2. \A n \in sync.todo : Requested(n)' /\ ~Started(n)'
    BY <1>1, <1>2, <1>3 DEF SyncInv, Kept
  <2> QED BY <2>1, <2>2, <1>2, <1>3 DEF SyncInv, Syncs, Steps, Reconciling, Creating
<1>4. CASE pvc
  <2>1. sync' = [step |-> "create", jobs |-> {}, todo |-> sync.todo] /\ backup' = backup
    BY <1>4 DEF validateBackup, Go
  <2>2. Kept /\ JobsInv' /\ RequestInv'
    BY <2>1, <1>1 DEF Kept, Runs, JobsInv, OneJobAtATime, RequestInv, Started,
                      Requested, Done, Waiting
  <2> QED BY <2>1, <2>2, <1>1, <1>3 DEF Shape, Syncs
<1>5. CASE ~pvc
  <2> DEFINE new == [backup[Chosen] EXCEPT !.status = "Failed"]
  <2>1. /\ new \in [there : BOOLEAN, processed : BOOLEAN, status : Statuses]
        /\ new.there = backup[Chosen].there
        /\ new.processed = backup[Chosen].processed
    BY <1>2, StatusOnly DEF Statuses
  <2>2. WriteBackup(Chosen, new, "failLabel", {}, sync.todo)
    BY <1>5 DEF validateBackup
  <2> HIDE DEF new
  <2>3. /\ Kept /\ JobsInv' /\ RequestInv' /\ (sync' \in Syncs => Shape')
        /\ \/ sync' = Idle
           \/ sync' = [step |-> "failLabel", jobs |-> {}, todo |-> sync.todo]
    BY <2>1, <2>2, <1>1, <1>2, WriteStep
  <2>4. CASE sync' = Idle
    BY <2>3, <2>4, SyncEnds DEF Idle, Syncs, Steps
  <2>5. CASE sync' = [step |-> "failLabel", jobs |-> {}, todo |-> sync.todo]
    BY <2>3, <2>5, <1>3
  <2> QED BY <2>3, <2>4, <2>5
<1> QED BY <1>4, <1>5

\* The last write of markBackupFailed.
LEMMA LabelFailedStep ==
    ASSUME BackupInv, LabelFailed
    PROVE  BackupInv'
<1> USE DEF BackupInv
<1>1. sync.step = "failLabel" /\ sync' = Idle /\ UNCHANGED <<cron, job, folder>>
  BY DEF LabelFailed, Env, cronVars, disk
<1>2. Chosen \in Names
  BY <1>1, ChosenIn DEF Creating
<1> DEFINE new == [backup[Chosen] EXCEPT !.processed = TRUE]
<1>3. /\ new \in [there : BOOLEAN, processed : BOOLEAN, status : Statuses]
      /\ new.there = backup[Chosen].there /\ new.processed
  BY <1>2, LabelOnly
<1>4. backup' = [backup EXCEPT ![Chosen] = new] \/ backup' = backup
  BY DEF LabelFailed
<1> HIDE DEF new
<1>5. /\ backup' \in [Names -> [there : BOOLEAN, processed : BOOLEAN, status : Statuses]]
      /\ \A n \in Names : /\ backup'[n].there = backup[n].there
                          /\ backup[n].processed => backup'[n].processed
  <2>1. CASE backup' = backup
    BY <2>1 DEF Shape
  <2>2. CASE backup' = [backup EXCEPT ![Chosen] = new]
    <3>1. backup'[Chosen] = new /\ \A m \in Names \ {Chosen} : backup'[m] = backup[m]
      BY <2>2, <1>2 DEF Shape
    <3> QED BY <3>1, <2>2, <1>3 DEF Shape
  <2> QED BY <1>4, <2>1, <2>2
<1>6. Kept /\ JobsInv' /\ RequestInv'
  BY <1>1, <1>5, BackupStep
<1> QED BY <1>1, <1>5, <1>6, SyncEnds DEF Shape, Idle, Steps

\* A Job is created when none runs, for a request that nothing has been started for.
LEMMA CreateStep ==
    ASSUME BackupInv, createBackupJob
    PROVE  BackupInv' /\ Chosen \in Names /\ ~Started(Chosen)
<1> USE DEF BackupInv
<1> DEFINE new == [state |-> "created", processed |-> FALSE]
<1>1. /\ sync.step = "create" /\ UNCHANGED <<cron, backup, folder>>
      /\ sync' = [step |-> "pending", jobs |-> {}, todo |-> sync.todo]
      /\ job' = [job EXCEPT ![Chosen] = new]
  BY DEF createBackupJob, Env, cronVars, disk, Go
<1>2. sync.jobs = {} /\ sync.todo # {} /\ sync.todo \in SUBSET Names
  BY <1>1 DEF Creating, SyncInv, Shape
<1>3. Chosen \in Names /\ Chosen \in sync.todo
  BY <1>1, ChosenIn DEF Creating
<1>4. ~Started(Chosen) /\ Requested(Chosen)
  BY <1>1, <1>2, <1>3 DEF SyncInv
<1>5. /\ job' \in [Names -> [state : JobStates, processed : BOOLEAN]]
      /\ job'[Chosen] = new
      /\ \A m \in Names \ {Chosen} : job'[m] = job[m]
  BY <1>1, <1>3 DEF Shape, JobStates
<1>6. new.state = "created" /\ ~new.processed /\ new # NoJob
  BY DEF NoJob
<1> HIDE DEF new
<1>7. Shape'
  BY <1>1, <1>2, <1>5 DEF Shape, Steps
<1>8. JobsInv'
  <2>1. \A m \in Names : ~Runs(m)
    BY <1>1 DEF SyncInv, Quiet
  <2>2. \A m \in Names : job'[m].state \in {"created", "folder", "snapshot"} => m = Chosen
    BY <2>1, <1>5 DEF Runs
  <2>3. OneJobAtATime'
    BY <2>2 DEF OneJobAtATime
  <2> QED BY <2>3, <1>5, <1>6 DEF JobsInv
<1>9. \A m \in Names : Requested(m)' = Requested(m) /\ Done(m)' = Done(m)
  BY <1>1 DEF Requested, Done
<1>10. RequestInv'
  <2>1. ASSUME NEW m \in Names, m # Chosen, Started(m)'
        PROVE  Requested(m)' /\ (Done(m)' \/ Waiting(m)')
    BY <2>1, <1>1, <1>5, <1>9 DEF RequestInv, Started, Waiting
  <2>2. ASSUME NEW m \in Names, m = Chosen
        PROVE  Requested(m)' /\ Waiting(m)'
    BY <2>2, <1>4, <1>5, <1>6, <1>9 DEF Waiting
  <2>3. \A m \in Names : Started(m)' => Requested(m)' /\ (Done(m)' \/ Waiting(m)')
    BY <2>1, <2>2
  <2>4. \A m \in Names : backup'[m].there => Requested(m)'
    BY <1>1, <1>9 DEF RequestInv
  <2> QED BY <2>3, <2>4, <1>1 DEF RequestInv
<1>11. SyncInv'
  BY <1>1, <1>2, <1>9 DEF SyncInv, Quiet, Reconciling, Creating
<1> QED BY <1>3, <1>4, <1>7, <1>8, <1>10, <1>11

\* A write of the status or the label of one of the requests that are left.
LEMMA LaterStep ==
    ASSUME BackupInv, UNCHANGED <<cron, job, folder>>, NEW n \in Names,
           NEW new \in [there : BOOLEAN, processed : BOOLEAN, status : Statuses],
           new.there = backup[n].there, backup[n].processed => new.processed,
           NEW s \in {"idle", "pending", "skip", "skipLabel"},
           NEW todo \in SUBSET sync.todo, s = "idle" \/ todo # {},
           WriteBackup(n, new, s, {}, todo)
    PROVE  BackupInv'
<1>1. /\ Kept /\ JobsInv' /\ RequestInv' /\ (sync' \in Syncs => Shape')
      /\ sync' = Idle \/ sync' = [step |-> s, jobs |-> {}, todo |-> todo]
  BY WriteStep
<1>2. CASE sync' = Idle
  BY <1>1, <1>2, SyncEnds DEF BackupInv, Idle, Syncs, Steps
<1>3. CASE sync' = [step |-> s, jobs |-> {}, todo |-> todo]
  <2>1. SyncInv' /\ sync' \in Syncs
    BY <1>1, <1>3, Later DEF BackupInv, Syncs
  <2> QED BY <1>1, <2>1 DEF BackupInv
<1> QED BY <1>1, <1>2, <1>3

\* Where the sync goes once it is done with a request.
LEMMA AfterChosenIs ==
    ASSUME NEW todo
    PROVE  LET after == AfterChosen(todo)
           IN  /\ after.step \in {"idle", "skip"} /\ after.todo = todo
               /\ after.step = "idle" \/ todo # {}
  BY DEF AfterChosen

\* The status of the request whose Job has been created.
LEMMA SetPendingStep ==
    ASSUME BackupInv, SetPending
    PROVE  BackupInv'
<1> DEFINE after == AfterChosen(sync.todo \ {Chosen})
           new == [backup[Chosen] EXCEPT !.status = "Pending"]
<1>1. sync.step = "pending" /\ UNCHANGED <<cron, job, folder>>
  BY DEF SetPending, Env, cronVars, disk
<1>2. Chosen \in Names
  BY <1>1, ChosenIn DEF Creating, BackupInv
<1>3. /\ new \in [there : BOOLEAN, processed : BOOLEAN, status : Statuses]
      /\ new.there = backup[Chosen].there
      /\ new.processed = backup[Chosen].processed
  BY <1>2, StatusOnly DEF Statuses, BackupInv
<1>4. WriteBackup(Chosen, new, after.step, {}, after.todo)
  BY DEF SetPending
<1>5. /\ after.step \in {"idle", "skip"} /\ after.todo \in SUBSET sync.todo
      /\ after.step = "idle" \/ after.todo # {}
  BY AfterChosenIs
<1> HIDE DEF new, after
<1> QED BY <1>1, <1>2, <1>3, <1>4, <1>5, LaterStep

\* The status of a request that is skipped.
LEMMA SetSkippedStep ==
    ASSUME BackupInv, SetSkipped
    PROVE  BackupInv'
<1> DEFINE new == [backup[Chosen] EXCEPT !.status = "Skipped"]
<1>1. sync.step = "skip" /\ UNCHANGED <<cron, job, folder>>
  BY DEF SetSkipped, Env, cronVars, disk
<1>2. Chosen \in Names /\ sync.todo # {}
  BY <1>1, ChosenIn DEF Creating, BackupInv
<1>3. /\ new \in [there : BOOLEAN, processed : BOOLEAN, status : Statuses]
      /\ new.there = backup[Chosen].there
      /\ new.processed = backup[Chosen].processed
  BY <1>2, StatusOnly DEF Statuses, BackupInv
<1>4. WriteBackup(Chosen, new, "skipLabel", {}, sync.todo)
  BY DEF SetSkipped
<1> HIDE DEF new
<1> QED BY <1>1, <1>2, <1>3, <1>4, LaterStep

\* The label of a request that is skipped.
LEMMA LabelSkippedStep ==
    ASSUME BackupInv, LabelSkipped
    PROVE  BackupInv'
<1> DEFINE after == AfterChosen(sync.todo \ {Chosen})
           new == [backup[Chosen] EXCEPT !.processed = TRUE]
<1>1. sync.step = "skipLabel" /\ UNCHANGED <<cron, job, folder>>
  BY DEF LabelSkipped, Env, cronVars, disk
<1>2. Chosen \in Names
  BY <1>1, ChosenIn DEF Creating, BackupInv
<1>3. /\ new \in [there : BOOLEAN, processed : BOOLEAN, status : Statuses]
      /\ new.there = backup[Chosen].there /\ new.processed
  BY <1>2, LabelOnly DEF BackupInv
<1>4. WriteBackup(Chosen, new, after.step, {}, after.todo)
  BY DEF LabelSkipped
<1>5. /\ after.step \in {"idle", "skip"} /\ after.todo \in SUBSET sync.todo
      /\ after.step = "idle" \/ after.todo # {}
  BY AfterChosenIs
<1> HIDE DEF new, after
<1> QED BY <1>1, <1>2, <1>3, <1>4, <1>5, LaterStep

----------------------------------------------------------------------------
(* The others again: each action is one of the steps above *)

\* A sync that is cut short leaves no request without its label and its Job.
LEMMA SyncStopsStep ==
    ASSUME BackupInv, SyncStops
    PROVE  BackupInv'
<1>1. sync' = Idle /\ UNCHANGED <<cron, job, backup, folder>>
  BY DEF SyncStops, cronVars, disk
<1>2. JobsInv' /\ RequestInv' /\ Shape'
  BY <1>1 DEF BackupInv, Shape, Idle, Steps, JobsInv, OneJobAtATime, RequestInv, Started,
              Requested, Done, Waiting
<1> QED BY <1>1, <1>2, SyncEnds DEF BackupInv

\* Only requests whose Job of the CronJob is gone are deleted.
LEMMA RemoveOrphansStep ==
    ASSUME BackupInv, RemoveOrphans
    PROVE  BackupInv'
<1>1. PICK some \in SUBSET {n \in Scheduled : backup[n].there /\ cron[n] = "deleted"} :
          backup' = [n \in Names |-> IF n \in some THEN NoBackup ELSE backup[n]]
  BY DEF RemoveOrphans
<1>2. UNCHANGED <<cron, job, sync, folder>>
  BY DEF RemoveOrphans, cronVars, disk
<1>3. /\ NoBackup \in [there : BOOLEAN, processed : BOOLEAN, status : Statuses]
      /\ ~NoBackup.there
  BY DEF NoBackup, Statuses
<1>4. backup' \in [Names -> [there : BOOLEAN, processed : BOOLEAN, status : Statuses]]
  BY <1>1, <1>3 DEF BackupInv, Shape
<1>5. Kept /\ JobsInv' /\ RequestInv'
  BY <1>1, <1>2, <1>3, <1>4, BackupStep
<1>6. SyncInv'
  BY <1>2, <1>5, SyncStands DEF BackupInv
<1> QED BY <1>2, <1>4, <1>5, <1>6 DEF BackupInv, Shape

\* A Job goes with its request, which was not to come back.
LEMMA GarbageCollectStep ==
    ASSUME BackupInv, NEW n \in Names, GarbageCollect(n)
    PROVE  BackupInv'
<1> USE DEF BackupInv
<1>1. /\ job[n] # NoJob /\ ~backup[n].there /\ (n \in Scheduled => cron[n] = "deleted")
      /\ job' = [job EXCEPT ![n] = NoJob] /\ UNCHANGED <<cron, backup, sync, folder>>
  BY DEF GarbageCollect, cronVars, disk
<1>2. Done(n)
  BY <1>1 DEF RequestInv, Started, Requested, Done
<1>3. /\ Kept /\ JobsInv' /\ RequestInv'
      /\ job' \in [Names -> [state : JobStates, processed : BOOLEAN]]
  BY <1>1, <1>2, JobStep
<1>4. SyncInv'
  BY <1>1, <1>3, SyncStands
<1> QED BY <1>1, <1>3, <1>4 DEF Shape

\* The steps of the CronJob's Jobs.
LEMMA CronSteps ==
    ASSUME BackupInv, NEW n \in Scheduled,
           CronJobFires(n) \/ CronJobRuns(n) \/ PrunePodDies(n) \/ OldJobDeleted(n)
    PROVE  BackupInv'
<1> USE DEF BackupInv
<1>1. ASSUME UNCHANGED <<job, backup, sync>>, NEW new,
             cron' = [cron EXCEPT ![n] = new],
             \/ cron[n] \in {"none", "prune", "remove"} /\ new \in {"prune", "remove", "request"}
             \/ cron[n] = "requested" /\ new = "failed"
             \/ cron[n] \in Ended /\ new = "deleted",
             folder' \in [Names -> {"none", "empty", "partial", "full"}],
             \A m \in Names : folder'[m] # "none" => folder[m] # "none"
      PROVE  BackupInv'
  <2>1. new \in Active \cup Ended \cup {"none", "deleted"}
    BY <1>1 DEF Active, Ended
  <2>2. cron' \in [Scheduled -> Active \cup Ended \cup {"none", "deleted"}]
    BY <2>1, <1>1 DEF Shape
  <2>3. Shape'
    BY <2>2, <1>1 DEF Shape
  <2>4. cron'[n] = new /\ \A m \in Scheduled \ {n} : cron'[m] = cron[m]
    BY <1>1 DEF Shape
  <2>5. CronMoves
    BY <2>4, <1>1 DEF CronMoves, Ended
  <2> QED BY <2>3, <2>5, <1>1, CronStep
<1>2. folder \in [Names -> {"none", "empty", "partial", "full"}]
  BY DEF Shape
<1>3. CASE CronJobFires(n)
  BY <1>1, <1>2, <1>3 DEF CronJobFires
<1>4. CASE PruneLists(n)
  BY <1>1, <1>2, <1>4 DEF PruneLists
<1>5. CASE PruneRemoves(n)
  <2>1. /\ folder' \in [Names -> {"none", "empty", "partial", "full"}]
        /\ \A m \in Names : folder'[m] # "none" => folder[m] # "none"
    BY <1>2, <1>5 DEF PruneRemoves
  <2> QED BY <2>1, <1>1, <1>5 DEF PruneRemoves
<1>6. CASE PrunePodDies(n)
  <2>1. /\ folder' \in [Names -> {"none", "empty", "partial", "full"}]
        /\ \A m \in Names : folder'[m] # "none" => folder[m] # "none"
    BY <1>2, <1>6 DEF PrunePodDies
  <2> QED BY <2>1, <1>1, <1>6 DEF PrunePodDies
<1>7. CASE RequestRepeated(n)
  BY <1>1, <1>2, <1>7 DEF RequestRepeated
<1>8. CASE OldJobDeleted(n)
  BY <1>1, <1>2, <1>8 DEF OldJobDeleted
<1>9. CASE RequestBackup(n)
  <2>1. n \in Names /\ ~Requested(n)
    BY <1>9 DEF RequestBackup, Requested, Names, Ended
  <2>2. \E new \in {"requested", "succeeded"} : cron' = [cron EXCEPT ![n] = new]
    BY <1>9 DEF RequestBackup
  <2> QED BY <2>1, <2>2, <1>9, RequestStep DEF RequestBackup
<1> QED BY <1>3, <1>4, <1>5, <1>6, <1>7, <1>8, <1>9 DEF CronJobRuns

\* The steps of users and of the pods of Jobs.
LEMMA PodSteps ==
    ASSUME BackupInv, NEW n \in Names,
           UserRequests(n) \/ StorageInadequate(n) \/ JobRuns(n) \/ PodDies(n)
    PROVE  BackupInv'
<1> USE DEF BackupInv
<1>1. CASE UserRequests(n)
  <2>1. n \notin Scheduled /\ ~Requested(n)
    BY <1>1, BackupAssumption DEF UserRequests, Requested
  <2> QED BY <2>1, <1>1, RequestStep DEF UserRequests, cronVars, disk
<1>2. folder \in [Names -> {"none", "empty", "partial", "full"}]
  BY DEF Shape
<1>3. ASSUME NEW s \in JobStates \ {"none"}, Runs(n), SetJob(n, s),
             NEW f \in {"none", "empty", "partial", "full"},
             folder' = folder \/ folder' = [folder EXCEPT ![n] = f]
      PROVE  BackupInv'
  <2>1. /\ folder' \in [Names -> {"none", "empty", "partial", "full"}]
        /\ \A m \in Names \ {n} : folder'[m] = folder[m]
    BY <1>2, <1>3
  <2> QED BY <2>1, <1>3, PodStep DEF SetJob, cronVars
<1>4. CASE StorageInadequate(n)
  BY <1>3, <1>4 DEF StorageInadequate, Runs, JobStates, disk
<1>5. CASE FolderCreated(n)
  BY <1>3, <1>5 DEF FolderCreated, Runs, JobStates
<1>6. CASE FileSaved(n)
  <2>1. CASE job[n].state = "folder"
    BY <2>1, <1>3, <1>6 DEF FileSaved, Runs, JobStates
  <2>2. CASE job[n].state = "snapshot"
    BY <2>2, <1>3, <1>6 DEF FileSaved, Runs, JobStates
  <2> QED BY <2>1, <2>2, <1>6 DEF FileSaved
<1>7. CASE BackupErrs(n)
  BY <1>3, <1>7 DEF BackupErrs, Runs, JobStates, disk
<1>8. CASE PodDies(n)
  BY <1>3, <1>8 DEF PodDies, Runs, JobStates, disk
<1> QED BY <1>1, <1>4, <1>5, <1>6, <1>7, <1>8 DEF JobRuns

----------------------------------------------------------------------------
\* The start: nothing has been requested.
LEMMA Starts ==
    ASSUME Init
    PROVE  BackupInv
<1> USE DEF Init
<1>1. /\ NoBackup \in [there : BOOLEAN, processed : BOOLEAN, status : Statuses]
      /\ NoJob \in [state : JobStates, processed : BOOLEAN]
      /\ ~NoBackup.there /\ NoJob.state = "none" /\ ~NoJob.processed
  BY DEF NoBackup, NoJob, Statuses, JobStates
<1>2. Shape
  BY <1>1 DEF Shape, Idle, Steps
<1>3. JobsInv
  BY <1>1 DEF JobsInv, OneJobAtATime
<1>4. RequestInv
  BY <1>1 DEF RequestInv, Started, Ended
<1>5. SyncInv
  BY DEF SyncInv, Idle, Quiet, Reconciling, Creating
<1> QED BY <1>2, <1>3, <1>4, <1>5 DEF BackupInv

\* Every step keeps BackupInv.
LEMMA Keeps ==
    ASSUME BackupInv, [Next]_vars
    PROVE  BackupInv'
<1>1. CASE UNCHANGED vars
  <2>1. UNCHANGED <<cron, backup, job, sync, folder>>
    BY <1>1 DEF vars
  <2>2. CronMoves /\ Shape'
    BY <2>1 DEF CronMoves, BackupInv, Shape
  <2> QED BY <2>1, <2>2, CronStep
<1>2. CASE reconcileCronJob \/ VolumeLost
  <2>1. UNCHANGED <<cron, backup, job, sync, folder>>
    BY <1>2 DEF reconcileCronJob, VolumeLost, cronVars, disk
  <2>2. CronMoves /\ Shape'
    BY <2>1 DEF CronMoves, BackupInv, Shape
  <2> QED BY <2>1, <2>2, CronStep
<1>3. CASE SyncStops \/ RemoveOrphans
  BY <1>3, SyncStopsStep, RemoveOrphansStep
<1>4. CASE BackupSync
  BY <1>4, ListJobsStep, ListBackupsStep, LabelBackupStep, SetFinalStatusStep, LabelJobStep,
     DeleteDanglingStep, ValidateStep, LabelFailedStep, CreateStep, SetPendingStep,
     SetSkippedStep, LabelSkippedStep DEF BackupSync
<1>5. CASE \E n \in Scheduled :
              CronJobFires(n) \/ CronJobRuns(n) \/ PrunePodDies(n) \/ OldJobDeleted(n)
  BY <1>5, CronSteps
<1>6. CASE \E n \in Names : GarbageCollect(n)
  BY <1>6, GarbageCollectStep
<1>7. CASE \E n \in Names :
              UserRequests(n) \/ StorageInadequate(n) \/ JobRuns(n) \/ PodDies(n)
  BY <1>7, PodSteps
<1> QED BY <1>1, <1>2, <1>3, <1>4, <1>5, <1>6, <1>7 DEF Next

\* BackupInv holds throughout: Jobs are labelled last, one runs at a time, and what a
\* sync of BackupController has listed is still true when it acts on it.
THEOREM BackupInvariant == Spec => []BackupInv
<1>1. Init => BackupInv
  BY Starts
<1>2. BackupInv /\ [Next]_vars => BackupInv'
  BY Keeps
<1> QED BY <1>1, <1>2, PTL DEF Spec

\* etcd never serves two backups at a time, whatever calls of the controller fail and
\* whenever it restarts, for any number of requests (BackupController.sync).
THEOREM OneAtATime == Spec => []OneJobAtATime
<1>1. BackupInv => OneJobAtATime
  BY DEF BackupInv, JobsInv
<1> QED BY <1>1, BackupInvariant, PTL

\* Only createBackupJob makes a Job; another pod of a Job starts only where one was.
LEMMA OnlyCreated ==
    ASSUME BackupInv, [Next]_vars, ~createBackupJob, NEW n \in Names, ~Runs(n)
    PROVE  job'[n].state # "created"
<1> USE DEF BackupInv
<1>1. job[n].state # "created" /\ job[n] \in [state : JobStates, processed : BOOLEAN]
  BY DEF Runs, Shape
<1>2. CASE job' = job
  BY <1>1, <1>2
<1>3. ASSUME NEW m \in Names, job' = [job EXCEPT ![m] = NoJob]
      PROVE  job'[n].state # "created"
  BY <1>1, <1>3 DEF NoJob, Shape
<1>4. ASSUME NEW m \in Names, job' = [job EXCEPT ![m].processed = TRUE]
      PROVE  job'[n].state # "created"
  BY <1>1, <1>4 DEF Shape
<1>5. ASSUME NEW m \in Names, Runs(m), NEW s, job' = [job EXCEPT ![m].state = s]
      PROVE  job'[n].state # "created"
  BY <1>1, <1>5 DEF Shape, Runs
<1>6. CASE UNCHANGED vars
  BY <1>2, <1>6 DEF vars
<1>7. CASE reconcileCronJob \/ VolumeLost \/ SyncStops \/ RemoveOrphans
  BY <1>2, <1>7 DEF reconcileCronJob, VolumeLost, SyncStops, RemoveOrphans
<1>8. CASE BackupSync
  <2>1. CASE ListJobs \/ ListBackups \/ LabelBackup \/ SetFinalStatus
    BY <1>2, <2>1 DEF ListJobs, ListBackups, LabelBackup, SetFinalStatus
  <2>2. CASE LabelJob
    <3>1. Reconciled \in Names
      BY <2>2, ReconciledIn DEF LabelJob, Reconciling
    <3> QED BY <3>1, <2>2, <1>2, <1>4 DEF LabelJob
  <2>3. CASE \E m \in Names : DeleteDangling(m)
    BY <2>3, <1>2, <1>3 DEF DeleteDangling
  <2>4. CASE validateBackup \/ LabelFailed \/ SetPending \/ SetSkipped \/ LabelSkipped
    BY <2>4, <1>2 DEF validateBackup, LabelFailed, SetPending, SetSkipped, LabelSkipped
  <2> QED BY <1>8, <2>1, <2>2, <2>3, <2>4 DEF BackupSync
<1>9. CASE \E m \in Scheduled :
              CronJobFires(m) \/ CronJobRuns(m) \/ PrunePodDies(m) \/ OldJobDeleted(m)
  BY <1>2, <1>9 DEF CronJobFires, CronJobRuns, PruneLists, PruneRemoves, RequestBackup,
                    RequestRepeated, PrunePodDies, OldJobDeleted
<1>10. CASE \E m \in Names : UserRequests(m) \/ GarbageCollect(m)
  BY <1>2, <1>3, <1>10 DEF UserRequests, GarbageCollect
<1>11. CASE \E m \in Names : StorageInadequate(m) \/ JobRuns(m) \/ PodDies(m)
  <2>1. PICK m \in Names : StorageInadequate(m) \/ JobRuns(m) \/ PodDies(m)
    BY <1>11
  <2>2. Runs(m) /\ \E s : SetJob(m, s)
    BY <2>1 DEF StorageInadequate, JobRuns, FolderCreated, FileSaved, BackupErrs, PodDies, Runs
  <2> QED BY <2>2, <1>5 DEF SetJob
<1> QED BY <1>6, <1>7, <1>8, <1>9, <1>10, <1>11 DEF Next

\* A request is served once, for any number of requests and of syncs cut short: a Job is
\* never created over the folder of an earlier one (reconcileJobStatus, createBackupJob).
THEOREM ServedOnce == Spec => OncePerRequest
<1>1. ASSUME BackupInv, [Next]_vars, NEW n \in Names,
             job[n] = NoJob \/ isJobFinished(job[n]), job'[n].state = "created"
      PROVE  folder[n] = "none"
  <2>1. ~Runs(n)
    BY <1>1 DEF NoJob, isJobFinished, Runs
  <2>2. createBackupJob
    BY <2>1, <1>1, OnlyCreated
  <2>3. Chosen \in Names /\ ~Started(Chosen)
    BY <2>2, <1>1, CreateStep
  <2>4. n = Chosen
    BY <2>1, <2>2, <1>1 DEF createBackupJob, BackupInv, Shape, Runs
  <2> QED BY <2>3, <2>4 DEF Started
<1>2. BackupInv /\ [Next]_vars =>
        [\A n \in Names :
            (job[n] = NoJob \/ isJobFinished(job[n])) /\ job'[n].state = "created"
                => folder[n] = "none"]_vars
  BY <1>1
<1> QED BY <1>2, BackupInvariant, PTL DEF Spec, OncePerRequest
=============================================================================
