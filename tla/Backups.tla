------------------------------ MODULE Backups ------------------------------
(***************************************************************************)
(* Backups of etcd: the CronJob PeriodicBackupController keeps, whose Jobs *)
(* prune the old backups and request a new one (pkg/cmd/prune-backups,     *)
(* pkg/cmd/request-backup); BackupController, which runs one Job for each  *)
(* request; the pod of such a Job (pkg/cmd/backuprestore); and             *)
(* BackupRemovalController, which deletes the requests of deleted Jobs.    *)
(*                                                                         *)
(* A backup is known by its number: the EtcdBackup, the Job that runs it,  *)
(* the Job of the CronJob that asked for it and its folder on the volume   *)
(* have the same. The names sort as the numbers do.                        *)
(***************************************************************************)
EXTENDS Integers, Sequences, SequencesExt, FiniteSetsExt

CONSTANTS Scheduled,      \* backups the CronJob asks for, in this order
          Manual,         \* backups a user asks for
          Specs,          \* retention policies a Backup may have
          DefaultNumber, DefaultSizeGb, \* 15 and 10 in the code
          HistoryLimit,   \* finished Jobs of the CronJob that are kept
          MaxFaults       \* bound: syncs cut short, pods that die, lost volumes

ASSUME BackupAssumption ==
    /\ Scheduled \subseteq Nat /\ Manual \subseteq Nat /\ Scheduled \cap Manual = {}
    /\ IsFiniteSet(Scheduled) /\ IsFiniteSet(Manual)
    /\ Specs \subseteq [type : {"unset", "RetentionNumber", "RetentionSize"}, max : Nat]
    /\ DefaultNumber \in Nat \ {0} /\ DefaultSizeGb \in Nat \ {0}
    /\ HistoryLimit \in Nat /\ MaxFaults \in Nat

VARIABLES
    spec,      \* retention policy of the Backup; a max of 0 is left out
    cronJob,   \* arguments of the pruning container of the CronJob
    cron,      \* the Jobs of the CronJob
    toRemove,  \* folders the pruning container has found to be too many
    backup,    \* the EtcdBackups: there, label state=processed, true condition
    job,       \* the Jobs BackupController made: state, label state=processed
    sync,      \* where a sync of BackupController is, and what it has read
    folder,    \* what is in the folders of the volume
    written,   \* folders with files, by the time of the last write
    pvc,       \* does the claim for the volume exist?
    faults

vars == <<spec, cronJob, cron, toRemove, backup, job, sync, folder, written, pvc, faults>>
cronVars == <<spec, cronJob, cron, toRemove>>
disk == <<folder, written>>

Names == Scheduled \cup Manual
NoBackup == [there |-> FALSE, processed |-> FALSE, status |-> "none"]
NoJob == [state |-> "none", processed |-> FALSE]
Idle == [step |-> "idle", jobs |-> {}, todo |-> {}]
NoCronJob == [type |-> "none", max |-> 0]
Active == {"prune", "remove", "request", "requested"}
Ended == {"succeeded", "failed"}
Steps == {"idle", "backups", "label", "status", "jobLabel", "dangling", "validate",
          "create", "pending", "skip", "skipLabel", "failLabel"}

TypeOK ==
    /\ spec \in Specs
    /\ cronJob \in {NoCronJob} \cup [type : {"RetentionNumber", "RetentionSize"}, max : Nat]
    /\ cron \in [Scheduled -> Active \cup Ended \cup {"none", "deleted"}]
    /\ toRemove \subseteq Names
    /\ backup \in [Names -> [there : BOOLEAN, processed : BOOLEAN, status :
                      {"none", "Pending", "Completed", "Failed", "Skipped"}]]
    /\ job \in [Names -> [state : {"none", "created", "folder", "snapshot",
                                   "complete", "failed"}, processed : BOOLEAN]]
    /\ sync \in [step : Steps, jobs : SUBSET Names, todo : SUBSET Names]
    /\ folder \in [Names -> {"none", "empty", "partial", "full"}]
    /\ written \in Seq(Names)
    /\ pvc \in BOOLEAN /\ faults \in 0..MaxFaults

----------------------------------------------------------------------------
(* PeriodicBackupController *)

\* setRetentionPolicyInitContainer
WithDefaults(s) ==
    LET type == IF s.type = "unset" THEN "RetentionNumber" ELSE s.type
    IN  [type |-> type,
         max |-> CASE s.type # "unset" /\ s.max > 0 -> s.max
                   [] type = "RetentionNumber" -> DefaultNumber
                   [] OTHER -> DefaultSizeGb]

reconcileCronJob ==
    /\ cronJob' = WithDefaults(spec)
    /\ UNCHANGED <<spec, cron, toRemove, backup, job, sync, folder, written, pvc, faults>>

----------------------------------------------------------------------------
(* A Job of the CronJob: the pruning container, then request-backup *)

\* The schedule comes round; concurrencyPolicy Forbid, and the names grow with time.
CronJobFires(n) ==
    /\ cronJob # NoCronJob
    /\ cron[n] = "none"
    /\ \A m \in Scheduled : cron[m] \notin Active /\ (m < n => cron[m] # "none")
    /\ cron' = [cron EXCEPT ![n] = "prune"]
    /\ UNCHANGED <<spec, cronJob, toRemove, backup, job, sync, folder, written, pvc, faults>>

\* Less: by the time of the last write, the newest first; a folder without a file has none.
NewestFirst ==
    Reverse(written)
        \o SetToSortSeq({n \in Names : folder[n] = "empty"}, LAMBDA a, b : a > b)

SizeOf(n) == CASE folder[n] = "partial" -> 1 [] folder[n] = "full" -> 2 [] OTHER -> 0

retainByNumber(max) == {NewestFirst[i] : i \in (max + 1)..Len(NewestFirst)}

\* Mutant: a folder that fits exactly goes too.
RetainsBelow(max) ==
    LET acc(i) == MapThenSumSet(SizeOf, {NewestFirst[j] : j \in 1..i})
    IN  {NewestFirst[i] : i \in {k \in 1..Len(NewestFirst) : acc(k) >= max}}

retainBySizeGb(max) ==
    LET acc(i) == MapThenSumSet(SizeOf, {NewestFirst[j] : j \in 1..i})
    IN  {NewestFirst[i] : i \in {k \in 1..Len(NewestFirst) : acc(k) > max}}

PruneLists(n) ==
    /\ cron[n] = "prune"
    /\ toRemove' = IF cronJob.type = "RetentionNumber" THEN retainByNumber(cronJob.max)
                   ELSE retainBySizeGb(cronJob.max)
    /\ cron' = [cron EXCEPT ![n] = "remove"]
    /\ UNCHANGED <<spec, cronJob, backup, job, sync, folder, written, pvc, faults>>

PruneRemoves(n) ==
    /\ cron[n] = "remove"
    /\ folder' = [m \in Names |-> IF m \in toRemove THEN "none" ELSE folder[m]]
    /\ written' = SelectSeq(written, LAMBDA m : m \notin toRemove)
    /\ toRemove' = {}
    /\ cron' = [cron EXCEPT ![n] = "request"]
    /\ UNCHANGED <<spec, cronJob, backup, job, sync, pvc, faults>>

\* The pod dies in its pruning container and another one starts over.
PrunePodDies(n) ==
    /\ cron[n] = "remove" /\ faults < MaxFaults
    /\ \E some \in SUBSET toRemove :
          /\ folder' = [m \in Names |-> IF m \in some THEN "none" ELSE folder[m]]
          /\ written' = SelectSeq(written, LAMBDA m : m \notin some)
    /\ toRemove' = {}
    /\ cron' = [cron EXCEPT ![n] = "prune"]
    /\ faults' = faults + 1
    /\ UNCHANGED <<spec, cronJob, backup, job, sync, pvc>>

\* request-backup; the pod may die after the request is made.
RequestBackup(n) ==
    /\ cron[n] = "request"
    /\ backup' = [backup EXCEPT ![n] = [NoBackup EXCEPT !.there = TRUE]]
    /\ \/ cron' = [cron EXCEPT ![n] = "succeeded"] /\ UNCHANGED faults
       \/ /\ faults < MaxFaults /\ faults' = faults + 1
          /\ cron' = [cron EXCEPT ![n] = "requested"]
    /\ UNCHANGED <<spec, cronJob, toRemove, job, sync, folder, written, pvc>>

\* It is run again and finds a backup of that name there, until the Job is given up.
RequestRepeated(n) ==
    /\ cron[n] = "requested"
    /\ cron' = [cron EXCEPT ![n] = "failed"]
    /\ UNCHANGED <<spec, cronJob, toRemove, backup, job, sync, folder, written, pvc, faults>>

\* The history limit of the CronJob.
OldJobDeleted(n) ==
    /\ cron[n] \in Ended
    /\ Cardinality({m \in Scheduled : m > n /\ cron[m] \in Ended}) >= HistoryLimit
    /\ cron' = [cron EXCEPT ![n] = "deleted"]
    /\ UNCHANGED <<spec, cronJob, toRemove, backup, job, sync, folder, written, pvc, faults>>

----------------------------------------------------------------------------
(* Users, the volume, the garbage collector *)

UserRequests(n) ==
    /\ n \in Manual /\ ~backup[n].there
    /\ backup' = [backup EXCEPT ![n] = [NoBackup EXCEPT !.there = TRUE]]
    /\ UNCHANGED <<cronVars, job, sync, disk, pvc, faults>>

\* A claim that a pod uses is protected; that it goes between the check of the controller
\* and the start of the pod is left out.
VolumeLost ==
    /\ pvc /\ faults < MaxFaults
    /\ sync.step # "create"
    /\ \A n \in Names : job[n].state \notin {"created", "folder", "snapshot"}
    /\ pvc' = FALSE
    /\ faults' = faults + 1
    /\ UNCHANGED <<cronVars, backup, job, sync, disk>>

\* A Job belongs to its EtcdBackup and to the Job of the CronJob.
GarbageCollect(n) ==
    /\ job[n] # NoJob
    /\ ~backup[n].there
    /\ n \in Scheduled => cron[n] = "deleted"
    /\ job' = [job EXCEPT ![n] = NoJob]
    /\ UNCHANGED <<cronVars, backup, sync, disk, pvc, faults>>

----------------------------------------------------------------------------
(* The pod of a backup's Job *)

SetJob(n, state) ==
    /\ job' = [job EXCEPT ![n].state = state]
    /\ UNCHANGED <<cronVars, backup, sync, pvc>>

\* verify-storage finds too little space in every pod the Job starts.
StorageInadequate(n) ==
    /\ job[n].state = "created"
    /\ SetJob(n, "failed")
    /\ UNCHANGED <<disk, faults>>

\* checkAndCreateDir: what an earlier pod of the Job has left is removed.
FolderCreated(n) ==
    /\ job[n].state = "created"
    /\ SetJob(n, "folder")
    /\ folder' = [folder EXCEPT ![n] = "empty"]
    /\ written' = Remove(written, n)
    /\ UNCHANGED faults

\* saveSnapshot and archiveLatestResources, each a file in the folder.
FileSaved(n) ==
    /\ folder[n] # "none"
    /\ \/ /\ job[n].state = "folder"
          /\ SetJob(n, "snapshot")
          /\ folder' = [folder EXCEPT ![n] = "partial"]
       \/ /\ job[n].state = "snapshot"
          /\ SetJob(n, "complete")
          /\ folder' = [folder EXCEPT ![n] = "full"]
    /\ written' = Append(Remove(written, n), n)
    /\ UNCHANGED faults

\* There is no etcd client or no folder to be had, or one of them fails, as they do when
\* the folder is gone. Run logs the error and returns nil.
BackupErrs(n) ==
    /\ \/ job[n].state \in {"folder", "snapshot"} /\ folder[n] = "none" /\ UNCHANGED faults
       \/ job[n].state \in {"created", "folder", "snapshot"}
          /\ faults < MaxFaults /\ faults' = faults + 1
    /\ SetJob(n, "complete")
    /\ UNCHANGED disk

\* The pod is killed, by its deadline or with its node: the Job starts another or gives up.
PodDies(n) ==
    /\ job[n].state \in {"created", "folder", "snapshot"}
    /\ faults < MaxFaults /\ faults' = faults + 1
    /\ \E state \in {"created", "failed"} : SetJob(n, state)
    /\ UNCHANGED disk

----------------------------------------------------------------------------
(* BackupController: sync, call by call *)

Go(step, jobs, todo) == sync' = [step |-> step, jobs |-> jobs, todo |-> todo]
Env == <<cronVars, disk, pvc, faults>>

\* Mutant: the condition JobFailed is forgotten.
FinishedWhenComplete(j) == j.state = "complete"

isJobFinished(j) == j.state \in {"complete", "failed"}

Unprocessed == {n \in Names : job[n] # NoJob /\ ~job[n].processed}

\* Mutant: a Job counts as running once its pod does.
FindsStarted(listed) == {n \in listed : job[n].state \in {"folder", "snapshot"}}

findRunningJobs(listed) == {n \in listed : ~isJobFinished(job[n])}

\* What is left to do once the requests with a Job are seen to: dangling Jobs, then new Jobs.
AfterReconcile(jobs, todo) ==
    CASE jobs # {} -> Go("dangling", jobs, todo)
      [] jobs = {} /\ todo # {} -> Go("validate", {}, todo)
      [] OTHER -> sync' = Idle

ListJobs ==
    /\ sync = Idle
    /\ findRunningJobs(Unprocessed) = {}
    /\ Go("backups", Unprocessed, {})
    /\ UNCHANGED <<Env, backup, job>>

ListBackups ==
    /\ sync.step = "backups"
    /\ LET listed == {n \in Names : backup[n].there /\ ~backup[n].processed}
       IN  IF listed \cap sync.jobs # {}
           THEN Go("label", sync.jobs, listed)
           ELSE AfterReconcile(sync.jobs, listed)
    /\ UNCHANGED <<Env, backup, job>>

\* A write fails when its object has been deleted, and the sync ends.
WriteBackup(n, new, step, jobs, todo) ==
    IF backup[n].there
    THEN backup' = [backup EXCEPT ![n] = new] /\ Go(step, jobs, todo)
    ELSE sync' = Idle /\ UNCHANGED backup

\* reconcileJobStatus: the label of the backup, its status, the label of the Job.
Reconciled == Min(sync.jobs \cap sync.todo)

\* Mutant: the Job is labelled first, the backup never.
LabelsJobFirst ==
    /\ sync.step = "label"
    /\ job' = [job EXCEPT ![Reconciled].processed = TRUE]
    /\ Go("status", sync.jobs, sync.todo)
    /\ UNCHANGED <<Env, backup>>

LabelBackup ==
    /\ sync.step = "label"
    /\ WriteBackup(Reconciled, [backup[Reconciled] EXCEPT !.processed = TRUE],
                   "status", sync.jobs, sync.todo)
    /\ UNCHANGED <<Env, job>>

SetFinalStatus ==
    /\ sync.step = "status"
    /\ LET status == IF job[Reconciled].state = "failed" THEN "Failed" ELSE "Completed"
       IN  WriteBackup(Reconciled, [backup[Reconciled] EXCEPT !.status = status],
                       "jobLabel", sync.jobs, sync.todo)
    /\ UNCHANGED <<Env, job>>

LabelJob ==
    /\ sync.step = "jobLabel"
    /\ IF job[Reconciled] = NoJob
       THEN sync' = Idle /\ UNCHANGED job
       ELSE /\ job' = [job EXCEPT ![Reconciled].processed = TRUE]
            /\ LET jobs == sync.jobs \ {Reconciled}
                   todo == sync.todo \ {Reconciled}
               IN  IF jobs \cap todo # {} THEN Go("label", jobs, todo)
                   ELSE AfterReconcile(jobs, todo)
    /\ UNCHANGED <<Env, backup>>

\* In the order of a Go map.
DeleteDangling(n) ==
    /\ sync.step = "dangling" /\ n \in sync.jobs
    /\ IF job[n] = NoJob
       THEN sync' = Idle /\ UNCHANGED job
       ELSE /\ job' = [job EXCEPT ![n] = NoJob]
            /\ AfterReconcile(sync.jobs \ {n}, sync.todo)
    /\ UNCHANGED <<Env, backup>>

Chosen == Min(sync.todo)

\* validateBackup; without a volume, markBackupFailed: the status, then the label.
validateBackup ==
    /\ sync.step = "validate"
    /\ IF pvc THEN Go("create", {}, sync.todo) /\ UNCHANGED backup
       ELSE WriteBackup(Chosen, [backup[Chosen] EXCEPT !.status = "Failed"],
                        "failLabel", {}, sync.todo)
    /\ UNCHANGED <<Env, job>>

LabelFailed ==
    /\ sync.step = "failLabel"
    /\ IF backup[Chosen].there
       THEN backup' = [backup EXCEPT ![Chosen].processed = TRUE]
       ELSE UNCHANGED backup
    /\ sync' = Idle
    /\ UNCHANGED <<Env, job>>

\* createBackupJob: the Job, then the status of the backup.
createBackupJob ==
    /\ sync.step = "create"
    /\ job' = [job EXCEPT ![Chosen] = [state |-> "created", processed |-> FALSE]]
    /\ Go("pending", {}, sync.todo)
    /\ UNCHANGED <<Env, backup>>

AfterChosen(todo) == [step |-> IF todo = {} THEN "idle" ELSE "skip", jobs |-> {}, todo |-> todo]

SetPending ==
    /\ sync.step = "pending"
    /\ LET after == AfterChosen(sync.todo \ {Chosen})
       IN  WriteBackup(Chosen, [backup[Chosen] EXCEPT !.status = "Pending"],
                       after.step, {}, after.todo)
    /\ UNCHANGED <<Env, job>>

\* markBackupSkipped, for each of the others: the status, then the label.
SetSkipped ==
    /\ sync.step = "skip"
    /\ WriteBackup(Chosen, [backup[Chosen] EXCEPT !.status = "Skipped"],
                   "skipLabel", {}, sync.todo)
    /\ UNCHANGED <<Env, job>>

LabelSkipped ==
    /\ sync.step = "skipLabel"
    /\ LET after == AfterChosen(sync.todo \ {Chosen})
       IN  WriteBackup(Chosen, [backup[Chosen] EXCEPT !.processed = TRUE],
                       after.step, {}, after.todo)
    /\ UNCHANGED <<Env, job>>

\* A call fails, its reply is lost, or the operator restarts.
SyncStops ==
    /\ sync # Idle /\ faults < MaxFaults
    /\ sync' = Idle
    /\ faults' = faults + 1
    /\ UNCHANGED <<cronVars, disk, pvc, backup, job>>

BackupSync ==
    \/ ListJobs \/ ListBackups \/ LabelBackup \/ SetFinalStatus \/ LabelJob
    \/ \E n \in Names : DeleteDangling(n)
    \/ validateBackup \/ LabelFailed \/ createBackupJob \/ SetPending
    \/ SetSkipped \/ LabelSkipped

----------------------------------------------------------------------------
(* BackupRemovalController: sync; an error leaves some of the backups *)

RemoveOrphans ==
    LET orphans == {n \in Scheduled : backup[n].there /\ cron[n] = "deleted"}
    IN  \E some \in SUBSET orphans :
            /\ some # {}
            /\ some # orphans => faults < MaxFaults
            /\ faults' = IF some = orphans THEN faults ELSE faults + 1
            /\ backup' = [n \in Names |-> IF n \in some THEN NoBackup ELSE backup[n]]
            /\ UNCHANGED <<cronVars, job, sync, disk, pvc>>

----------------------------------------------------------------------------
Init ==
    /\ spec \in Specs
    /\ cronJob = NoCronJob
    /\ cron = [n \in Scheduled |-> "none"]
    /\ toRemove = {}
    /\ backup = [n \in Names |-> NoBackup]
    /\ job = [n \in Names |-> NoJob]
    /\ sync = Idle
    /\ folder = [n \in Names |-> "none"]
    /\ written = <<>>
    /\ pvc = TRUE
    /\ faults = 0

CronJobRuns(n) ==
    PruneLists(n) \/ PruneRemoves(n) \/ RequestBackup(n) \/ RequestRepeated(n)

JobRuns(n) == FolderCreated(n) \/ FileSaved(n) \/ BackupErrs(n)

Next ==
    \/ reconcileCronJob \/ VolumeLost \/ SyncStops \/ RemoveOrphans
    \/ BackupSync
    \/ \E n \in Scheduled :
          CronJobFires(n) \/ CronJobRuns(n) \/ PrunePodDies(n) \/ OldJobDeleted(n)
    \/ \E n \in Names :
          \/ UserRequests(n) \/ GarbageCollect(n)
          \/ StorageInadequate(n) \/ JobRuns(n) \/ PodDies(n)

Spec == Init /\ [][Next]_vars

\* The operator keeps syncing, and the Job controller sees every Job to its end.
FairSpec ==
    /\ Spec
    /\ WF_vars(BackupSync)
    /\ \A n \in Names : WF_vars(JobRuns(n))

----------------------------------------------------------------------------
\* Mutual exclusion: etcd never serves two backups at a time, whatever calls of the
\* controller fail and whenever it restarts (BackupController.sync, findRunningJobs).
OneJobAtATime ==
    \A m, n \in Names :
        {job[m].state, job[n].state} \subseteq {"created", "folder", "snapshot"} => m = n

\* A request is served once: when a sync is cut short between the three writes that
\* record the end of a Job, the next one does not run the backup again
\* (reconcileJobStatus).
OncePerRequest ==
    [][\A n \in Names :
          (job[n] = NoJob \/ isJobFinished(job[n])) /\ job'[n].state = "created"
              => folder[n] = "none"]_vars

Newer(m, n) ==
    \/ folder[n] = "empty" /\ folder[m] \in {"partial", "full"}
    \/ folder[n] = "empty" /\ folder[m] = "empty" /\ m > n
    \/ \E i, j \in DOMAIN written : i > j /\ written[i] = m /\ written[j] = n

\* Retention, stated without the sorted list: what is kept is newer than what goes, it is
\* within the policy, and the newest of what goes does not fit (prune.go: retainByNumber,
\* retainBySizeGb). Folders a pod has left unfinished or is writing are counted too.
RetentionExact ==
    [][\A c \in Scheduled : cron[c] = "prune" /\ cron'[c] = "remove" =>
          LET all == {n \in Names : folder[n] # "none"}
              kept == all \ toRemove'
              used(S) == IF cronJob.type = "RetentionNumber" THEN Cardinality(S)
                         ELSE MapThenSumSet(SizeOf, S)
          IN  /\ \A m \in kept, n \in toRemove' : Newer(m, n)
              /\ used(kept) <= cronJob.max
              /\ \A n \in toRemove' :
                    (\A o \in toRemove' \ {n} : Newer(n, o))
                        => used(kept \cup {n}) > cronJob.max]_vars

\* Every request comes to an end: it is run or refused and marked as processed, unless it
\* is deleted with its Job (BackupController.sync).
RequestsEnd ==
    \A n \in Names : backup[n].there ~> (~backup[n].there \/ backup[n].processed)

\* A backup that is reported as completed has been saved (reconcileJobStatus).
CompletedMeansSaved ==
    [][\A n \in Names :
          (backup'[n].status = "Completed" /\ backup[n].status # "Completed")
              => folder[n] = "full"]_vars
=============================================================================
