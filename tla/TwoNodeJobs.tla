----------------------------- MODULE TwoNodeJobs -----------------------------
(***************************************************************************)
(* The controllers that run the jobs of a two-node cluster with fencing    *)
(* (pkg/tnf/pkg/jobs, pkg/tnf/operator): one controller and its one job.   *)
(*                                                                         *)
(* setup, fencing and update-setup are cluster jobs: they run on one node, *)
(* and a failed one is tried on the next node, in several attempts. auth   *)
(* is a node job: Kubernetes retries its pods, and the job is recreated    *)
(* when its node is replaced. What the controller remembers between two    *)
(* syncs (retryState, jobBlockedSince) is lost when the operator restarts. *)
(***************************************************************************)
EXTENDS Integers, Sequences, FiniteSets

CONSTANTS Nodes,            \* control plane nodes, ordered like their names
          WithSecret,       \* nodes that have a fencing secret
          Works,            \* nodes where a pod of the job can succeed
          JobNode,          \* the node of the node job
          MaxRetryAttempts,
          SpecsFilledIn,    \* the API server fills in the specs it stores
          MaxFaults         \* bound: events of the environment

ASSUME JobsAssumption ==
    /\ Nodes \subseteq Nat /\ IsFiniteSet(Nodes) /\ JobNode \in Nodes
    /\ WithSecret \subseteq Nodes /\ Works \subseteq Nodes
    /\ MaxRetryAttempts \in Nat \ {0} /\ MaxFaults \in Nat
    /\ SpecsFilledIn \in BOOLEAN

VARIABLES kind,     \* which of the jobs this is
          node,     \* node[n]: state of the Node object
          cr,       \* nodes named by a fresh PacemakerCluster; {}: none, or stale
          config,   \* version of the node UIDs and the fencing secrets
          image,    \* OPERATOR_IMAGE of the running operator
          job,      \* the Job object
          retry,    \* retryState[jobName]
          since,    \* jobBlockedSince[jobName]
          recorded, \* the operator status holds the generation of the job
          degraded, \* the Degraded condition of the controller
          sync,     \* the sync under way
          restart,  \* RestartClusterJobOrRunController
          pending,  \* goroutines waiting for restartJobLocks[jobName]
          faults

env == <<kind, node, cr, config, image>>
vars == <<kind, node, cr, config, image, job, retry, since, recorded, degraded,
          sync, restart, pending, faults>>

Kinds == {"setup", "fencing", "update-setup", "auth"}
NoJob == [st |-> "none"]
NoRetry == [att |-> 0]
Idle == [pc |-> "idle", max |-> FALSE, got |-> "none"]

Listed == {n \in Nodes : node[n] # "gone"}
Ready == {n \in Nodes : node[n] = "ready"}
IsFailed == job.st = "failed"
IsComplete == job.st = "complete"
IsStopped == job.st \in {"failed", "complete", "stopped"}

-----------------------------------------------------------------------------
(* The functions that parameterise the controller. *)

(* getActivePacemakerNodes; the empty set stands for its error. *)
Active == IF Ready \cap cr # {} THEN Ready \cap cr ELSE Ready

(* The nodes in the order of their names. *)
ByName(S) ==
    CHOOSE s \in [1..Cardinality(S) -> S] : \A i, j \in DOMAIN s : i < j => s[i] < s[j]
Targets == ByName(Active)

(* affectedNodesFunc *)
Affected == CASE kind = "setup"        -> Listed
              [] kind = "fencing"      -> Listed \cap WithSecret
              [] kind = "update-setup" -> Active
              [] kind = "auth"         -> Listed \cap {JobNode}

(* jobConfigFunc *)
Config == IF kind = "fencing" THEN config ELSE 0

JobsOf(cfg, img) ==
    [st : {"running", "stopped", "failed", "complete"}, on : Nodes, att : 0..MaxRetryAttempts,
     idx : Nat, cfg : 0..cfg, image : 0..img, old : BOOLEAN]
Tries ==
    {r \in [att : 1..MaxRetryAttempts, idx : Nat, targets : Seq(Nodes), cfg : Nat] :
        r.idx < Len(r.targets)}

(* The job keeps to its type, the node index to the list of targets. *)
TypeOK ==
    /\ kind \in Kinds
    /\ node \in [Nodes -> {"ready", "notReady", "gone"}]
    /\ cr \subseteq Nodes /\ config \in Nat /\ image \in Nat
    /\ job \in {NoJob} \cup JobsOf(config, image)
    /\ retry \in {NoRetry} \cup Tries
    /\ since \in {"none", "recent", "overdue"}
    /\ recorded \in BOOLEAN
    /\ degraded \in {"none", "error", "max"}
    /\ sync \in [pc : {"idle", "apply", "status"}, max : BOOLEAN,
                got : {"none", "running", "stopped", "failed", "complete"}]
    /\ restart \in {"none", "wait", "delete", "reset"}
    /\ pending \in Nat /\ faults \in 0..MaxFaults

Init ==
    /\ kind \in Kinds
    /\ node = [n \in Nodes |-> "ready"]
    /\ cr = {} /\ config = 0 /\ image = 0
    /\ job = NoJob /\ retry = NoRetry /\ since = "none"
    /\ recorded = FALSE /\ degraded = "none"
    /\ sync = Idle /\ restart = "none" /\ pending = 0
    /\ faults = 0

-----------------------------------------------------------------------------
(* JobController.syncManaged *)

(* The sync returns; WithSyncDegradedOnError reports its error, and
   preserveMaxRetriesOnReturn keeps the message about the retries. *)
Return(err, max) ==
    /\ sync' = Idle
    /\ degraded' = IF max THEN "max" ELSE err

Begin(pc) == sync' = [pc |-> pc, max |-> degraded = "max", got |-> "none"]
ReturnNow(err) == Return(err, degraded = "max")

ClearBlocked == since' = "none"

(* Mutant: every sync notes the time anew. *)
HookBlockedAnew ==
    /\ sync.pc = "idle" /\ ~(Affected \subseteq Ready)
    /\ since' = "recent"
    /\ IF retry = NoRetry THEN ReturnNow("none")
                          ELSE Begin("apply") /\ UNCHANGED degraded
    /\ UNCHANGED <<env, job, retry, recorded, restart, pending, faults>>

(* Mutant: a sync that skips the job forgets the message about the retries. *)
HookBlockedForgetful ==
    /\ sync.pc = "idle" /\ ~(Affected \subseteq Ready)
    /\ since' = IF since = "none" THEN "recent" ELSE since
    /\ Return(IF since = "overdue" THEN "error" ELSE "none", FALSE)
    /\ UNCHANGED <<env, job, retry, recorded, restart, pending, faults>>

(* checkNodesReadinessAndSetCondition: some affected node is not ready. A
   cluster job whose retry state exists is applied all the same. *)
HookBlocked ==
    /\ sync.pc = "idle" /\ ~(Affected \subseteq Ready)
    /\ since' = IF since = "none" THEN "recent" ELSE since
    /\ \/ since = "overdue" /\ ReturnNow("error")
       \/ /\ since # "overdue"
          /\ IF retry = NoRetry THEN ReturnNow("none")
                                ELSE Begin("apply") /\ UNCHANGED degraded
    /\ UNCHANGED <<env, job, retry, recorded, restart, pending, faults>>

(* The node job of a node that was deleted is left alone. *)
HookNodeGone ==
    /\ sync.pc = "idle" /\ kind = "auth" /\ Affected = {}
    /\ ReturnNow("none")
    /\ UNCHANGED <<env, job, retry, since, recorded, restart, pending, faults>>

(* The node job is configured for its node as it is now. *)
HookNode ==
    /\ sync.pc = "idle" /\ kind = "auth" /\ Affected # {} /\ Affected \subseteq Ready
    /\ ClearBlocked
    /\ Begin("apply")
    /\ UNCHANGED <<env, job, retry, recorded, degraded, restart, pending, faults>>

ClusterHook == sync.pc = "idle" /\ kind # "auth" /\ Affected \subseteq Ready

(* No node is ready: schedulableNodesFunc fails. *)
HookNoTarget ==
    /\ ClusterHook /\ Active = {}
    /\ ClearBlocked
    /\ ReturnNow("error")
    /\ UNCHANGED <<env, job, retry, recorded, restart, pending, faults>>

FirstTry == [att |-> 1, idx |-> 0, targets |-> Targets, cfg |-> Config]

(* syncMultiNodeJobState: the first sync after a start of the operator. *)
HookInit ==
    /\ ClusterHook /\ Active # {} /\ retry = NoRetry
    /\ retry' = FirstTry
    /\ ClearBlocked
    /\ Begin("apply")
    /\ UNCHANGED <<env, job, recorded, degraded, restart, pending, faults>>

Changed == retry.targets # Targets \/ retry.cfg # Config

(* The nodes or the configuration changed: the job is deleted, then the retry
   state is reset. *)
HookChanged ==
    /\ ClusterHook /\ Active # {} /\ retry # NoRetry /\ Changed
    /\ job' = NoJob
    /\ retry' = FirstTry
    /\ ClearBlocked
    /\ Begin("apply")
    /\ UNCHANGED <<env, recorded, degraded, restart, pending, faults>>

HookUnchanged == ClusterHook /\ Active # {} /\ retry # NoRetry /\ ~Changed

(* No job, a complete one or a running one. *)
HookWait ==
    /\ HookUnchanged /\ (IsStopped => IsComplete)
    /\ ClearBlocked
    /\ Begin("apply")
    /\ UNCHANGED <<env, job, retry, recorded, degraded, restart, pending, faults>>

LastNode == retry.idx + 1 >= Len(Targets)
LastAttempt == retry.att >= MaxRetryAttempts

(* Mutant: the index runs past the last node before it wraps. *)
NextTryLate ==
    [retry EXCEPT !.idx = IF retry.idx >= Len(Targets) THEN 0 ELSE @ + 1,
                  !.att = IF retry.idx < Len(Targets) THEN @
                          ELSE IF LastAttempt THEN 1 ELSE @ + 1]

(* Mutant: every attempt is made on the first node. *)
NextTryFirstNode ==
    [retry EXCEPT !.idx = 0, !.att = IF LastAttempt THEN 1 ELSE @ + 1]

(* The next node, or the first node of the next attempt. *)
NextTry ==
    [retry EXCEPT !.idx = IF LastNode THEN 0 ELSE @ + 1,
                  !.att = IF ~LastNode THEN @ ELSE IF LastAttempt THEN 1 ELSE @ + 1]

(* The job failed, or stopped and will fail. *)
HookFailed ==
    /\ HookUnchanged /\ IsStopped /\ ~IsComplete
    /\ retry' = NextTry
    /\ ClearBlocked
    /\ IF LastNode /\ LastAttempt THEN Return("max", TRUE)
                                  ELSE Begin("apply") /\ UNCHANGED degraded
    /\ UNCHANGED <<env, job, recorded, restart, pending, faults>>

(* configureMultiNodeJob, or the hook of a node job: the job as it should be. *)
Required ==
    IF kind = "auth"
      THEN [st |-> "running", on |-> JobNode, att |-> 0, idx |-> 0,
            cfg |-> config, image |-> image, old |-> FALSE]
      ELSE [st |-> "running", on |-> retry.targets[retry.idx + 1],
            att |-> retry.att, idx |-> retry.idx,
            cfg |-> config, image |-> image, old |-> FALSE]

(* EnsureObjectMeta and the generation find the job modified. The hash of the
   spec that was asked for is kept in an annotation. *)
RetryFieldsDrift ==
    <<job.on, job.att, job.idx>> # <<Required.on, Required.att, Required.idx>>
RealDrift == job.image # image \/ (kind = "auth" /\ job.cfg # config)
Modified == RetryFieldsDrift \/ RealDrift \/ ~recorded

(* The hash of the spec that is stored is another one when the API server filled
   in the selector, the labels of the pods and the defaults of that spec. *)
isDriftOnlyInRetryFields == ~SpecsFilledIn /\ ~RealDrift

(* ApplyJob leaves the job as it is. *)
KeepsJob == ~Modified \/ (kind # "auth" /\ ~IsFailed /\ isDriftOnlyInRetryFields)

ApplyReady == sync.pc = "apply" /\ (kind # "auth" => retry # NoRetry)
Applied(st) == sync' = [sync EXCEPT !.pc = "status", !.got = st]

(* The retry state was reset since the hook looked: skip, or an error. *)
ApplyWithoutState ==
    /\ sync.pc = "apply" /\ kind # "auth" /\ retry = NoRetry
    /\ \E err \in {"none", "error"} : Return(err, sync.max)
    /\ UNCHANGED <<env, job, retry, since, recorded, restart, pending, faults>>

ApplyCreates ==
    /\ ApplyReady /\ job = NoJob
    /\ job' = Required
    /\ Applied("running")
    /\ UNCHANGED <<env, retry, since, recorded, degraded, restart, pending, faults>>

ApplyKeeps ==
    /\ ApplyReady /\ job # NoJob /\ KeepsJob
    /\ ~(IsFailed /\ job.old)
    /\ Applied(job.st)
    /\ UNCHANGED <<env, job, retry, since, recorded, degraded, restart, pending, faults>>

(* A job that failed long ago is deleted and left to the next sync. *)
DeleteStuckJob ==
    /\ ApplyReady /\ job # NoJob /\ KeepsJob /\ IsFailed /\ job.old
    /\ job' = NoJob
    /\ Return("none", sync.max)
    /\ UNCHANGED <<env, retry, since, recorded, restart, pending, faults>>

ApplyDeletes ==
    /\ ApplyReady /\ job # NoJob /\ ~KeepsJob
    /\ job' = NoJob
    /\ Return("error", sync.max)
    /\ UNCHANGED <<env, retry, since, recorded, restart, pending, faults>>

(* The generation and the conditions are written; only a complete job clears
   the message about the retries. *)
WriteStatus ==
    /\ sync.pc = "status"
    /\ recorded' = TRUE
    /\ Return(IF sync.got = "failed" THEN "error" ELSE "none",
              sync.max /\ sync.got # "complete")
    /\ UNCHANGED <<env, job, retry, since, restart, pending, faults>>

(* A request to the API fails: the creation in ApplyJob silently. *)
RequestFails ==
    /\ faults < MaxFaults /\ faults' = faults + 1
    /\ sync.pc \in {"apply", "status"}
    /\ \/ Return("error", sync.max)
       \/ sync.pc = "apply" /\ job = NoJob /\ Return("none", sync.max)
    /\ UNCHANGED <<env, job, retry, since, recorded, restart, pending>>

-----------------------------------------------------------------------------
(* RestartClusterJobOrRunController, after a node became ready. The lock lets
   one goroutine at a time through. *)

RestartFresh ==
    /\ restart = "none" /\ pending > 0 /\ job = NoJob
    /\ pending' = pending - 1
    /\ retry' = NoRetry
    /\ UNCHANGED <<env, job, since, recorded, degraded, sync, restart, faults>>

RestartWaits ==
    /\ restart = "none" /\ pending > 0 /\ job # NoJob
    /\ pending' = pending - 1
    /\ restart' = "wait"
    /\ UNCHANGED <<env, job, retry, since, recorded, degraded, sync, faults>>

(* WaitForStopped: the job stopped, or ten seconds passed. *)
RestartWaited ==
    /\ restart = "wait"
    /\ \/ IsStopped /\ restart' = "delete"
       \/ ~IsStopped /\ restart' = "none"
    /\ UNCHANGED <<env, job, retry, since, recorded, degraded, sync, pending, faults>>

(* DeleteAndWait *)
RestartDeletes ==
    /\ restart = "delete"
    /\ job' = NoJob
    /\ restart' = "reset"
    /\ UNCHANGED <<env, retry, since, recorded, degraded, sync, pending, faults>>

(* resetJobRetryState, then RunClusterJobController, which finds the
   controller running. *)
RestartResets ==
    /\ restart = "reset"
    /\ retry' = NoRetry
    /\ restart' = "none"
    /\ UNCHANGED <<env, job, since, recorded, degraded, sync, pending, faults>>

-----------------------------------------------------------------------------
(* The environment: Kubernetes runs the job, nodes come and go. *)

PodSucceeds ==
    /\ job.st = "running" /\ job.on \in Works /\ node[job.on] = "ready"
    /\ job' = [job EXCEPT !.st = "complete"]
    /\ UNCHANGED <<env, retry, since, recorded, degraded, sync, restart, pending, faults>>

(* The pods failed, the Failed condition is set at once or once they are gone. *)
PodFails ==
    /\ job.st \in {"running", "stopped"}
    /\ \/ job' = [job EXCEPT !.st = "failed"]
       \/ job.st = "running" /\ job' = [job EXCEPT !.st = "stopped"]
    /\ UNCHANGED <<env, retry, since, recorded, degraded, sync, restart, pending, faults>>

(* Ten minutes pass; a sync takes seconds. *)
BlockedLong ==
    /\ sync.pc = "idle" /\ since = "recent"
    /\ since' = "overdue"
    /\ UNCHANGED <<env, job, retry, recorded, degraded, sync, restart, pending, faults>>

FailedLong ==
    /\ sync.pc = "idle" /\ IsFailed /\ ~job.old
    /\ job' = [job EXCEPT !.old = TRUE]
    /\ UNCHANGED <<env, retry, since, recorded, degraded, sync, restart, pending, faults>>

Fault == faults < MaxFaults /\ faults' = faults + 1

NodeDown(n) ==
    /\ Fault /\ node[n] = "ready"
    /\ node' = [node EXCEPT ![n] = "notReady"]
    /\ UNCHANGED <<kind, cr, config, image, job, retry, since, recorded, degraded,
                   sync, restart, pending>>

NodeRemoved(n) ==
    /\ Fault /\ node[n] = "notReady"
    /\ node' = [node EXCEPT ![n] = "gone"]
    /\ config' = config + 1
    /\ UNCHANGED <<kind, cr, image, job, retry, since, recorded, degraded,
                   sync, restart, pending>>

(* A node with the same name and another UID. *)
NodeAdded(n) ==
    /\ node[n] = "gone"
    /\ node' = [node EXCEPT ![n] = "notReady"]
    /\ config' = config + 1
    /\ UNCHANGED <<kind, cr, image, job, retry, since, recorded, degraded,
                   sync, restart, pending, faults>>

(* registerNodeEventHandlers: a node that becomes ready restarts update-setup,
   which wants two nodes (restartUpdateSetupJob). *)
NodeUp(n) ==
    /\ node[n] = "notReady"
    /\ node' = [node EXCEPT ![n] = "ready"]
    /\ pending' = IF kind = "update-setup" /\ Cardinality(Listed) = 2
                    THEN pending + 1 ELSE pending
    /\ UNCHANGED <<kind, cr, config, image, job, retry, since, recorded, degraded,
                   sync, restart, faults>>

SecretChanged ==
    /\ Fault
    /\ config' = config + 1
    /\ UNCHANGED <<kind, node, cr, image, job, retry, since, recorded, degraded,
                   sync, restart, pending>>

PacemakerReports(S) ==
    /\ Fault /\ cr' = S /\ cr' # cr
    /\ UNCHANGED <<kind, node, config, image, job, retry, since, recorded, degraded,
                   sync, restart, pending>>

(* The operator restarts, perhaps as another version. *)
OperatorRestarts(i) ==
    /\ Fault /\ image' = i
    /\ retry' = NoRetry /\ since' = "none" /\ sync' = Idle
    /\ restart' = "none" /\ pending' = 0
    /\ UNCHANGED <<kind, node, cr, config, job, recorded, degraded>>

Sync ==
    \/ HookBlocked \/ HookNodeGone \/ HookNode \/ HookNoTarget \/ HookInit
    \/ HookChanged \/ HookWait \/ HookFailed
    \/ ApplyWithoutState \/ ApplyCreates \/ ApplyKeeps \/ DeleteStuckJob
    \/ ApplyDeletes \/ WriteStatus

Restart == \/ RestartFresh \/ RestartWaits \/ RestartWaited \/ RestartDeletes
           \/ RestartResets

Environment ==
    \/ PodSucceeds \/ PodFails \/ BlockedLong \/ FailedLong
    \/ RequestFails \/ SecretChanged
    \/ \E n \in Nodes : NodeDown(n) \/ NodeRemoved(n) \/ NodeAdded(n) \/ NodeUp(n)
    \/ \E S \in SUBSET Nodes : PacemakerReports(S)
    \/ \E i \in {image, image + 1} : OperatorRestarts(i)

Next == Sync \/ Restart \/ Environment

Spec == Init /\ [][Next]_vars

(* The controller is resynced every minute and the restart goroutine runs on.
   Pods end, and clocks run. A pod that is started over and over on a node where
   the job can work succeeds once. *)
Fairness ==
    /\ WF_vars(Sync) /\ WF_vars(Restart) /\ WF_vars(PodFails)
    /\ SF_vars(BlockedLong) /\ SF_vars(FailedLong) /\ SF_vars(PodSucceeds)

FairSpec == Spec /\ Fairness

-----------------------------------------------------------------------------
(* preserveMaxRetriesOnReturn: once every node was tried in every attempt, the
   operator reports it until the job is complete. *)
MaxRetriesKept ==
    [][degraded = "max" /\ degraded' # "max" => sync.got = "complete"]_vars

(* The nodes the job needs are ready, and one that can run it is a target. *)
Serviceable ==
    /\ Affected \subseteq Ready
    /\ IF kind = "auth" THEN JobNode \in Ready \cap Works ELSE Active \cap Works # {}

(* The round-robin over the nodes, the drift detection and the deletion of stuck
   jobs: when the nodes stay up, the job is complete in the end, whatever nodes,
   secrets, restarts and failed pods came before. *)
JobCompletes == <>[]Serviceable => <>[]IsComplete

(* manageTimedBlockedCondition: a job that stays blocked by a node that is not
   ready is reported, though the clock starts again with the operator. *)
BlockedJobsDegrade == <>[](~(Affected \subseteq Ready)) => <>[](degraded # "none")
=============================================================================
