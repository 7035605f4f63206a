--------------------------- MODULE TwoNodeCluster ---------------------------
(***************************************************************************)
(* How a two-node cluster with fencing gives etcd to Pacemaker, and how a  *)
(* node that was down or replaced comes back (pkg/tnf/operator and the     *)
(* runners of pkg/tnf: auth, setup, after-setup, fencing, update-setup).   *)
(*                                                                         *)
(* The operator starts the job controllers; a job is created, recreated    *)
(* when it fails and run on some ready node, as TwoNodeJobs has it in      *)
(* detail. Corosync, Pacemaker and the machines are modelled by what the   *)
(* commands of the jobs do to them.                                        *)
(***************************************************************************)
EXTENDS Integers, FiniteSets

CONSTANTS Nodes,     \* the two control plane nodes
          MaxFaults  \* bound: crashes of jobs, machines and operator

ASSUME ClusterAssumption ==
    IsFiniteSet(Nodes) /\ Cardinality(Nodes) = 2 /\ MaxFaults \in Nat

VARIABLES boot,     \* "none", EtcdRunningInCluster, EtcdBootstrapMemberRemoved
          ctl,      \* job controllers the operator runs
          cond,     \* ExternalEtcd...Transition: "none", "ready", "completed"
          machine,  \* machine[n]: on, kubelet (runs), disabled, conf, gen
          auth,     \* auth[n]: machine the complete auth job of n ran on
          after,    \* after[n]: the same for after-setup
          target,   \* does the latest revision hold the etcd container?
          pod,      \* pod[n]: the same of the static pod on n; "none": not installed
          pcs,      \* the Pacemaker configuration
          members,  \* nodes of corosync
          online,   \* the ones that are online
          setup,    \* the setup job
          upd,      \* the update-setup job
          faults

vars == <<boot, ctl, cond, machine, auth, after, target, pod, pcs, members, online,
          setup, upd, faults>>
operatorVars == <<boot, ctl, cond>>
podVars == <<target, pod>>
jobVars == <<auth, after>>
pcsVars == <<pcs, members, online>>

Other(n) == CHOOSE m \in Nodes : m # n
Gens == [n \in Nodes |-> machine[n].gen]
Ready(n) == machine[n].on /\ machine[n].kubelet
ReadyNodes == {n \in Nodes : Ready(n)}
NoJob == [pc |-> "none"]
SetupPcs == {"auth", "cluster", "start", "kubelet", "enable", "fencing", "alerts", "etcd",
             "constraints", "colocation", "signal", "wait", "complete"}
UpdPcs == {"alerts", "plan", "stable", "stop", "remove", "add", "fencing", "resource",
           "enable", "start", "validate", "complete"}

Machines == [on : BOOLEAN, kubelet : BOOLEAN, disabled : BOOLEAN, conf : BOOLEAN, gen : Nat]
PcsConfigs == [kubelet : BOOLEAN, enabled : BOOLEAN, etcd : BOOLEAN, order : BOOLEAN,
               colocation : BOOLEAN, alerts : BOOLEAN, fenced : [Nodes -> Int],
               ipMap : [Nodes -> Int]]
NewPcs == [kubelet |-> FALSE, enabled |-> FALSE, etcd |-> FALSE, order |-> FALSE,
           colocation |-> FALSE, alerts |-> FALSE, fenced |-> [n \in Nodes |-> -1],
           ipMap |-> [n \in Nodes |-> -1]]
SetupJobs == [pc : SetupPcs, on : Nodes]
UpdJobs == [pc : UpdPcs, on : Nodes, saw : SUBSET Nodes, off : SUBSET Nodes,
            force : BOOLEAN, targets : SUBSET Nodes]

(* Every part of the state keeps to its type; a job that runs, runs on a node; no job
   and no part of the configuration is of a machine that is yet to come. *)
TypeOK ==
    /\ boot \in {"none", "running", "removed"}
    /\ ctl \in {"none", "bootstrap", "runtime"}
    /\ cond \in {"none", "ready", "completed"}
    /\ machine \in [Nodes -> Machines]
    /\ auth \in [Nodes -> Int] /\ after \in [Nodes -> Int]
    /\ target \in {"etcd", "external"}
    /\ pod \in [Nodes -> {"etcd", "external", "none"}]
    /\ pcs \in PcsConfigs
    /\ members \subseteq Nodes /\ online \subseteq members
    /\ setup \in {NoJob} \cup SetupJobs
    /\ upd \in {NoJob} \cup UpdJobs
    /\ faults \in 0..MaxFaults
    /\ \A n \in Nodes :
         /\ auth[n] <= machine[n].gen /\ after[n] <= machine[n].gen
         /\ pcs.fenced[n] <= machine[n].gen /\ pcs.ipMap[n] <= machine[n].gen

Init ==
    /\ boot = "none" /\ ctl = "none" /\ cond = "none"
    /\ machine = [n \in Nodes |-> [on |-> TRUE, kubelet |-> TRUE, disabled |-> FALSE,
                                   conf |-> FALSE, gen |-> 0]]
    /\ auth = [n \in Nodes |-> -1] /\ after = [n \in Nodes |-> -1]
    /\ target = "etcd" /\ pod = [n \in Nodes |-> "none"]
    /\ pcs = NewPcs /\ members = {} /\ online = {}
    /\ setup = NoJob /\ upd = NoJob /\ faults = 0

-----------------------------------------------------------------------------
(* pacemakerLifecycleManager.sync *)

(* ceohelpers.IsRevisionStable *)
Stable == \A n \in Nodes : pod[n] = target

(* waitForEtcdBootstrapCompleted *)
EtcdBootstrapCompleted == boot = "removed"

(* startBootstrapJobControllers: both nodes are ready, etcd has left the bootstrap
   node for good, and every node has the latest revision. Until then the sync
   fails and is retried. *)
StartBootstrapControllers ==
    /\ ctl = "none" /\ cond # "completed"
    /\ ReadyNodes = Nodes /\ EtcdBootstrapCompleted /\ Stable
    /\ ctl' = "bootstrap"
    /\ UNCHANGED <<boot, cond, machine, podVars, jobVars, pcsVars, setup, upd, faults>>

(* startRuntimeJobControllers *)
StartRuntimeControllers ==
    /\ ctl # "runtime" /\ cond = "completed"
    /\ ctl' = "runtime"
    /\ UNCHANGED <<boot, cond, machine, podVars, jobVars, pcsVars, setup, upd, faults>>

-----------------------------------------------------------------------------
(* The jobs auth, after-setup and fencing. *)

(* pcs pcsd accept_token: the machine of a node takes commands from the others. *)
Authenticate(n) == auth' = [auth EXCEPT ![n] = machine[n].gen]

(* RunTnfAuth: the job of a node is complete for the machine it ran on. *)
AuthRuns(n) ==
    /\ ctl # "none" /\ Ready(n) /\ auth[n] # machine[n].gen
    /\ Authenticate(n)
    /\ UNCHANGED <<operatorVars, machine, podVars, after, pcsVars, setup, upd, faults>>

(* RunTnfAfterSetup: waits for the setup job, then disables the kubelet service.
   The kubelet goes on until the machine is restarted. *)
AfterSetupRuns(n) ==
    /\ ctl # "none" /\ Ready(n) /\ after[n] # machine[n].gen
    /\ setup.pc = "complete"
    /\ after' = [after EXCEPT ![n] = machine[n].gen]
    /\ machine' = [machine EXCEPT ![n].disabled = TRUE]
    /\ UNCHANGED <<operatorVars, podVars, auth, pcsVars, setup, upd, faults>>

(* RunFencingSetup, started again when the UID of a node changes. *)
FencingRuns(n) ==
    /\ ctl # "none" /\ n \in online /\ ReadyNodes = Nodes
    /\ setup.pc = "complete" /\ pcs.fenced # Gens
    /\ pcs' = [pcs EXCEPT !.fenced = Gens]
    /\ UNCHANGED <<operatorVars, machine, podVars, jobVars, members, online, setup, upd, faults>>

-----------------------------------------------------------------------------
(* The setup job, RunTnfSetup. Every step finds what an earlier run of it did. *)

SetupAt(l) == setup.pc = l
SetupGoes(l) == setup' = [setup EXCEPT !.pc = l]
SetupUnchanged == UNCHANGED <<boot, ctl, jobVars, upd, faults>>

SetupStarts(n) ==
    /\ ctl # "none" /\ setup = NoJob /\ ReadyNodes = Nodes
    /\ setup' = [pc |-> IF cond = "completed" THEN "complete" ELSE "auth", on |-> n]
    /\ UNCHANGED <<operatorVars, machine, podVars, jobVars, pcsVars, upd, faults>>

(* Both auth jobs are complete. *)
SetupAuthed ==
    /\ SetupAt("auth") /\ auth = Gens
    /\ SetupGoes("cluster")
    /\ SetupUnchanged /\ UNCHANGED <<cond, machine, podVars, pcsVars>>

(* pcs reaches the pcsd of every node, or the command fails. *)
AllReached == \A n \in Nodes : machine[n].on

(* pcs resource config shows the resource kubelet-clone, on a node where the cluster
   runs: all is done. Its error on another node counts as an answer without it. *)
KubeletCloneSeen == pcs.kubelet /\ setup.on \in online

(* ConfigureCluster, pcs cluster setup --force: the nodes get a configuration with
   nothing in it, and a cluster that runs there is destroyed with what it runs. *)
ConfigureCluster ==
    /\ SetupAt("cluster")
    /\ \/ /\ KubeletCloneSeen /\ SetupGoes("fencing")
          /\ UNCHANGED <<machine, pcsVars>>
       \/ /\ ~KubeletCloneSeen /\ AllReached /\ SetupGoes("start")
          /\ pcs' = NewPcs /\ members' = Nodes /\ online' = {}
          /\ machine' = [n \in Nodes |->
               [machine[n] EXCEPT !.conf = TRUE,
                                  !.kubelet = @ /\ ~(pcs.kubelet /\ n \in online)]]
    /\ SetupUnchanged /\ UNCHANGED <<cond, podVars>>

(* pcs cluster start --all *)
StartCluster ==
    /\ SetupAt("start") /\ AllReached
    /\ online' = members
    /\ SetupGoes("kubelet")
    /\ SetupUnchanged /\ UNCHANGED <<cond, machine, podVars, pcs, members>>

(* Pacemaker starts the kubelet on these nodes, if it does not run. *)
KubeletRunsOn(N) ==
    machine' = [n \in Nodes |-> IF n \in N THEN [machine[n] EXCEPT !.kubelet = TRUE]
                                           ELSE machine[n]]

(* pcs resource create kubelet *)
CreateKubelet ==
    /\ SetupAt("kubelet")
    /\ pcs' = [pcs EXCEPT !.kubelet = TRUE]
    /\ KubeletRunsOn(online)
    /\ SetupGoes("enable")
    /\ SetupUnchanged /\ UNCHANGED <<cond, podVars, members, online>>

(* pcs cluster enable --all *)
EnableCluster ==
    /\ SetupAt("enable") /\ AllReached
    /\ pcs' = [pcs EXCEPT !.enabled = TRUE]
    /\ SetupGoes("fencing")
    /\ SetupUnchanged /\ UNCHANGED <<cond, machine, podVars, members, online>>

(* Mutant: etcd is handed over before Pacemaker has the resource. *)
ConfigureFencingSignals ==
    /\ SetupAt("fencing")
    /\ pcs' = [pcs EXCEPT !.fenced = Gens]
    /\ cond' = "ready"
    /\ SetupGoes("alerts")
    /\ SetupUnchanged /\ UNCHANGED <<machine, podVars, members, online>>

ConfigureFencing ==
    /\ SetupAt("fencing")
    /\ pcs' = [pcs EXCEPT !.fenced = Gens]
    /\ SetupGoes("alerts")
    /\ SetupUnchanged /\ UNCHANGED <<cond, machine, podVars, members, online>>

(* ConfigureAlerts, put off while the scripts are missing. *)
ConfigureAlerts ==
    /\ SetupAt("alerts")
    /\ \E present \in BOOLEAN : pcs' = [pcs EXCEPT !.alerts = @ \/ present]
    /\ SetupGoes("etcd")
    /\ SetupUnchanged /\ UNCHANGED <<cond, machine, podVars, members, online>>

ConfigureEtcd ==
    /\ SetupAt("etcd")
    /\ pcs' = [pcs EXCEPT !.etcd = TRUE, !.ipMap = IF pcs.etcd THEN @ ELSE Gens]
    /\ SetupGoes("constraints")
    /\ SetupUnchanged /\ UNCHANGED <<cond, machine, podVars, members, online>>

(* ConfigureConstraints: a constraint that names etcd, be it one of the two, says
   that all is done; else the order is made and then the colocation. *)
ConfigureConstraints ==
    /\ SetupAt("constraints")
    /\ \/ /\ pcs.order \/ pcs.colocation
          /\ SetupGoes("signal") /\ UNCHANGED pcs
       \/ /\ ~(pcs.order \/ pcs.colocation)
          /\ pcs' = [pcs EXCEPT !.order = TRUE] /\ SetupGoes("colocation")
    /\ SetupUnchanged /\ UNCHANGED <<cond, machine, podVars, members, online>>

AddColocation ==
    /\ SetupAt("colocation")
    /\ pcs' = [pcs EXCEPT !.colocation = TRUE]
    /\ SetupGoes("signal")
    /\ SetupUnchanged /\ UNCHANGED <<cond, machine, podVars, members, online>>

(* RemoveStaticContainer: ExternalEtcdReadyForTransition. *)
SignalTransition ==
    /\ SetupAt("signal")
    /\ cond' = IF cond = "completed" THEN cond ELSE "ready"
    /\ SetupGoes("wait")
    /\ SetupUnchanged /\ UNCHANGED <<machine, podVars, pcsVars>>

(* Mutant: the job only waits, and never says that the transition is over. *)
CompleteTransitionSilently ==
    /\ SetupAt("wait") /\ Stable
    /\ SetupGoes("complete")
    /\ SetupUnchanged /\ UNCHANGED <<cond, machine, podVars, pcsVars>>

(* waitForStaticContainerRemoved: the revision is stable, which it is before the
   operator has made the new one. *)
CompleteTransition ==
    /\ SetupAt("wait") /\ Stable
    /\ cond' = "completed"
    /\ SetupGoes("complete")
    /\ SetupUnchanged /\ UNCHANGED <<machine, podVars, pcsVars>>

(* A command that must reach both nodes fails; the start is done where it could be.
   The controller runs the job again. *)
SetupUnreachable ==
    /\ setup.pc \in {"cluster", "start", "enable"} /\ ~AllReached
    /\ SetupAt("cluster") => ~KubeletCloneSeen
    /\ online' = IF SetupAt("start") THEN {n \in members : machine[n].on} ELSE online
    /\ setup' = NoJob
    /\ SetupUnchanged /\ UNCHANGED <<cond, machine, podVars, pcs, members>>

(* Any step fails, or the node of the job is lost. *)
SetupFails ==
    /\ setup.pc \in SetupPcs \ {"complete"}
    /\ faults < MaxFaults /\ faults' = faults + 1
    /\ setup' = NoJob
    /\ UNCHANGED <<operatorVars, machine, podVars, jobVars, pcsVars, upd>>

-----------------------------------------------------------------------------
(* The static pods. *)

(* IsReadyForEtcdTransition *)
ReadyForEtcdTransition == cond # "none"

(* TargetConfigController leaves the etcd container out. *)
RenderPod ==
    /\ ReadyForEtcdTransition /\ target = "etcd"
    /\ target' = "external"
    /\ UNCHANGED <<operatorVars, machine, pod, jobVars, pcsVars, setup, upd, faults>>

InstallPod(n) ==
    /\ Ready(n) /\ pod[n] # target
    /\ pod' = [pod EXCEPT ![n] = target]
    /\ UNCHANGED <<operatorVars, machine, target, jobVars, pcsVars, setup, upd, faults>>

-----------------------------------------------------------------------------
(* The update-setup job, RunTnfUpdateSetup. *)

(* getActivePacemakerNodes, with a PacemakerCluster that is up to date. *)
ActiveNodes == IF ReadyNodes \cap members # {} THEN ReadyNodes \cap members ELSE ReadyNodes

UpdAt(l) == upd.pc = l
UpdGoes(l) == upd' = [upd EXCEPT !.pc = l]
UpdUnchanged == UNCHANGED <<operatorVars, podVars, jobVars, setup, faults>>

(* The job starts on a node where the cluster runs, and looks who is in it. *)
UpdateStarts(n) ==
    /\ ctl = "runtime" /\ upd = NoJob /\ n \in online \cap ActiveNodes
    /\ upd' = [pc |-> "alerts", on |-> n, saw |-> members, off |-> members \ online,
               force |-> FALSE, targets |-> ActiveNodes]
    /\ UNCHANGED <<operatorVars, machine, podVars, jobVars, pcsVars, setup, faults>>

(* ConfigureAlertsWithRetry waits for the scripts. *)
UpdateAlerts ==
    /\ UpdAt("alerts")
    /\ pcs' = [pcs EXCEPT !.alerts = TRUE]
    /\ UpdGoes("plan")
    /\ UpdUnchanged /\ UNCHANGED <<machine, members, online>>

(* Mutant: the only member is taken for the missing one. *)
UpdatePlanSoleMember ==
    /\ UpdAt("plan")
    /\ upd' = IF Cardinality(upd.saw) = 1
                THEN [upd EXCEPT !.pc = "remove", !.off = upd.saw]
                ELSE [upd EXCEPT !.pc = IF upd.off # {} THEN "stable" ELSE "complete"]
    /\ UpdUnchanged /\ UNCHANGED <<machine, pcsVars>>

(* Mutant: a missing node is nobody's business. *)
UpdatePlanOffline ==
    /\ UpdAt("plan")
    /\ UpdGoes(IF upd.off # {} THEN "stable" ELSE "complete")
    /\ UpdUnchanged /\ UNCHANGED <<machine, pcsVars>>

(* corosyncNodesToRecover: a missing node is added, an offline one is removed
   and added. The list of nodes is the one the job saw when it started. *)
UpdatePlan ==
    /\ UpdAt("plan")
    /\ \/ /\ upd.saw = {upd.on}
          /\ upd' = [upd EXCEPT !.pc = "add", !.force = TRUE]
       \/ /\ Cardinality(upd.saw) = 2 /\ upd.off # {}
          /\ UpdGoes("stable")
       \/ /\ Cardinality(upd.saw) = 2 /\ upd.off = {}
          /\ IF members = Nodes THEN UpdGoes("complete")
                                ELSE upd' = [upd EXCEPT !.pc = "add", !.force = TRUE]
    /\ UpdUnchanged /\ UNCHANGED <<machine, pcsVars>>

(* WaitForStableRevision *)
UpdateStable ==
    /\ UpdAt("stable") /\ Stable
    /\ UpdGoes("stop")
    /\ UpdUnchanged /\ UNCHANGED <<machine, pcsVars>>

(* Pacemaker stops the kubelet of a node that leaves. *)
Stopped(n) == [machine[n] EXCEPT !.kubelet = @ /\ ~(n \in upd.off /\ n \in online)]

(* pcs cluster stop, best effort: the node may have come back since the job saw it. *)
UpdateStops ==
    /\ UpdAt("stop")
    /\ online' = online \ upd.off
    /\ machine' = [n \in Nodes |-> Stopped(n)]
    /\ UpdGoes("remove")
    /\ UpdUnchanged /\ UNCHANGED <<pcs, members>>

(* pcs cluster node remove: a node that can be reached drops its configuration. *)
UpdateRemoves ==
    /\ UpdAt("remove")
    /\ members' = members \ upd.off /\ online' = online \ upd.off
    /\ machine' = [n \in Nodes |->
         [Stopped(n) EXCEPT !.conf = @ /\ ~(n \in upd.off /\ machine[n].on)]]
    /\ UpdGoes("add")
    /\ UpdUnchanged /\ UNCHANGED pcs

(* pcsd of the node answers and knows the token; without --force it must not
   have a configuration. *)
CanAdd(n) ==
    /\ machine[n].on /\ auth[n] = machine[n].gen
    /\ upd.force \/ ~machine[n].conf

(* pcs cluster node add *)
UpdateAdds ==
    /\ UpdAt("add") /\ CanAdd(Other(upd.on))
    /\ members' = members \cup {Other(upd.on)}
    /\ machine' = [machine EXCEPT ![Other(upd.on)].conf = TRUE]
    /\ UpdGoes("fencing")
    /\ UpdUnchanged /\ UNCHANGED <<pcs, online>>

(* reconfigureClusterAfterNodeChange *)
UpdateFencing ==
    /\ UpdAt("fencing")
    /\ pcs' = [pcs EXCEPT !.fenced = Gens]
    /\ UpdGoes("resource")
    /\ UpdUnchanged /\ UNCHANGED <<machine, members, online>>

UpdateResource ==
    /\ UpdAt("resource")
    /\ pcs' = [pcs EXCEPT !.ipMap = Gens]
    /\ UpdGoes("enable")
    /\ UpdUnchanged /\ UNCHANGED <<machine, members, online>>

(* Members whose pcsd takes a command for the cluster. *)
Reached == {n \in members : machine[n].on /\ machine[n].conf}

(* pcs cluster enable --all *)
UpdateEnables ==
    /\ UpdAt("enable") /\ Reached = members
    /\ pcs' = [pcs EXCEPT !.enabled = TRUE]
    /\ UpdGoes("start")
    /\ UpdUnchanged /\ UNCHANGED <<machine, members, online>>

(* pcs cluster start --all: the members it reaches start, and the job fails if it
   does not reach one. *)
UpdateStartsAll ==
    /\ UpdAt("start")
    /\ online' = Reached
    /\ KubeletRunsOn(Reached)
    /\ \/ Reached = members /\ UpdGoes("validate")
       \/ Reached # members /\ upd' = NoJob
    /\ UpdUnchanged /\ UNCHANGED <<pcs, members>>

(* validateClusterState *)
UpdateValidates ==
    /\ UpdAt("validate") /\ online = Nodes
    /\ UpdGoes("complete")
    /\ UpdUnchanged /\ UNCHANGED <<machine, pcsVars>>

(* The job cannot go on and fails; the controller runs it again. *)
UpdateFails ==
    /\ \/ UpdAt("plan") /\ Cardinality(upd.saw) = 1 /\ upd.saw # {upd.on}
       \/ UpdAt("stable") /\ ~Stable
       \/ UpdAt("add") /\ ~CanAdd(Other(upd.on))
       \/ UpdAt("enable") /\ Reached # members
       \/ UpdAt("validate") /\ online # Nodes
    /\ upd' = NoJob
    /\ UpdUnchanged /\ UNCHANGED <<machine, pcsVars>>

(* Any step fails or the pod is lost. *)
UpdateCrashes ==
    /\ upd.pc \in UpdPcs \ {"complete"}
    /\ faults < MaxFaults /\ faults' = faults + 1
    /\ upd' = NoJob
    /\ UNCHANGED <<operatorVars, machine, podVars, jobVars, pcsVars, setup>>

(* syncMultiNodeJobState: other nodes are active now, the job is deleted. *)
UpdateRetargeted ==
    /\ ctl = "runtime" /\ upd # NoJob
    /\ ActiveNodes # {} /\ upd.targets # ActiveNodes
    /\ upd' = NoJob
    /\ UpdUnchanged /\ UNCHANGED <<machine, pcsVars>>

-----------------------------------------------------------------------------
(* The environment. *)

(* The conditions of the bootstrap teardown, as ClusterBootstrap has them. *)
BootstrapEnds ==
    /\ \/ boot = "none" /\ boot' = "running"
       \/ boot = "running" /\ boot' = "removed"
    /\ UNCHANGED <<ctl, cond, machine, podVars, jobVars, pcsVars, setup, upd, faults>>

(* restartUpdateSetupJob: a node became ready, and a job that is over is run again. *)
Restarted == IF ctl = "runtime" /\ upd.pc = "complete" THEN NoJob ELSE upd
Without(job, n) == IF job # NoJob /\ job.pc # "complete" /\ job.on = n THEN NoJob ELSE job

(* One machine at a time fails or is fenced; once Pacemaker has etcd, one that the
   other does not depend on. *)
PowerOff(n) ==
    /\ faults < MaxFaults /\ faults' = faults + 1
    /\ \A m \in Nodes : machine[m].on
    /\ Other(n) \in online \/ cond # "completed"
    /\ machine' = [machine EXCEPT ![n].on = FALSE, ![n].kubelet = FALSE]
    /\ online' = online \ {n}
    /\ setup' = Without(setup, n) /\ upd' = Without(upd, n)
    /\ UNCHANGED <<operatorVars, podVars, jobVars, pcs, members>>

(* systemd starts a kubelet that is not disabled, and a cluster that is enabled. *)
PowerOn(n) ==
    /\ ~machine[n].on
    /\ LET joins == pcs.enabled /\ machine[n].conf /\ n \in members
       IN  /\ online' = IF joins THEN online \cup {n} ELSE online
           /\ machine' = [machine EXCEPT ![n].on = TRUE,
                                         ![n].kubelet = ~machine[n].disabled \/ joins]
    /\ upd' = IF machine'[n].kubelet THEN Restarted ELSE upd
    /\ UNCHANGED <<operatorVars, podVars, jobVars, pcs, members, setup, faults>>

(* A new machine takes the name of a dead one, and joins with its own kubelet. That
   takes longer than the controller needs to see that the node is not ready. *)
Replace(n) ==
    /\ faults < MaxFaults /\ faults' = faults + 1
    /\ cond = "completed" /\ ~machine[n].on
    /\ upd # NoJob => n \notin upd.targets
    /\ machine' = [machine EXCEPT ![n] = [on |-> TRUE, kubelet |-> TRUE, disabled |-> FALSE,
                                          conf |-> FALSE, gen |-> @.gen + 1]]
    /\ pod' = [pod EXCEPT ![n] = "none"]
    /\ upd' = Restarted
    /\ UNCHANGED <<operatorVars, target, jobVars, pcsVars, setup>>

(* The controllers of a new operator process are started by its sync. *)
OperatorRestarts ==
    /\ ctl # "none"
    /\ faults < MaxFaults /\ faults' = faults + 1
    /\ ctl' = "none"
    /\ UNCHANGED <<boot, cond, machine, podVars, jobVars, pcsVars, setup, upd>>

Lifecycle == StartBootstrapControllers \/ StartRuntimeControllers
NodeJobs(n) == AuthRuns(n) \/ AfterSetupRuns(n) \/ FencingRuns(n)
Setup ==
    \/ (\E n \in Nodes : SetupStarts(n)) \/ SetupAuthed \/ ConfigureCluster
    \/ StartCluster \/ CreateKubelet \/ EnableCluster \/ ConfigureFencing
    \/ ConfigureAlerts \/ ConfigureEtcd \/ ConfigureConstraints \/ AddColocation
    \/ SignalTransition \/ CompleteTransition \/ SetupUnreachable
UpdateStep ==
    \/ UpdateAlerts \/ UpdatePlan \/ UpdateStable \/ UpdateStops \/ UpdateRemoves
    \/ UpdateAdds \/ UpdateFencing \/ UpdateResource \/ UpdateEnables \/ UpdateStartsAll
    \/ UpdateValidates \/ UpdateFails \/ UpdateRetargeted
Pods == RenderPod \/ \E n \in Nodes : InstallPod(n)
Faults == \/ SetupFails \/ UpdateCrashes \/ OperatorRestarts
          \/ \E n \in Nodes : PowerOff(n) \/ Replace(n)

Next == \/ Lifecycle \/ Setup \/ UpdateStep \/ Pods \/ BootstrapEnds \/ Faults
        \/ \E n \in Nodes : NodeJobs(n) \/ UpdateStarts(n) \/ PowerOn(n)

Spec == Init /\ [][Next]_vars

(* The operator and the static pod controllers are resynced; the controllers run
   a job until it is complete, in the end on every node where it can work;
   bootstrap ends and machines are repaired. What update-setup does to the members
   changes the nodes it may run on, and the controller deletes it for that: strong
   fairness says that this does not befall every run of it at the same step. *)
Fairness ==
    /\ WF_vars(Lifecycle) /\ WF_vars(Setup) /\ WF_vars(UpdateStep)
    /\ WF_vars(RenderPod) /\ WF_vars(BootstrapEnds)
    /\ SF_vars(UpdateFencing) /\ SF_vars(UpdateResource) /\ SF_vars(UpdateEnables)
    /\ SF_vars(UpdateStartsAll) /\ SF_vars(UpdateValidates)
    /\ \A n \in Nodes : /\ WF_vars(AuthRuns(n)) /\ WF_vars(AfterSetupRuns(n))
                        /\ WF_vars(FencingRuns(n)) /\ WF_vars(InstallPod(n))
                        /\ SF_vars(UpdateStarts(n)) /\ WF_vars(PowerOn(n))

FairSpec == Spec /\ Fairness

-----------------------------------------------------------------------------
(* RunTnfSetup signals last: whenever the operator is told that etcd may leave the
   static pods, or has left them, a Pacemaker cluster runs that can fence both nodes and
   has the etcd resource and the order after the kubelet, whatever steps of the job failed
   and were run again, over a cluster that runs or one that is down. *)
PacemakerReadyFirst ==
    [][cond' # cond
         => /\ online # {} /\ pcs.kubelet /\ pcs.etcd /\ pcs.order
            /\ \A n \in Nodes : pcs.fenced[n] >= 0]_vars

(* update-setup removes only the other node, and setup touches nothing after the
   handover: once Pacemaker has etcd, a member is online, through every stop, removal,
   failed start, crash and retry. *)
ClusterSurvives == cond = "completed" => online # {}

(* Both machines are members, ready and known to Pacemaker as they are now. *)
WholeCluster ==
    /\ members = Nodes /\ online = Nodes /\ ReadyNodes = Nodes
    /\ pcs.fenced = Gens /\ pcs.ipMap = Gens

(* ConfigureCluster takes the resource kubelet-clone as a sign that all is done: a
   cluster that gets etcd starts with its machines. *)
ClusterStartsAtBoot == cond # "none" => pcs.enabled

(* The handover ends, whatever steps failed, if the nodes become ready: the operator
   knows that Pacemaker has etcd, and the static pod it rolls out leaves it alone. *)
HandoverCompletes ==
    []ClusterStartsAtBoot /\ []<>(ReadyNodes = Nodes \/ cond = "completed")
      => <>[](cond = "completed" /\ target = "external")

(* update-setup: after the handover, in a cluster that starts with its machines, a node
   that was down, was removed or was replaced is back in the end, though its kubelet may
   only start once it is a member; provided that the revisions settle. *)
NodesReturn ==
    []ClusterStartsAtBoot /\ <>[]Stable => <>[](cond = "completed" => WholeCluster)
=============================================================================
