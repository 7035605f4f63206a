--------------------------- MODULE ClusterBootstrap ---------------------------
(***************************************************************************)
(* The installation of a cluster, from the one etcd member on the bootstrap*)
(* host to the etcd static pods on the control plane nodes:                *)
(*                                                                         *)
(*   EtcdCertSignerController, EnvVarController, TargetConfigController    *)
(*       make what a revision is made from,                                *)
(*   RevisionController, InstallerController put it on the nodes,          *)
(*   ClusterMemberController adds and promotes the nodes' members,         *)
(*   EtcdEndpointsController publishes voters and bootstrap address (ep),  *)
(*   BootstrapTeardownController removes the bootstrap member (bt),        *)
(*   wait-for-ceo and bootkube end the installation on the bootstrap host. *)
(*                                                                         *)
(* A new pod finds the cluster only through the addresses its revision was *)
(* rendered with, the operator makes revisions only when it believes that  *)
(* the cluster stands them, and the bootstrap host goes away in between.   *)
(***************************************************************************)
EXTENDS EtcdMembership, Sequences

CONSTANTS Boot,         \* the bootstrap host and its member "etcd-bootstrap"
          Strategies,   \* scaling strategies a cluster may be installed with
          Order,        \* Order[s]: the control plane nodes, as they arrive
          Present,      \* Present[s]: how many are there when the operator starts
          Delayed,      \* Delayed[s]: how many arrive after the host has left
          MaxFaults     \* bound: crashes and lost replies, by strategy

(* GetBootstrapScalingStrategy; Unsafe is what a single node is installed with. *)
AllStrategies == {"HA", "DelayedHA", "TwoNode", "DelayedTwoNode", "Unsafe"}

ASSUME BootstrapAssumption ==
    /\ Boot \in Nodes
    /\ Strategies \subseteq AllStrategies
    /\ Order \in [Strategies -> Seq(Nodes \ {Boot})]
    /\ \A s \in Strategies : Len(Order[s]) > 0
    /\ Delayed \in [Strategies -> Nat] /\ Present \in [Strategies -> Nat]
    /\ \A s \in Strategies : Present[s] + Delayed[s] <= Len(Order[s])
    /\ MaxFaults \in [Strategies -> Nat]

VARIABLES
    strategy,    \* the scaling strategy of this cluster
    nodes,       \* node statuses of the operator
    endpoints,   \* the data of the etcd-endpoints configmap
    annotated,   \* it carries the bootstrap address as an annotation
    certified,   \* nodes with certificates in etcd-all-certs
    pod,         \* the etcd-pod configmap: addresses and nodes, or NoPod
    rev,         \* what the latest revision was made from, or NoRevision
    running,     \* running[n]: the pod of the revision installed on n, or NoPod
    stale,       \* nodes whose current revision is not the latest
    installing,  \* the node the installer works on, or NoNode
    superseded,  \* a newer revision exists than the one being installed
    cachedSafe,  \* the health that CachedMembers last fetched allows a rollout
    inCluster,   \* condition EtcdRunningInCluster
    removed,     \* condition EtcdBootstrapMemberRemoved
    bootkube,    \* "waiting" for the operator, "seen" it, "complete"
    btPc,        \* BootstrapTeardownController
    epPc, epKeep, epSnap,
    faults

inputVars == <<nodes, certified, pod>>
rolloutVars == <<rev, running, stale, installing, superseded, cachedSafe>>
endpointVars == <<endpoints, annotated>>
hostVars == <<strategy, bootkube, faults>>
btVars == <<btPc, inCluster, removed>>
epVars == <<epPc, epKeep, epSnap>>
vars == <<etcdVars, inputVars, rolloutVars, endpointVars, hostVars, btVars, epVars>>

NoPod == [urls |-> {}, nodes |-> {}]
NoRevision == [pod |-> NoPod, endpoints |-> {}, certs |-> {}]
Pods == [urls : SUBSET Nodes, nodes : SUBSET Nodes]
Revisions == [pod : Pods, endpoints : SUBSET Nodes, certs : SUBSET Nodes]

(* Every variable stays in its type. *)
TypeOK ==
    /\ member \in [Nodes -> {"none", "learner", "voter"}]
    /\ started \in [Nodes -> BOOLEAN]
    /\ proc \in [Nodes -> {"off", "waiting", "serving"}]
    /\ late \subseteq Ops
    /\ strategy \in Strategies
    /\ nodes \subseteq Nodes /\ endpoints \subseteq Nodes /\ certified \subseteq Nodes
    /\ annotated \in BOOLEAN
    /\ pod \in Pods /\ rev \in Revisions
    /\ running \in [Nodes -> Pods]
    /\ stale \subseteq Nodes /\ installing \in Nodes \cup {NoNode}
    /\ superseded \in BOOLEAN /\ cachedSafe \in BOOLEAN
    /\ inCluster \in BOOLEAN /\ removed \in BOOLEAN
    /\ bootkube \in {"waiting", "seen", "complete"}
    /\ btPc \in {"idle", "health", "gone", "wait", "enough", "remove", "report"}
    /\ epPc \in {"idle", "write"}
    /\ epKeep \in BOOLEAN /\ epSnap \subseteq Nodes
    /\ faults \in Nat

(* The bootstrap host runs the only member; the rendered configmap carries its
   address. *)
Init ==
    /\ member = [n \in Nodes |-> IF n = Boot THEN "voter" ELSE "none"]
    /\ started = [n \in Nodes |-> n = Boot]
    /\ proc = [n \in Nodes |-> IF n = Boot THEN "serving" ELSE "off"]
    /\ late = {}
    /\ strategy \in Strategies
    /\ nodes = {Order[strategy][i] : i \in 1..Present[strategy]}
    /\ endpoints = {} /\ annotated = TRUE /\ certified = {}
    /\ pod = NoPod /\ rev = NoRevision
    /\ running = [n \in Nodes |-> NoPod]
    /\ stale = nodes /\ installing = NoNode /\ superseded = FALSE
    /\ cachedSafe = FALSE
    /\ inCluster = FALSE /\ removed = FALSE /\ bootkube = "waiting"
    /\ btPc = "idle"
    /\ epPc = "idle" /\ epKeep = FALSE /\ epSnap = {}
    /\ faults = 0

-----------------------------------------------------------------------------
(* What a revision is made from. *)

(* During bootstrap the signer runs freely, afterwards a difference between
   nodes and certificates forces it to. *)
SyncCerts ==
    /\ HasQuorum
    /\ certified # nodes
    /\ certified' = nodes
    /\ UNCHANGED <<etcdVars, nodes, pod, rolloutVars, endpointVars, hostVars,
                   btVars, epVars>>

(* Mutant: skipBootstrap is set. *)
UrlsSkipBootstrap == endpoints

(* getEtcdEndpoints without skipBootstrap: ALL_ETCD_ENDPOINTS. *)
Urls == endpoints \cup (IF annotated THEN {Boot} ELSE {})

(* EnvVarController hands out variables only when there are node statuses and a
   certificate of every node. *)
EnvVarsReady == nodes # {} /\ nodes \subseteq certified

(* checkEnvVars and TargetConfigController.sync, which it calls for: the addresses
   and the NODE_ variables go into the etcd-pod configmap. *)
RenderPod ==
    /\ HasQuorum
    /\ EnvVarsReady
    /\ pod' = [urls |-> Urls, nodes |-> nodes]
    /\ UNCHANGED <<etcdVars, nodes, certified, rolloutVars, endpointVars, hostVars,
                   btVars, epVars>>

-----------------------------------------------------------------------------
(* Revisions *)

(* IsRevisionStable *)
RevisionStable == rev # NoRevision /\ stale = {}

MinimumNodes ==
    CASE strategy \in {"HA", "DelayedHA"} -> 3
      [] strategy \in {"TwoNode", "DelayedTwoNode"} -> 2
      [] strategy = "Unsafe" -> 0

(* CheckSafeToScaleCluster for a health report of these members of which these
   are healthy; two nodes with fencing are not fault tolerant and may. *)
HealthAllowsRollout(members, healthy) ==
    \/ strategy = "Unsafe"
    \/ /\ Cardinality(healthy) >= MinimumNodes
       /\ \/ IsQuorumFaultTolerant(Cardinality(members), Cardinality(healthy))
          \/ /\ Cardinality(members) = 2
             /\ strategy \in {"TwoNode", "DelayedTwoNode"}

(* CachedMembers.refresh *)
RefreshHealth ==
    /\ HasQuorum
    /\ cachedSafe' = HealthAllowsRollout(Members, Members \ UnhealthyMembers)
    /\ UNCHANGED <<etcdVars, inputVars, rev, running, stale, installing, superseded,
                   endpointVars, hostVars, btVars, epVars>>

(* IsSafeToUpdateRevision *)
SafeToUpdateRevision == ~RevisionStable \/ strategy = "Unsafe" \/ cachedSafe

(* createRevisionIfNeeded: only the data of the configmaps counts, and all of
   them must exist. *)
CreateRevision ==
    /\ HasQuorum
    /\ pod # NoPod
    /\ LET next == [pod |-> pod, endpoints |-> endpoints, certs |-> certified]
       IN  next # rev /\ rev' = next
    /\ SafeToUpdateRevision
    /\ stale' = nodes
    /\ superseded' = (installing # NoNode)
    /\ UNCHANGED <<etcdVars, inputVars, running, installing, cachedSafe, endpointVars,
                   hostVars, btVars, epVars>>

(* manageInstallationPods: one node at a time, unready nodes first, the node in
   transition before any other; the pod of the latest revision replaces the
   running one. *)
InstallStart(n) ==
    /\ HasQuorum
    /\ rev # NoRevision /\ n \in stale
    /\ \/ installing = NoNode /\ (n \in Serving => stale \subseteq Serving)
       \/ installing = n /\ superseded
    /\ installing' = n /\ superseded' = FALSE
    /\ running' = [running EXCEPT ![n] = rev.pod]
    /\ proc' = [proc EXCEPT ![n] = "waiting"]
    /\ UNCHANGED <<member, started, late, inputVars, rev, stale, cachedSafe,
                   endpointVars, hostVars, btVars, epVars>>

InstallDone(n) ==
    /\ HasQuorum
    /\ installing = n /\ ~superseded
    /\ proc[n] = "serving"
    /\ installing' = NoNode /\ stale' = stale \ {n}
    /\ UNCHANGED <<etcdVars, inputVars, rev, running, superseded, cachedSafe,
                   endpointVars, hostVars, btVars, epVars>>

-----------------------------------------------------------------------------
(* ClusterMemberController, one sync at a time; MemberManagement has its steps. *)

AddMember(n) ==
    /\ UnhealthyMembers = {}
    /\ n \in nodes /\ proc[n] = "waiting"
    /\ CanAddLearner(n) /\ AddLearner(n)
    /\ UNCHANGED <<proc, late, inputVars, rolloutVars, endpointVars, hostVars, btVars,
                   epVars>>

PromoteMember(n) ==
    /\ UnhealthyMembers = {}
    /\ CanPromote(n) /\ Promote(n)
    /\ UNCHANGED <<proc, late, inputVars, rolloutVars, endpointVars, hostVars, btVars,
                   epVars>>

-----------------------------------------------------------------------------
(* EtcdEndpointsController.syncConfigMap *)

EpIdle == epPc' = "idle" /\ epKeep' = FALSE /\ epSnap' = {}

(* ceohelpers.IsBootstrapComplete *)
BootstrapComplete == bootkube = "complete" /\ Boot \notin Members

(* Mutant: the installer's configmap alone is taken for the end of bootstrap. *)
KeepBootstrapIPTooShort == annotated /\ ~(bootkube = "complete" /\ RevisionStable)

(* The bootstrap address is kept until bootstrap is complete and the revision
   stable. *)
KeepBootstrapIP == annotated /\ ~(BootstrapComplete /\ RevisionStable)

(* The voters other than the bootstrap member; none is an error.  What equals the
   configmap is written back without effect and left out. *)
EpRead ==
    /\ epPc = "idle"
    /\ HasQuorum
    /\ LET ips == Voters \ {Boot}
       IN  /\ ips # {} /\ <<ips, KeepBootstrapIP>> # <<endpoints, annotated>>
           /\ epSnap' = ips
    /\ epKeep' = KeepBootstrapIP
    /\ epPc' = "write"
    /\ UNCHANGED <<etcdVars, inputVars, rolloutVars, endpointVars, hostVars, btVars>>

EpWrite ==
    /\ epPc = "write"
    /\ HasQuorum
    /\ endpoints' = epSnap /\ annotated' = epKeep
    /\ EpIdle
    /\ UNCHANGED <<etcdVars, inputVars, rolloutVars, hostVars, btVars>>

Ep == EpRead \/ EpWrite

-----------------------------------------------------------------------------
(* BootstrapTeardownController.sync *)

(* canRemoveEtcdBootstrap: how many members, the bootstrap member included. *)
MembersNeeded ==
    CASE strategy = "HA" -> 4
      [] strategy \in {"DelayedHA", "TwoNode"} -> 3
      [] strategy \in {"Unsafe", "DelayedTwoNode"} -> 2

(* Mutant: the number of members is not looked at. *)
BtListUncounted ==
    /\ btPc = "idle"
    /\ HasQuorum
    /\ btPc' = IF Boot \notin Members THEN "gone" ELSE "health"
    /\ UNCHANGED <<inCluster, removed, etcdVars, inputVars, rolloutVars, endpointVars,
                   hostVars, epVars>>

BtList ==
    /\ btPc = "idle"
    /\ HasQuorum
    /\ btPc' = IF Boot \notin Members THEN "gone"
               ELSE IF Cardinality(Members) < MembersNeeded THEN "wait"
               ELSE "health"
    /\ UNCHANGED <<inCluster, removed, etcdVars, inputVars, rolloutVars, endpointVars,
                   hostVars, epVars>>

(* The bootstrap member may be unhealthy; a failed check counts as not safe. *)
BtHealth ==
    /\ btPc = "health"
    /\ btPc' = IF HasQuorum /\ UnhealthyMembers \subseteq {Boot} THEN "enough" ELSE "wait"
    /\ UNCHANGED <<inCluster, removed, etcdVars, inputVars, rolloutVars, endpointVars,
                   hostVars, epVars>>

(* removeBootstrap: the status updates, and on to the removal when the installer
   has marked bootstrapping as done. *)
BtReport ==
    /\ HasQuorum
    /\ \/ /\ btPc = "gone" /\ removed' = TRUE /\ inCluster' = TRUE
          /\ btPc' = "idle"
       \/ /\ btPc = "wait" /\ inCluster' = FALSE /\ UNCHANGED removed
          /\ btPc' = "idle"
       \/ /\ btPc = "enough" /\ inCluster' = TRUE /\ UNCHANGED removed
          /\ btPc' = IF bootkube = "complete" THEN "remove" ELSE "idle"
       \/ /\ btPc = "report" /\ removed' = TRUE /\ UNCHANGED inCluster
          /\ btPc' = "idle"
    /\ UNCHANGED <<etcdVars, inputVars, rolloutVars, endpointVars, hostVars, epVars>>

RemoveTimesOut ==
    /\ faults < MaxFaults[strategy] /\ faults' = faults + 1
    /\ TimeOut(<<"remove", Boot>>)
    /\ UNCHANGED <<member, started, proc>>

(* Mutant: the condition is set whether or not the removal succeeds. *)
BtRemoveUnchecked ==
    /\ btPc = "remove"
    /\ \/ CanRemove(Boot) /\ Remove(Boot) /\ UNCHANGED faults
       \/ ~CanRemove(Boot) /\ UNCHANGED <<etcdVars, faults>>
       \/ CanRemove(Boot) /\ RemoveTimesOut
    /\ btPc' = "report"
    /\ UNCHANGED <<inCluster, removed, inputVars, rolloutVars, endpointVars, strategy,
                   bootkube, epVars>>

(* MemberRemove, which the server may refuse and which may time out. *)
BtRemove ==
    /\ btPc = "remove"
    /\ \/ CanRemove(Boot) /\ Remove(Boot) /\ btPc' = "report" /\ UNCHANGED faults
       \/ ~CanRemove(Boot) /\ btPc' = "idle" /\ UNCHANGED <<etcdVars, faults>>
       \/ CanRemove(Boot) /\ RemoveTimesOut /\ btPc' = "idle"
    /\ UNCHANGED <<inCluster, removed, inputVars, rolloutVars, endpointVars, strategy,
                   bootkube, epVars>>

Bt == BtList \/ BtHealth \/ BtReport \/ BtRemove

-----------------------------------------------------------------------------
(* The bootstrap host, the nodes and their containers. *)

(* wait-for-ceo returns when it sees the condition true, once. *)
WaitForEtcdBootstrap ==
    /\ bootkube = "waiting" /\ inCluster
    /\ HasQuorum
    /\ bootkube' = "seen"
    /\ UNCHANGED <<etcdVars, inputVars, rolloutVars, endpointVars, strategy, faults,
                   btVars, epVars>>

(* The installer creates the kube-system/bootstrap configmap. *)
CompleteBootstrap ==
    /\ bootkube = "seen"
    /\ HasQuorum
    /\ bootkube' = "complete"
    /\ UNCHANGED <<etcdVars, inputVars, rolloutVars, endpointVars, strategy, faults,
                   btVars, epVars>>

(* In HA clusters the host is torn down as soon as the configmap is there, in
   the others after the member is gone. *)
HostLeaves ==
    /\ bootkube = "complete" /\ proc[Boot] # "off"
    /\ strategy = "HA" \/ removed
    /\ proc' = [proc EXCEPT ![Boot] = "off"]
    /\ UNCHANGED <<member, started, late, inputVars, rolloutVars, endpointVars,
                   hostVars, btVars, epVars>>

Masters == {Order[strategy][i] : i \in 1..Len(Order[strategy])}

(* The next node registers, a delayed one only when the host has left. *)
NodeArrives ==
    /\ HasQuorum
    /\ Cardinality(nodes) < Len(Order[strategy])
    /\ LET i == Cardinality(nodes) + 1
       IN  /\ i > Len(Order[strategy]) - Delayed[strategy] => proc[Boot] = "off"
           /\ nodes' = nodes \cup {Order[strategy][i]}
           /\ stale' = stale \cup {Order[strategy][i]}
    /\ UNCHANGED <<etcdVars, certified, pod, rev, running, installing, superseded,
                   cachedSafe, endpointVars, hostVars, btVars, epVars>>

(* The pod needs its NODE_ variables, and a new member the member list from one
   of the addresses it was rendered with. *)
Join(n) ==
    /\ n \in Members /\ proc[n] = "waiting"
    /\ n \in running[n].nodes
    /\ ~started[n] => HasQuorum /\ running[n].urls \cap Serving \cap Members # {}
    /\ proc' = [proc EXCEPT ![n] = "serving"]
    /\ started' = [started EXCEPT ![n] = TRUE]
    /\ UNCHANGED <<member, late, inputVars, rolloutVars, endpointVars, hostVars,
                   btVars, epVars>>

Crash(n) ==
    /\ n # Boot /\ n \in Members \cap Serving
    /\ faults < MaxFaults[strategy]
    /\ faults' = faults + 1
    /\ proc' = [proc EXCEPT ![n] = "waiting"]
    /\ UNCHANGED <<member, started, late, inputVars, rolloutVars, endpointVars,
                   strategy, bootkube, btVars, epVars>>

(* A removal that timed out is applied after all, or lost. *)
LateRemoval ==
    /\ late # {}
    /\ \/ HasQuorum /\ Boot \in Members /\ Remove(Boot)
       \/ late' = {} /\ UNCHANGED <<member, started, proc>>
    /\ UNCHANGED <<inputVars, rolloutVars, endpointVars, hostVars, btVars, epVars>>

Next ==
    \/ SyncCerts \/ RenderPod
    \/ RefreshHealth \/ CreateRevision
    \/ \E n \in Nodes : \/ InstallStart(n) \/ InstallDone(n) \/ AddMember(n)
                        \/ PromoteMember(n) \/ Join(n) \/ Crash(n)
    \/ Ep \/ Bt
    \/ WaitForEtcdBootstrap \/ CompleteBootstrap \/ HostLeaves \/ NodeArrives
    \/ LateRemoval

Spec == Init /\ [][Next]_vars

(* Fairness: every controller is requeued and resynced, kubelet restarts
   containers, the installer goes on, every node registers. *)
Fairness ==
    /\ WF_vars(SyncCerts) /\ WF_vars(RenderPod)
    /\ WF_vars(RefreshHealth) /\ WF_vars(CreateRevision)
    /\ WF_vars(Ep) /\ WF_vars(Bt)
    /\ WF_vars(WaitForEtcdBootstrap) /\ WF_vars(CompleteBootstrap)
    /\ WF_vars(HostLeaves) /\ WF_vars(NodeArrives)
    /\ \A n \in Nodes :
         /\ WF_vars(InstallStart(n) \/ InstallDone(n))
         /\ WF_vars(AddMember(n) \/ PromoteMember(n))
         /\ WF_vars(Join(n))

FairSpec == Spec /\ Fairness

-----------------------------------------------------------------------------
(* Properties *)

(* Clients forget the bootstrap address only when no member is there any more. *)
BootstrapForgottenLast == ~annotated => Boot \notin Members

(* What the installer and two-node fencing read as "removed" is removed. *)
RemovedMeansGone == removed => Boot \notin Members

(* The bootstrap member leaves behind as many members as the strategy asks for,
   also when its removal timed out and is applied later. *)
EnoughMembersRemain ==
    [][(Boot \in Members \ Members')
         => Cardinality(Members') >= MembersNeeded - 1]_vars

(* The installation ends: every control plane node votes, the bootstrap member
   is gone, and so are its address and its host. *)
InstallationCompletes ==
    <>[](/\ Voters = Masters /\ endpoints = Masters /\ UnhealthyMembers = {}
         /\ ~annotated /\ removed /\ inCluster /\ proc[Boot] = "off"
         /\ \A n \in Masters : running[n].urls = Masters)

=============================================================================
