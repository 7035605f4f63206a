-------------------------- MODULE MemberManagement --------------------------
(***************************************************************************)
(* The controllers that decide who is an etcd member, run concurrently     *)
(* against one etcd cluster and one Machine API:                           *)
(*                                                                         *)
(*   ClusterMemberController         adds learners and promotes them (cmc) *)
(*   ClusterMemberRemovalController  removes members (rm)                  *)
(*   MachineDeletionHooksController  holds and releases Machines (hk)      *)
(*   EtcdEndpointsController         publishes the voters (ep)             *)
(*                                                                         *)
(* with the static pod rollout that their output triggers.  Each controller*)
(* has one worker; a sync is a sequence of steps, one per API or etcd call,*)
(* and everything else may happen between two of them.  The state is that  *)
(* of a cluster whose bootstrap is complete and that is not handed over to *)
(* Pacemaker, where both guards at the head of the syncs let them through. *)
(***************************************************************************)
EXTENDS EtcdMembership

CONSTANTS InitVoters,     \* the members of the installed cluster
          Desired,        \* control plane replicas in the observed config
          FailureDomain,  \* FailureDomain[n]: the last digit of the machine name
          MachineAPI,     \* is the Machine API functional
          Deletable,      \* machines somebody may delete
          Losable,        \* machines that may vanish with their node and host
          MaxDown,        \* bound: members down at once through crashes
          Faults,         \* may calls fail at random, and the operator restart
          Rollouts        \* do changed endpoints roll out a new revision

ASSUME ManagementAssumption ==
    /\ InitVoters \subseteq Nodes
    /\ InitVoters # {}
    /\ Desired \in Nat \ {0}
    /\ FailureDomain \in [Nodes -> Int]
    /\ MachineAPI \in BOOLEAN /\ Faults \in BOOLEAN /\ Rollouts \in BOOLEAN
    /\ Deletable \subseteq Nodes /\ Losable \subseteq Nodes
    /\ MaxDown \in Nat

VARIABLES
    machine,     \* machine[n]: "absent", "running", "deleting" or "gone"
    hook,        \* hook[n]: the EtcdQuorumOperator PreDrain hook is set
    endpoints,   \* the etcd-endpoints configmap
    revised,     \* the endpoints the latest revision was made from
    stale,       \* nodes whose current revision is not the latest
    installing,  \* the node the installer works on, or NoNode
    superseded,  \* a newer revision exists than the one being installed
    cachedSafe,  \* the health that CachedMembers last fetched allows a rollout
    cmcPc, cmcCand, cmcTodo,
    rmPc, rmTodo, rmLive, rmMachines, rmHealthy, rmFirst,
    hkPc, hkTodo,
    epPc, epSnap

machineVars == <<machine, hook>>
rolloutVars == <<revised, stale, installing, superseded, cachedSafe>>
cmcVars == <<cmcPc, cmcCand, cmcTodo>>
rmScaleVars == <<rmLive, rmMachines, rmHealthy, rmFirst>>
rmVars == <<rmPc, rmTodo, rmScaleVars>>
hkVars == <<hkPc, hkTodo>>
epVars == <<epPc, epSnap>>
vars == <<etcdVars, machineVars, endpoints, rolloutVars, cmcVars, rmVars,
          hkVars, epVars>>

Exists(n) == machine[n] \in {"running", "deleting"}   \* machine and node object
Deleting(n) == machine[n] = "deleting"

(* The state every controller works on, and where each sync stands, stay in
   their types. *)
TypeOK ==
    /\ member \in [Nodes -> {"none", "learner", "voter"}]
    /\ started \in [Nodes -> BOOLEAN]
    /\ proc \in [Nodes -> {"off", "waiting", "serving"}]
    /\ late \subseteq Ops
    /\ machine \in [Nodes -> {"absent", "running", "deleting", "gone"}]
    /\ hook \in [Nodes -> BOOLEAN]
    /\ endpoints \subseteq Nodes
    /\ revised \subseteq Nodes /\ stale \subseteq Nodes
    /\ installing \in Nodes \cup {NoNode}
    /\ superseded \in BOOLEAN /\ cachedSafe \in BOOLEAN
    /\ cmcPc \in {"idle", "pick", "add", "list", "promote", "rpc"}
    /\ cmcCand \in Nodes \cup {NoNode} /\ cmcTodo \subseteq Nodes
    /\ rmPc \in {"idle", "gate", "orphans", "learners", "rmLearner", "scale",
                 "healthy", "unhealthy", "remove"}
    /\ rmTodo \subseteq Nodes /\ rmLive \subseteq Nodes
    /\ rmMachines \subseteq Nodes
    /\ rmHealthy \subseteq Nodes /\ rmFirst \subseteq Nodes
    /\ hkPc \in {"idle", "members", "release"} /\ hkTodo \subseteq Nodes
    /\ epPc \in {"idle", "write"} /\ epSnap \subseteq Nodes

(* CheckSafeToScaleCluster with the HA strategy, for a health report of these
   members of which these are healthy. *)
HealthAllowsRollout(members, healthy) ==
    /\ Cardinality(healthy) >= 3
    /\ IsQuorumFaultTolerant(Cardinality(members), Cardinality(healthy))

(* An installed cluster at rest: its members serve, their machines carry the
   hook, the configmap and the latest revision name them. *)
Init ==
    /\ member = [n \in Nodes |-> IF n \in InitVoters THEN "voter" ELSE "none"]
    /\ started = [n \in Nodes |-> n \in InitVoters]
    /\ proc = [n \in Nodes |-> IF n \in InitVoters THEN "serving" ELSE "off"]
    /\ late = {}
    /\ machine = [n \in Nodes |-> IF n \in InitVoters THEN "running" ELSE "absent"]
    /\ hook = [n \in Nodes |-> n \in InitVoters]
    /\ endpoints = InitVoters /\ revised = InitVoters
    /\ stale = {} /\ installing = NoNode /\ superseded = FALSE
    /\ cachedSafe = HealthAllowsRollout(InitVoters, InitVoters)
    /\ cmcPc = "idle" /\ cmcCand = NoNode /\ cmcTodo = {}
    /\ rmPc = "idle" /\ rmTodo = {} /\ rmLive = {} /\ rmMachines = {}
    /\ rmHealthy = {} /\ rmFirst = {}
    /\ hkPc = "idle" /\ hkTodo = {}
    /\ epPc = "idle" /\ epSnap = {}

(* A call fails: at random, or because etcd has no quorum. *)
CallFails == Faults \/ ~HasQuorum

-----------------------------------------------------------------------------
(* ClusterMemberController.reconcileMembers *)

CmcIdle == cmcPc' = "idle" /\ cmcCand' = NoNode /\ cmcTodo' = {}

(* Mutant: the health of the members is not looked at. *)
CmcStartUnchecked ==
    /\ cmcPc = "idle"
    /\ HasQuorum
    /\ cmcPc' = "pick"
    /\ UNCHANGED <<cmcCand, cmcTodo, etcdVars, machineVars, endpoints,
                   rolloutVars, rmVars, hkVars, epVars>>

(* Nothing is done while a member is unhealthy or unstarted. *)
CmcStart ==
    /\ cmcPc = "idle"
    /\ HasQuorum
    /\ UnhealthyMembers = {}
    /\ cmcPc' = "pick"
    /\ UNCHANGED <<cmcCand, cmcTodo, etcdVars, machineVars, endpoints,
                   rolloutVars, rmVars, hkVars, epVars>>

(* Mutant: the container must be ready, which it never is before it is added. *)
AddableWhenReady(n) ==
    /\ Exists(n)
    /\ member[n] = "none"
    /\ MachineAPI => machine[n] = "running" /\ hook[n]
    /\ proc[n] = "serving"

(* getEtcdPeerURLToAdd: is this node to be added next? *)
Addable(n) ==
    /\ Exists(n)                                      \* a master node exists
    /\ member[n] = "none"
    /\ MachineAPI => machine[n] = "running" /\ hook[n]
    /\ proc[n] = "waiting"                            \* running, not ready

CmcPick ==
    /\ cmcPc = "pick"
    /\ HasQuorum
    /\ IF \E n \in Nodes : Addable(n)
         THEN \E n \in Nodes : Addable(n) /\ cmcCand' = n /\ cmcPc' = "add"
         ELSE cmcPc' = "list" /\ UNCHANGED cmcCand
    /\ UNCHANGED <<cmcTodo, etcdVars, machineVars, endpoints, rolloutVars,
                   rmVars, hkVars, epVars>>

CmcAdd ==
    /\ cmcPc = "add"
    /\ \/ CanAddLearner(cmcCand) /\ AddLearner(cmcCand) /\ UNCHANGED late
       \/ (~CanAddLearner(cmcCand) \/ Faults) /\ UNCHANGED <<member, started, late>>
       \/ /\ CanAddLearner(cmcCand)
          /\ TimeOut(<<"add", cmcCand>>) /\ UNCHANGED <<member, started>>
    /\ cmcPc' = "list" /\ cmcCand' = NoNode
    /\ UNCHANGED <<proc, cmcTodo, machineVars, endpoints, rolloutVars, rmVars,
                   hkVars, epVars>>

(* ensureEtcdLearnerPromotion: list the learners, unless every node votes. *)
CmcList ==
    /\ cmcPc = "list"
    /\ HasQuorum
    /\ IF (\A n \in Nodes : Exists(n) => n \in Voters) \/ Learners = {}
         THEN CmcIdle
         ELSE cmcPc' = "promote" /\ cmcTodo' = Learners /\ UNCHANGED cmcCand
    /\ UNCHANGED <<etcdVars, machineVars, endpoints, rolloutVars, rmVars,
                   hkVars, epVars>>

ShouldPromote(n) ==
    MachineAPI => Exists(n) /\ hook[n] /\ ~Deleting(n)

CmcNext(todo) ==
    IF todo = {} THEN CmcIdle
    ELSE cmcPc' = "promote" /\ cmcTodo' = todo /\ cmcCand' = NoNode

CmcCheck ==
    /\ cmcPc = "promote"
    /\ \/ cmcTodo = {} /\ CmcIdle
       \/ \E n \in cmcTodo :
            IF ShouldPromote(n)
              THEN cmcPc' = "rpc" /\ cmcCand' = n /\ cmcTodo' = cmcTodo \ {n}
              ELSE CmcNext(cmcTodo \ {n})
    /\ UNCHANGED <<etcdVars, machineVars, endpoints, rolloutVars, rmVars,
                   hkVars, epVars>>

(* MemberPromote; a learner that is not in sync with the leader is refused. *)
CmcPromote ==
    /\ cmcPc = "rpc"
    /\ \/ CanPromote(cmcCand) /\ Promote(cmcCand) /\ UNCHANGED late
       \/ (~CanPromote(cmcCand) \/ Faults) /\ UNCHANGED <<member, started, late>>
       \/ /\ CanPromote(cmcCand)
          /\ TimeOut(<<"promote", cmcCand>>) /\ UNCHANGED <<member, started>>
    /\ CmcNext(cmcTodo)
    /\ UNCHANGED <<proc, machineVars, endpoints, rolloutVars, rmVars, hkVars,
                   epVars>>

(* A failed listing: the failure to find a node to add does not keep the
   learners from being promoted. *)
CmcError ==
    /\ CallFails
    /\ \/ cmcPc = "pick" /\ cmcPc' = "list" /\ UNCHANGED <<cmcCand, cmcTodo>>
       \/ cmcPc = "list" /\ CmcIdle
    /\ UNCHANGED <<etcdVars, machineVars, endpoints, rolloutVars, rmVars,
                   hkVars, epVars>>

Cmc == CmcStart \/ CmcPick \/ CmcAdd \/ CmcList \/ CmcCheck \/ CmcPromote \/ CmcError

-----------------------------------------------------------------------------
(* ClusterMemberRemovalController.sync *)

(* n left the membership: its ID is no longer found by the controllers that
   hold it in a list. *)
Forget(n) ==
    /\ cmcTodo' = cmcTodo \ {n}
    /\ cmcCand' = IF cmcPc = "rpc" /\ cmcCand = n THEN NoNode ELSE cmcCand
    /\ UNCHANGED cmcPc

Keep == UNCHANGED <<etcdVars, cmcVars>>

(* MemberRemove(n): done, refused or failed, or timed out in flight. *)
MemberRemove(n, ok) ==
    \/ ok /\ CanRemove(n) /\ Remove(n) /\ Forget(n)
    \/ ~ok /\ (~CanRemove(n) \/ Faults) /\ Keep
    \/ /\ ~ok /\ CanRemove(n) /\ TimeOut(<<"remove", n>>)
       /\ UNCHANGED <<member, started, proc, cmcVars>>

RmNoScale == rmLive' = {} /\ rmMachines' = {} /\ rmHealthy' = {} /\ rmFirst' = {}
RmIdle == rmPc' = "idle" /\ rmTodo' = {} /\ RmNoScale

(* Only while every node runs the latest revision. *)
RmStart ==
    /\ rmPc = "idle"
    /\ stale = {}
    /\ MachineAPI
    /\ rmPc' = "gate"
    /\ UNCHANGED <<rmTodo, rmScaleVars, etcdVars, machineVars, endpoints,
                   rolloutVars, cmcVars, hkVars, epVars>>

(* isEtcdEndpointsUpdated: the live voters are the ones in the configmap. *)
RmGate ==
    /\ rmPc = "gate"
    /\ HasQuorum
    /\ IF Voters = endpoints
         THEN rmPc' = "orphans" /\ rmTodo' = endpoints /\ UNCHANGED rmScaleVars
         ELSE RmIdle
    /\ UNCHANGED <<etcdVars, machineVars, endpoints, rolloutVars, cmcVars,
                   hkVars, epVars>>

(* removeMemberWithoutMachine, one endpoint: a member that has neither machine
   nor node is removed when it is unhealthy.  An error ends the loop. *)
RmOrphan(n) ==
    \/ /\ Exists(n) \/ (HasQuorum /\ n \notin Members)
       /\ Keep
       /\ rmTodo' = rmTodo \ {n} /\ UNCHANGED rmPc
    \/ /\ ~Exists(n) /\ HasQuorum /\ n \in Members /\ Healthy(n)
       /\ Keep
       /\ rmPc' = "learners" /\ rmTodo' = {}
    \/ /\ ~Exists(n) /\ n \in Members /\ ~Healthy(n)
       /\ \/ MemberRemove(n, TRUE) /\ rmTodo' = rmTodo \ {n} /\ UNCHANGED rmPc
          \/ MemberRemove(n, FALSE) /\ rmPc' = "learners" /\ rmTodo' = {}

RmOrphans ==
    /\ rmPc = "orphans"
    /\ \/ rmTodo = {} /\ rmPc' = "learners" /\ UNCHANGED rmTodo /\ Keep
       \/ \E n \in rmTodo : RmOrphan(n)
    /\ UNCHANGED <<rmScaleVars, machineVars, endpoints, rolloutVars, hkVars,
                   epVars>>

(* attemptToRemoveLearningMember: the learners whose machine, with its hook,
   is pending deletion. *)
RmLearners ==
    /\ rmPc = "learners"
    /\ HasQuorum
    /\ rmTodo' = {n \in Learners : hook[n] /\ Deleting(n)}
    /\ rmPc' = "rmLearner"
    /\ UNCHANGED <<rmScaleVars, etcdVars, machineVars, endpoints, rolloutVars,
                   cmcVars, hkVars, epVars>>

RmLearner ==
    /\ rmPc = "rmLearner"
    /\ \/ rmTodo = {} /\ rmPc' = "scale" /\ UNCHANGED rmTodo /\ Keep
       \/ \E n \in rmTodo, ok \in BOOLEAN :
            MemberRemove(n, ok) /\ rmTodo' = rmTodo \ {n} /\ UNCHANGED rmPc
    /\ UNCHANGED <<rmScaleVars, machineVars, endpoints, rolloutVars, hkVars,
                   epVars>>

(* Mutant: the machines are not filtered by their deletion timestamp. *)
RmScaleAnyMachine ==
    /\ rmPc = "scale"
    /\ HasQuorum
    /\ LET withHook == {n \in Voters : Exists(n) /\ hook[n]}
       IN  IF Cardinality(Voters) < Desired \/ withHook = {}
             THEN RmIdle
             ELSE /\ rmPc' = "healthy" /\ rmTodo' = withHook
                  /\ rmLive' = Voters /\ rmMachines' = withHook
                  /\ UNCHANGED <<rmHealthy, rmFirst>>
    /\ UNCHANGED <<etcdVars, machineVars, endpoints, rolloutVars, cmcVars,
                   hkVars, epVars>>

(* attemptToScaleDown, up to the machines: at least the desired number of
   voters, and a voter whose machine, with its hook, is pending deletion. *)
RmScale ==
    /\ rmPc = "scale"
    /\ HasQuorum
    /\ LET withHook == {n \in Voters : Exists(n) /\ hook[n]}
           pending == {n \in withHook : Deleting(n)}
       IN  IF Cardinality(Voters) < Desired \/ pending = {}
             THEN RmIdle
             ELSE /\ rmPc' = "healthy" /\ rmTodo' = pending
                  /\ rmLive' = Voters /\ rmMachines' = withHook
                  /\ UNCHANGED <<rmHealthy, rmFirst>>
    /\ UNCHANGED <<etcdVars, machineVars, endpoints, rolloutVars, cmcVars,
                   hkVars, epVars>>

(* The scaling down invariant: enough healthy voters for the desired size. *)
RmHealthy ==
    /\ rmPc = "healthy"
    /\ HasQuorum
    /\ IF Cardinality(HealthyVotingMembers) < MinimumTolerableQuorum(Desired)
         THEN RmIdle
         ELSE /\ rmPc' = "unhealthy" /\ rmHealthy' = HealthyVotingMembers
              /\ UNCHANGED <<rmTodo, rmLive, rmMachines, rmFirst>>
    /\ UNCHANGED <<etcdVars, machineVars, endpoints, rolloutVars, cmcVars,
                   hkVars, epVars>>

(* Mutant: one voter more than desired does not count as oversized. *)
RmUnhealthyOffByOne ==
    /\ rmPc = "unhealthy"
    /\ HasQuorum
    /\ LET doomed == UnhealthyMembers \cap rmTodo
       IN  IF \/ UnhealthyMembers # {} /\ doomed = {}
              \/ rmLive = rmHealthy /\ Cardinality(rmHealthy) <= Desired + 1
             THEN RmIdle
             ELSE /\ rmPc' = "remove" /\ rmFirst' = doomed
                  /\ UNCHANGED <<rmTodo, rmLive, rmMachines, rmHealthy>>
    /\ UNCHANGED <<etcdVars, machineVars, endpoints, rolloutVars, cmcVars,
                   hkVars, epVars>>

(* A second health check, then the decision: with unhealthy members one of
   them must be pending deletion; with none the cluster must be oversized. *)
RmUnhealthy ==
    /\ rmPc = "unhealthy"
    /\ HasQuorum
    /\ LET doomed == UnhealthyMembers \cap rmTodo
       IN  IF \/ UnhealthyMembers # {} /\ doomed = {}
              \/ rmLive = rmHealthy /\ Cardinality(rmHealthy) <= Desired
             THEN RmIdle
             ELSE /\ rmPc' = "remove" /\ rmFirst' = doomed
                  /\ UNCHANGED <<rmTodo, rmLive, rmMachines, rmHealthy>>
    /\ UNCHANGED <<etcdVars, machineVars, endpoints, rolloutVars, cmcVars,
                   hkVars, epVars>>

(* machineFailureDomainCountByIndex, and the order it sorts candidates in. *)
DomainCount(n) ==
    Cardinality({m \in rmMachines : FailureDomain[m] = FailureDomain[n]})

NextToRemove ==
    IF rmFirst # {} THEN rmFirst
    ELSE {n \in rmTodo : \A m \in rmTodo : DomainCount(n) >= DomainCount(m)}

(* Mutant: the loop goes on after a member has been removed. *)
RmRemoveAll ==
    /\ rmPc = "remove"
    /\ \/ rmFirst = {} /\ rmTodo = {} /\ RmIdle /\ Keep
       \/ \E n \in NextToRemove, ok \in BOOLEAN :
            /\ MemberRemove(n, ok)
            /\ rmFirst' = rmFirst \ {n} /\ rmTodo' = rmTodo \ {n}
            /\ UNCHANGED <<rmPc, rmLive, rmMachines, rmHealthy>>
    /\ UNCHANGED <<machineVars, endpoints, rolloutVars, hkVars, epVars>>

(* attemptToRemoveMemberFor each candidate, unhealthy ones first, until one is
   removed; a failed removal moves on to the next candidate. *)
RmRemove ==
    /\ rmPc = "remove"
    /\ \/ rmFirst = {} /\ rmTodo = {} /\ RmIdle /\ Keep
       \/ \E n \in NextToRemove :
            \/ MemberRemove(n, TRUE) /\ RmIdle
            \/ /\ MemberRemove(n, FALSE)
               /\ IF rmFirst # {}
                    THEN rmFirst' = rmFirst \ {n} /\ UNCHANGED rmTodo
                    ELSE rmTodo' = rmTodo \ {n} /\ UNCHANGED rmFirst
               /\ UNCHANGED <<rmPc, rmLive, rmMachines, rmHealthy>>
    /\ UNCHANGED <<machineVars, endpoints, rolloutVars, hkVars, epVars>>

(* A failed read: the three parts of the sync are tried one after the other,
   whatever became of the earlier ones. *)
RmError ==
    /\ CallFails
    /\ \/ rmPc = "orphans" /\ rmPc' = "learners" /\ rmTodo' = {}
          /\ UNCHANGED rmScaleVars
       \/ rmPc = "learners" /\ rmPc' = "scale" /\ UNCHANGED <<rmTodo, rmScaleVars>>
       \/ rmPc \in {"gate", "scale", "healthy", "unhealthy"} /\ RmIdle
    /\ UNCHANGED <<etcdVars, machineVars, endpoints, rolloutVars, cmcVars,
                   hkVars, epVars>>

Rm == RmStart \/ RmGate \/ RmOrphans \/ RmLearners \/ RmLearner \/ RmScale
      \/ RmHealthy \/ RmUnhealthy \/ RmRemove \/ RmError

-----------------------------------------------------------------------------
(* MachineDeletionHooksController.sync *)

HkIdle == hkPc' = "idle" /\ hkTodo' = {}

(* addDeletionHookToMasterMachines: every running machine that lacks the hook
   gets it (an Update that fails is left for the next sync); then the machines
   pending deletion that still carry it are collected. *)
HkSync ==
    /\ hkPc = "idle"
    /\ MachineAPI
    /\ LET lacking == {n \in Nodes : machine[n] = "running" /\ ~hook[n]}
       IN  \E S \in SUBSET lacking :
             /\ S # lacking => Faults
             /\ hook' = [n \in Nodes |-> hook[n] \/ n \in S]
    /\ LET pending == {n \in Nodes : Deleting(n) /\ hook[n]}
       IN  /\ hkTodo' = pending
           /\ hkPc' = IF pending = {} THEN "idle" ELSE "members"
    /\ UNCHANGED <<etcdVars, machine, endpoints, rolloutVars, cmcVars, rmVars,
                   epVars>>

(* Mutant: the members are taken from the configmap. *)
HkMembersOfEndpoints ==
    /\ hkPc = "members"
    /\ HasQuorum
    /\ hkTodo' = hkTodo \ endpoints
    /\ hkPc' = IF hkTodo \subseteq endpoints THEN "idle" ELSE "release"
    /\ UNCHANGED <<etcdVars, machineVars, endpoints, rolloutVars, cmcVars, rmVars,
                   epVars>>

(* attemptToDeleteMachineDeletionHook: a live member list, learners included. *)
HkMembers ==
    /\ hkPc = "members"
    /\ HasQuorum
    /\ hkTodo' = hkTodo \ Members
    /\ hkPc' = IF hkTodo \subseteq Members THEN "idle" ELSE "release"
    /\ UNCHANGED <<etcdVars, machineVars, endpoints, rolloutVars, cmcVars, rmVars,
                   epVars>>

(* One Update, which the API server refuses if the machine has changed. *)
HkRelease ==
    /\ hkPc = "release"
    /\ \E n \in hkTodo :
         IF Deleting(n) /\ hook[n]
           THEN /\ hook' = [hook EXCEPT ![n] = FALSE]
                /\ hkTodo' = hkTodo \ {n}
                /\ hkPc' = IF hkTodo = {n} THEN "idle" ELSE "release"
           ELSE HkIdle /\ UNCHANGED hook
    /\ UNCHANGED <<etcdVars, machine, endpoints, rolloutVars, cmcVars, rmVars,
                   epVars>>

HkError ==
    /\ \/ hkPc = "members" /\ CallFails
       \/ hkPc = "release" /\ Faults
    /\ HkIdle
    /\ UNCHANGED <<etcdVars, machineVars, endpoints, rolloutVars, cmcVars, rmVars,
                   epVars>>

Hk == HkSync \/ HkMembers \/ HkRelease \/ HkError

-----------------------------------------------------------------------------
(* EtcdEndpointsController.syncConfigMap *)

(* Mutant: the learners are not filtered out. *)
EpReadLearnersToo ==
    /\ epPc = "idle"
    /\ HasQuorum
    /\ Members # endpoints /\ Members # {}
    /\ epPc' = "write" /\ epSnap' = Members
    /\ UNCHANGED <<etcdVars, machineVars, endpoints, rolloutVars, cmcVars, rmVars,
                   hkVars>>

(* The addresses of the voters.  A list that equals the configmap is written back
   without effect and left out. *)
EpRead ==
    /\ epPc = "idle"
    /\ HasQuorum
    /\ Voters # endpoints /\ Voters # {}
    /\ epPc' = "write" /\ epSnap' = Voters
    /\ UNCHANGED <<etcdVars, machineVars, endpoints, rolloutVars, cmcVars, rmVars,
                   hkVars>>

EpWrite ==
    /\ epPc = "write"
    /\ epPc' = "idle" /\ epSnap' = {}
    /\ endpoints' = epSnap \/ (Faults /\ UNCHANGED endpoints)
    /\ UNCHANGED <<etcdVars, machineVars, rolloutVars, cmcVars, rmVars, hkVars>>

Ep == EpRead \/ EpWrite

-----------------------------------------------------------------------------
(* The rollout of revisions, as far as the controllers above see it. *)

(* CachedMembers.refresh: the report the quorum checker reads is fetched again
   when it is more than a minute old and someone asks. *)
RefreshHealth ==
    /\ Rollouts
    /\ HasQuorum
    /\ cachedSafe' = HealthAllowsRollout(Members, Members \ UnhealthyMembers)
    /\ UNCHANGED <<revised, stale, installing, superseded, etcdVars, machineVars,
                   endpoints, cmcVars, rmVars, hkVars, epVars>>

(* IsSafeToUpdateRevision, the precondition of creating a revision: always true
   while a rollout is under way. *)
SafeToScale == stale # {} \/ cachedSafe

(* The API server that stores the revision needs etcd's quorum. *)
CreateRevision ==
    /\ Rollouts
    /\ endpoints # revised
    /\ HasQuorum /\ SafeToScale
    /\ revised' = endpoints
    /\ stale' = {n \in Nodes : Exists(n)}
    /\ superseded' = (installing # NoNode)
    /\ UNCHANGED <<installing, cachedSafe, etcdVars, machineVars,
                   endpoints, cmcVars, rmVars, hkVars, epVars>>

(* The installer works on one node at a time, on unready nodes first, and moves
   the node it works on to a newer revision before any other; the new static
   pod replaces the running one. *)
InstallStart(n) ==
    /\ \/ installing = NoNode /\ (n \in Serving => stale \subseteq Serving)
       \/ installing = n /\ superseded
    /\ n \in stale
    /\ installing' = n /\ superseded' = FALSE
    /\ proc' = [proc EXCEPT ![n] = "waiting"]
    /\ UNCHANGED <<revised, stale, cachedSafe, member, started,
                   late, machineVars, endpoints, cmcVars, rmVars, hkVars, epVars>>

(* The node is at the latest revision once its static pod is ready. *)
InstallDone(n) ==
    /\ installing = n /\ ~superseded
    /\ proc[n] = "serving"
    /\ installing' = NoNode /\ stale' = stale \ {n}
    /\ UNCHANGED <<revised, superseded, cachedSafe, etcdVars, machineVars,
                   endpoints, cmcVars, rmVars, hkVars, epVars>>

Rollout == \/ RefreshHealth \/ CreateRevision
           \/ \E n \in Nodes : InstallStart(n) \/ InstallDone(n)

-----------------------------------------------------------------------------
(* Machines, hosts, etcd processes and requests in flight. *)

(* A new control plane machine comes up; its node has no revision yet. *)
CreateMachine(n) ==
    /\ machine[n] = "absent"
    /\ machine' = [machine EXCEPT ![n] = "running"]
    /\ IF Rollouts THEN stale' = stale \cup {n} /\ UNCHANGED proc
                   ELSE proc' = [proc EXCEPT ![n] = "waiting"] /\ UNCHANGED stale
    /\ UNCHANGED <<member, started, late, hook, endpoints, revised, installing,
                   superseded, cachedSafe, cmcVars, rmVars, hkVars, epVars>>

DeleteMachine(n) ==
    /\ n \in Deletable
    /\ machine[n] = "running"
    /\ machine' = [machine EXCEPT ![n] = "deleting"]
    /\ UNCHANGED <<etcdVars, hook, endpoints, rolloutVars, cmcVars, rmVars, hkVars,
                   epVars>>

(* The machine, its node object and its host go away. *)
Vanish(n) ==
    /\ machine' = [machine EXCEPT ![n] = "gone"]
    /\ hook' = [hook EXCEPT ![n] = FALSE]
    /\ proc' = [proc EXCEPT ![n] = "off"]
    /\ stale' = stale \ {n}
    /\ installing' = IF installing = n THEN NoNode ELSE installing
    /\ superseded' = (superseded /\ installing # n)
    /\ UNCHANGED <<member, started, late, endpoints, revised, cachedSafe, cmcVars,
                   rmVars, hkVars, epVars>>

(* The Machine API finishes a deletion that no PreDrain hook holds back. *)
DrainMachine(n) == Deleting(n) /\ ~hook[n] /\ Vanish(n)

Down == {n \in Members : n \notin Serving}

(* The machine is lost without the Machine API's deletion protocol. *)
LoseMachine(n) ==
    /\ n \in Losable /\ Exists(n)
    /\ Cardinality(Down \ {n}) < MaxDown
    /\ Vanish(n)

Crash(n) ==
    /\ n \in Members \cap Serving
    /\ Cardinality(Down) < MaxDown
    /\ proc' = [proc EXCEPT ![n] = "waiting"]
    /\ UNCHANGED <<member, started, late, machineVars, endpoints, rolloutVars,
                   cmcVars, rmVars, hkVars, epVars>>

(* The etcd container finds itself in the member list and starts serving. *)
Join(n) ==
    /\ n \in Members
    /\ proc[n] = "waiting"
    /\ ~started[n] => HasQuorum
    /\ proc' = [proc EXCEPT ![n] = "serving"]
    /\ started' = [started EXCEPT ![n] = TRUE]
    /\ UNCHANGED <<member, late, machineVars, endpoints, rolloutVars, cmcVars,
                   rmVars, hkVars, epVars>>

(* A request whose caller has given up is applied after all, or is lost. *)
ApplyLate(op) ==
    LET n == op[2]
    IN  /\ HasQuorum
        /\ \/ /\ op[1] = "add" /\ member[n] = "none" /\ AddLearner(n)
              /\ late' = late \ {op} /\ UNCHANGED <<proc, cmcVars, rmTodo>>
           \/ /\ op[1] = "promote" /\ member[n] = "learner" /\ Promote(n)
              /\ late' = late \ {op} /\ UNCHANGED <<proc, cmcVars, rmTodo>>
           \/ /\ op[1] = "remove" /\ n \in Members /\ Remove(n) /\ Forget(n)
              /\ rmTodo' = IF rmPc = "rmLearner" THEN rmTodo \ {n} ELSE rmTodo

DropLate(op) ==
    /\ late' = late \ {op}
    /\ UNCHANGED <<member, started, proc, cmcVars, rmTodo>>

Late ==
    /\ \E op \in late : ApplyLate(op) \/ DropLate(op)
    /\ UNCHANGED <<machineVars, endpoints, rolloutVars, rmPc, rmScaleVars, hkVars,
                   epVars>>

(* The operator's process dies; its successor starts every sync afresh. *)
RestartOperator ==
    /\ Faults
    /\ CmcIdle /\ RmIdle /\ HkIdle /\ epPc' = "idle" /\ epSnap' = {}
    /\ UNCHANGED <<etcdVars, machineVars, endpoints, rolloutVars>>

Environment ==
    \/ \E n \in Nodes : \/ CreateMachine(n) \/ DeleteMachine(n) \/ DrainMachine(n)
                        \/ LoseMachine(n) \/ Crash(n) \/ Join(n)
    \/ Late
    \/ RestartOperator

Next == Cmc \/ Rm \/ Hk \/ Ep \/ Rollout \/ Environment

Spec == Init /\ [][Next]_vars

-----------------------------------------------------------------------------
(* Fairness: the factory requeues a failed sync and resyncs every controller
   periodically, kubelet restarts containers, the Machine API finishes what it
   has begun.  Deletions, losses, crashes and faults are never forced. *)
Fairness ==
    /\ WF_vars(Cmc) /\ WF_vars(Rm) /\ WF_vars(Hk) /\ WF_vars(Ep)
    /\ WF_vars(Rollout)
    /\ WF_vars(\E n \in Nodes : CreateMachine(n) \/ DrainMachine(n))
    /\ \A n \in Nodes : WF_vars(Join(n))

FairSpec == Spec /\ Fairness

-----------------------------------------------------------------------------
(* Properties *)

(* No two members of the cluster are unstarted at once: getEtcdPeerURLToAdd
   must not add a node while another added one has not joined, or the two
   disagree about the initial cluster.  Holds while no reply is lost. *)
AtMostOneUnstarted == \A m, n \in Unstarted : m = n

(* A machine that hosts a voting member is held by the PreDrain hook: the hooks
   controller never lets the Machine API destroy a voter's host, whatever the
   promotion of a learner and the release of its machine race to. *)
VoterKeepsHook == MachineAPI => \A n \in Voters : Exists(n) => hook[n]

(* API servers never read the address of a learner from etcd-endpoints: not of
   a new one, and not of a removed voter that is added back as a learner. *)
EndpointsExcludeLearners == endpoints \cap Learners = {}

(* A member is removed only when its machine is pending deletion or gone, at
   the time of the removal and not just when the sync looked. *)
RemovesOnlyCondemned ==
    [][\A n \in Members \ Members' : machine[n] \in {"deleting", "gone"}]_vars

(* Scaling down leaves at most one voter fewer than desired, also when the same
   sync has just removed members without a machine. *)
ScaleDownFloor ==
    [][rmPc = "remove" /\ Voters \ Voters' # {}
         => Cardinality(Voters') >= Desired - 1]_vars

(* With at most one member down and no rollout taking down another, no change of
   the membership that a controller makes turns a cluster with quorum into one
   without. *)
QuorumKept == [][member' # member /\ HasQuorum => HasQuorum']_vars

(* A machine pending deletion goes away in the end: its member is replaced and
   removed, its hook is released. *)
DeletedMachinesLeave == \A n \in Deletable : Deleting(n) ~> machine[n] = "gone"

(* A new control plane machine ends up hosting a voter, unless it is deleted. *)
NewMachinesVote ==
    \A n \in Nodes \ InitVoters :
        machine[n] = "running" ~> n \in Voters \/ machine[n] # "running"

=============================================================================
