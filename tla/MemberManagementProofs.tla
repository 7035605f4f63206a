----------------------- MODULE MemberManagementProofs -----------------------
(***************************************************************************)
(* Proofs about MemberManagement, for every set of nodes, every desired    *)
(* size and every bound on faults: TypeOK, RemovesOnlyCondemned and        *)
(* VoterKeepsHook, and, as long as no reply of etcd is lost,               *)
(* AtMostOneUnstarted, EndpointsExcludeLearners and ScaleDownFloor.        *)
(***************************************************************************)
EXTENDS MemberManagement, FiniteSetTheorems, TLAPS

(* The type invariant: every step of every controller, of the rollout and of
   the environment keeps the variables in their types. *)
LEMMA TypeInit == Init => TypeOK
<1> SUFFICES ASSUME Init PROVE TypeOK
  OBVIOUS
<1>1. superseded \in BOOLEAN /\ cachedSafe \in BOOLEAN
  BY DEF Init, HealthAllowsRollout
<1>2. QED
  BY <1>1, NodesAssumption, ManagementAssumption DEF Init, TypeOK

(* The steps of ClusterMemberController. *)
LEMMA TypeCmc == ASSUME TypeOK, Cmc PROVE TypeOK'
<1> USE NodesAssumption DEF TypeOK, Ops, etcdVars, machineVars, rolloutVars, rmVars,
            rmScaleVars, hkVars, epVars, CmcIdle
<1>1. CASE CmcStart
  BY <1>1 DEF CmcStart
<1>2. CASE CmcPick
  BY <1>2 DEF CmcPick
<1>3. CASE CmcAdd
  <2>1. /\ member' \in [Nodes -> {"none", "learner", "voter"}]
        /\ started' \in [Nodes -> BOOLEAN]
    BY <1>3 DEF CmcAdd, AddLearner
  <2>2. late' \subseteq Ops
    <3>1. ASSUME CanAddLearner(cmcCand) PROVE <<"add", cmcCand>> \in Ops
      BY <3>1 DEF CanAddLearner
    <3>2. QED
      BY <1>3, <3>1 DEF CmcAdd, TimeOut
  <2>3. QED
    BY <1>3, <2>1, <2>2 DEF CmcAdd
<1>4. CASE CmcList
  BY <1>4 DEF CmcList, Learners
<1>5. CASE CmcCheck
  BY <1>5 DEF CmcCheck, CmcNext
<1>6. CASE CmcPromote
  BY <1>6 DEF CmcPromote, CanPromote, Learners, Promote, TimeOut, CmcNext
<1>7. CASE CmcError
  BY <1>7 DEF CmcError
<1>8. QED
  BY <1>1, <1>2, <1>3, <1>4, <1>5, <1>6, <1>7 DEF Cmc

(* A MemberRemove, whatever its outcome. *)
LEMMA TypeRemove ==
  ASSUME TypeOK, NEW n \in Nodes, NEW ok, MemberRemove(n, ok)
  PROVE  /\ member' \in [Nodes -> {"none", "learner", "voter"}]
         /\ started' \in [Nodes -> BOOLEAN]
         /\ proc' \in [Nodes -> {"off", "waiting", "serving"}]
         /\ late' \subseteq Ops
         /\ cmcPc' = cmcPc
         /\ cmcCand' \in Nodes \cup {NoNode} /\ cmcTodo' \subseteq Nodes
<1>1. CASE CanRemove(n) /\ Remove(n) /\ Forget(n)
  BY <1>1 DEF TypeOK, Remove, Forget
<1>2. CASE Keep
  BY <1>2 DEF TypeOK, Keep, etcdVars, cmcVars
<1>3. CASE TimeOut(<<"remove", n>>) /\ UNCHANGED <<member, started, proc, cmcVars>>
  BY <1>3 DEF TypeOK, Ops, TimeOut, cmcVars
<1>4. QED
  BY <1>1, <1>2, <1>3 DEF MemberRemove

(* The steps of ClusterMemberRemovalController. *)
LEMMA TypeRm == ASSUME TypeOK, Rm PROVE TypeOK'
<1> USE DEF TypeOK, machineVars, rolloutVars, rmVars, rmScaleVars, hkVars,
            epVars, RmIdle, RmNoScale
<1>k. ASSUME Keep
      PROVE  /\ member' = member /\ started' = started /\ proc' = proc
             /\ late' = late /\ cmcPc' = cmcPc /\ cmcCand' = cmcCand
             /\ cmcTodo' = cmcTodo
  BY <1>k DEF Keep, etcdVars, cmcVars
<1>1. CASE RmStart
  BY <1>1 DEF RmStart, etcdVars, cmcVars
<1>2. CASE RmGate
  BY <1>2 DEF RmGate, etcdVars, cmcVars
<1>3. CASE RmOrphans
  <2>1. CASE rmTodo = {} /\ rmPc' = "learners" /\ UNCHANGED rmTodo /\ Keep
    BY <1>3, <1>k, <2>1 DEF RmOrphans
  <2>2. ASSUME NEW n \in rmTodo, RmOrphan(n) PROVE TypeOK'
    <3>1. n \in Nodes
      OBVIOUS
    <3>2. CASE Keep
      BY <1>3, <1>k, <2>2, <3>2 DEF RmOrphans, RmOrphan
    <3>3. CASE \E ok \in BOOLEAN : MemberRemove(n, ok)
      BY <1>3, <2>2, <3>1, <3>3, TypeRemove DEF RmOrphans, RmOrphan
    <3>4. QED
      BY <2>2, <3>2, <3>3 DEF RmOrphan
  <2>3. QED
    BY <1>3, <2>1, <2>2 DEF RmOrphans
<1>4. CASE RmLearners
  BY <1>4 DEF RmLearners, Learners, etcdVars, cmcVars
<1>5. CASE RmLearner
  <2>1. CASE rmTodo = {} /\ rmPc' = "scale" /\ UNCHANGED rmTodo /\ Keep
    BY <1>5, <1>k, <2>1 DEF RmLearner
  <2>2. ASSUME NEW n \in rmTodo, NEW ok \in BOOLEAN,
               MemberRemove(n, ok), rmTodo' = rmTodo \ {n}, UNCHANGED rmPc
        PROVE  TypeOK'
    BY <1>5, <2>2, TypeRemove DEF RmLearner
  <2>3. QED
    BY <1>5, <2>1, <2>2 DEF RmLearner
<1>6. CASE RmScale
  BY <1>6 DEF RmScale, Voters, etcdVars, cmcVars
<1>7. CASE RmHealthy
  BY <1>7 DEF RmHealthy, HealthyVotingMembers, Voters, etcdVars, cmcVars
<1>8. CASE RmUnhealthy
  BY <1>8 DEF RmUnhealthy, etcdVars, cmcVars
<1>9. CASE RmRemove
  <2>1. CASE rmFirst = {} /\ rmTodo = {} /\ RmIdle /\ Keep
    BY <1>9, <1>k, <2>1 DEF RmRemove
  <2>2. ASSUME NEW n \in NextToRemove, NEW ok \in BOOLEAN, MemberRemove(n, ok)
        PROVE  TypeOK'
    <3>1. n \in Nodes
      BY DEF NextToRemove
    <3>2. QED
      BY <1>9, <2>2, <3>1, TypeRemove DEF RmRemove
  <2>3. QED
    BY <1>9, <2>1, <2>2 DEF RmRemove
<1>10. CASE RmError
  BY <1>10 DEF RmError, etcdVars, cmcVars
<1>11. QED
  BY <1>1, <1>2, <1>3, <1>4, <1>5, <1>6, <1>7, <1>8, <1>9, <1>10 DEF Rm

(* The steps of the machine deletion hooks and the etcd endpoints controllers. *)
LEMMA TypeHkEp == ASSUME TypeOK, Hk \/ Ep PROVE TypeOK'
<1> USE DEF TypeOK, etcdVars, machineVars, rolloutVars, cmcVars, rmVars,
            rmScaleVars, hkVars, epVars, HkIdle
<1>1. CASE HkSync
  BY <1>1 DEF HkSync
<1>2. CASE HkMembers
  BY <1>2 DEF HkMembers
<1>3. CASE HkRelease
  BY <1>3 DEF HkRelease
<1>4. CASE HkError
  BY <1>4 DEF HkError
<1>5. CASE EpRead
  BY <1>5 DEF EpRead, Voters
<1>6. CASE EpWrite
  BY <1>6 DEF EpWrite
<1>7. QED
  BY <1>1, <1>2, <1>3, <1>4, <1>5, <1>6 DEF Hk, Ep

(* The steps of the revision controller and the installer. *)
LEMMA TypeRollout == ASSUME TypeOK, Rollout PROVE TypeOK'
<1> USE DEF TypeOK, etcdVars, machineVars, rolloutVars, cmcVars, rmVars,
            rmScaleVars, hkVars, epVars
<1>1. CASE CreateRevision
  BY <1>1 DEF CreateRevision
<1>2. ASSUME NEW n \in Nodes, InstallStart(n) PROVE TypeOK'
  BY <1>2 DEF InstallStart
<1>3. ASSUME NEW n \in Nodes, InstallDone(n) PROVE TypeOK'
  BY <1>3 DEF InstallDone
<1>4. CASE RefreshHealth
  BY <1>4 DEF RefreshHealth, HealthAllowsRollout
<1>5. QED
  BY <1>1, <1>2, <1>3, <1>4 DEF Rollout

(* A request in flight is applied or lost. *)
LEMMA TypeLate == ASSUME TypeOK, Late PROVE TypeOK'
<1> USE DEF TypeOK, machineVars, rolloutVars, cmcVars, rmVars, rmScaleVars, hkVars,
            epVars
<1>1. PICK op \in late : ApplyLate(op) \/ DropLate(op)
  BY DEF Late
<1>2. op[2] \in Nodes
  BY DEF Ops
<1>3. UNCHANGED <<machineVars, endpoints, rolloutVars, rmPc, rmScaleVars, hkVars,
                  epVars>>
  BY DEF Late
<1>4. CASE AddLearner(op[2]) /\ late' = late \ {op} /\ UNCHANGED <<proc, cmcVars, rmTodo>>
  BY <1>2, <1>3, <1>4 DEF AddLearner
<1>5. CASE Promote(op[2]) /\ late' = late \ {op} /\ UNCHANGED <<proc, cmcVars, rmTodo>>
  BY <1>2, <1>3, <1>5 DEF Promote
<1>6. CASE /\ Remove(op[2]) /\ Forget(op[2])
           /\ rmTodo' = IF rmPc = "rmLearner" THEN rmTodo \ {op[2]} ELSE rmTodo
  BY <1>2, <1>3, <1>6 DEF Remove, Forget
<1>7. CASE DropLate(op)
  BY <1>3, <1>7 DEF DropLate
<1>8. QED
  BY <1>1, <1>4, <1>5, <1>6, <1>7 DEF ApplyLate

(* Machines, hosts, etcd processes and a restart of the operator. *)
LEMMA TypeEnvironment == ASSUME TypeOK, Environment PROVE TypeOK'
<1> USE DEF TypeOK, etcdVars, machineVars, rolloutVars, cmcVars, rmVars,
            rmScaleVars, hkVars, epVars
<1>1. ASSUME NEW n \in Nodes, CreateMachine(n) PROVE TypeOK'
  BY <1>1 DEF CreateMachine
<1>2. ASSUME NEW n \in Nodes, DeleteMachine(n) PROVE TypeOK'
  BY <1>2 DEF DeleteMachine
<1>3. ASSUME NEW n \in Nodes, Vanish(n) PROVE TypeOK'
  BY <1>3 DEF Vanish
<1>4. ASSUME NEW n \in Nodes, Crash(n) PROVE TypeOK'
  BY <1>4 DEF Crash
<1>5. ASSUME NEW n \in Nodes, Join(n) PROVE TypeOK'
  BY <1>5 DEF Join
<1>6. CASE RestartOperator
  BY <1>6 DEF RestartOperator, CmcIdle, RmIdle, RmNoScale, HkIdle
<1>7. QED
  BY <1>1, <1>2, <1>3, <1>4, <1>5, <1>6, TypeLate
  DEF Environment, DrainMachine, LoseMachine

(* TypeOK: every reachable state is well typed, whatever the number of nodes,
   the desired size and the bounds on faults. *)
THEOREM TypeCorrect == Spec => []TypeOK
<1>1. TypeOK /\ [Next]_vars => TypeOK'
  <2> SUFFICES ASSUME TypeOK, [Next]_vars PROVE TypeOK'
    OBVIOUS
  <2>1. CASE Next
    BY <2>1, TypeCmc, TypeRm, TypeHkEp, TypeRollout, TypeEnvironment DEF Next
  <2>2. CASE UNCHANGED vars
    BY <2>2 DEF TypeOK, vars, etcdVars, machineVars, rolloutVars, cmcVars,
                rmVars, rmScaleVars, hkVars, epVars
  <2>3. QED
    BY <2>1, <2>2
<1>2. QED
  BY <1>1, TypeInit, PTL DEF Spec

-----------------------------------------------------------------------------
(* Safety. *)

Condemned(n) == machine[n] \in {"deleting", "gone"}

(* n is a member, or a request to add it is decided or in flight. *)
Known(n) ==
    n \in Members \/ <<"add", n>> \in late \/ (cmcPc = "add" /\ cmcCand = n)

(* What no machine ever was is no member: nodes are added after they exist. *)
KnownHadMachine == \A n \in Nodes : Known(n) => machine[n] # "absent"

(* Everything the removal controller has decided to remove, or has asked etcd
   to, is condemned, and condemned machines stay so. *)
RemovalsCondemned ==
    /\ rmPc \in {"rmLearner", "healthy", "unhealthy", "remove"}
         => \A n \in rmTodo : Condemned(n)
    /\ \A n \in rmFirst : Condemned(n)
    /\ \A n \in Nodes : <<"remove", n>> \in late => Condemned(n)

CondemnedInv == KnownHadMachine /\ RemovalsCondemned

(* n votes, or will without another look at its machine. *)
Promotable(n) ==
    n \in Voters \/ <<"promote", n>> \in late \/ (cmcPc = "rpc" /\ cmcCand = n)

(* What may vote is a member and holds its machine; what the hooks controller
   is about to release can no longer become a voter. *)
HookInv ==
    MachineAPI =>
      /\ \A n \in Nodes : Promotable(n) => n \in Members /\ (Exists(n) => hook[n])
      /\ cmcTodo \subseteq Members
      /\ hkPc # "idle" => \A n \in hkTodo : Condemned(n)
      /\ hkPc = "release" => \A n \in hkTodo : ~Promotable(n)

(* Between the check that all members are started and the addition of the next
   one, nobody else adds a member. *)
UnstartedInv ==
    MaxLate = 0 =>
      /\ late = {}
      /\ cmcPc \in {"pick", "add"} => Unstarted = {}
      /\ AtMostOneUnstarted

(* An address in the configmap, or about to be written to it, is that of a voter
   or of a member that was removed and can never be added again. *)
EndpointsInv ==
    MaxLate = 0 =>
      /\ late = {}
      /\ ~MachineAPI => rmPc = "idle"
      /\ \A n \in endpoints \cup epSnap :
           n \in Voters \/ (MachineAPI /\ n \notin Members /\ Condemned(n))
      /\ cmcPc = "add" => cmcCand \notin Members \cup endpoints \cup epSnap

(* From the listing of the voters to the removal of one, nobody but the removal
   controller itself takes voters away. *)
FloorInv ==
    MaxLate = 0 =>
      /\ late = {}
      /\ rmPc \in {"healthy", "unhealthy", "remove"}
           => rmLive \subseteq Voters /\ Cardinality(rmLive) >= Desired

-----------------------------------------------------------------------------
(* Members, what is known and machines, step by step. *)

(* A removal takes at most the named member out of every set and leaves at most
   one request, its own, in flight. *)
LEMMA RemoveEffect ==
  ASSUME TypeOK, NEW n \in Nodes, NEW ok \in BOOLEAN, MemberRemove(n, ok)
  PROVE  /\ ok => member' = [member EXCEPT ![n] = "none"]
         /\ ok => started' = [started EXCEPT ![n] = FALSE]
         /\ ok => <<"promote", n>> \notin late' /\ n \notin cmcTodo'
         /\ ok => ~(cmcPc' = "rpc" /\ cmcCand' = n)
         /\ ~ok => member' = member /\ started' = started /\ cmcCand' = cmcCand
         /\ late' \subseteq late \cup {<<"remove", n>>}
         /\ ok => late' \subseteq late
         /\ late' # {} => late # {} \/ Cardinality(late) < MaxLate
         /\ cmcPc' = cmcPc
         /\ cmcCand' = cmcCand \/ (cmcPc = "rpc" /\ cmcCand' = NoNode)
         /\ cmcTodo' \subseteq cmcTodo
<1>1. CASE ok /\ CanRemove(n) /\ Remove(n) /\ Forget(n)
  BY <1>1, NodesAssumption DEF TypeOK, Remove, Forget
<1>2. CASE ~ok /\ Keep
  BY <1>2 DEF Keep, etcdVars, cmcVars
<1>3. CASE ~ok /\ TimeOut(<<"remove", n>>) /\ UNCHANGED <<member, started, proc, cmcVars>>
  BY <1>3 DEF TimeOut, cmcVars
<1>4. QED
  BY <1>1, <1>2, <1>3 DEF MemberRemove

(* In an installed cluster every member has a machine and nothing is in flight. *)
LEMMA CondemnedInit == Init => CondemnedInv
  BY NodesAssumption, ManagementAssumption
  DEF Init, CondemnedInv, KnownHadMachine, RemovalsCondemned, Known, Members, Ops

(* ClusterMemberController adds only nodes that have a machine and removes none. *)
LEMMA CondemnedCmc == ASSUME TypeOK, CondemnedInv, Cmc PROVE CondemnedInv'
<1> USE NodesAssumption DEF TypeOK, CondemnedInv, KnownHadMachine, RemovalsCondemned,
            Known, Members, Condemned, etcdVars, machineVars, rmVars, rmScaleVars, CmcIdle
<1>1. CASE CmcStart
  BY <1>1 DEF CmcStart
<1>2. CASE CmcPick
  BY <1>2 DEF CmcPick, Addable, Exists
<1>3. CASE CmcAdd
  <2>1. KnownHadMachine'
    BY <1>3 DEF CmcAdd, CanAddLearner, AddLearner, TimeOut
  <2>2. RemovalsCondemned'
    BY <1>3 DEF CmcAdd, TimeOut
  <2>3. QED
    BY <2>1, <2>2
<1>4. CASE CmcList
  BY <1>4 DEF CmcList
<1>5. CASE CmcCheck
  BY <1>5 DEF CmcCheck, CmcNext
<1>6. CASE CmcPromote
  <2>1. KnownHadMachine'
    BY <1>6 DEF CmcPromote, CanPromote, Learners, Promote, TimeOut, CmcNext
  <2>2. RemovalsCondemned'
    BY <1>6 DEF CmcPromote, TimeOut
  <2>3. QED
    BY <2>1, <2>2
<1>7. CASE CmcError
  BY <1>7 DEF CmcError
<1>8. QED
  BY <1>1, <1>2, <1>3, <1>4, <1>5, <1>6, <1>7 DEF Cmc

(* What ClusterMemberRemovalController sets out to remove has lost its machine or
   is losing it. *)
LEMMA CondemnedRm == ASSUME TypeOK, CondemnedInv, Rm PROVE CondemnedInv'
<1> USE DEF TypeOK, machineVars, rmScaleVars, RmIdle, RmNoScale
<1>m. machine' = machine
  BY DEF Rm, RmStart, RmGate, RmOrphans, RmLearners, RmLearner, RmScale, RmHealthy,
         RmUnhealthy, RmRemove, RmError
<1>k. ASSUME Keep \/ UNCHANGED <<etcdVars, cmcVars>>
      PROVE  KnownHadMachine' /\ late' = late
  BY <1>k, <1>m DEF CondemnedInv, KnownHadMachine, Known, Members, Keep, etcdVars, cmcVars
<1>r. ASSUME NEW n \in Nodes, NEW ok \in BOOLEAN, MemberRemove(n, ok), Condemned(n)
      PROVE  /\ KnownHadMachine'
             /\ \A m \in Nodes : <<"remove", m>> \in late' => Condemned(m)
  BY <1>m, <1>r, RemoveEffect, NodesAssumption
  DEF CondemnedInv, KnownHadMachine, RemovalsCondemned, Known, Members
<1> USE <1>m DEF CondemnedInv, RemovalsCondemned, Condemned
<1>1. CASE RmStart
  BY <1>1, <1>k DEF RmStart
<1>2. CASE RmGate
  BY <1>2, <1>k DEF RmGate
<1>3. CASE RmOrphans
  <2>1. CASE rmTodo = {} /\ rmPc' = "learners" /\ UNCHANGED rmTodo /\ Keep
    BY <1>3, <1>k, <2>1 DEF RmOrphans
  <2>2. ASSUME NEW n \in rmTodo, RmOrphan(n) PROVE CondemnedInv'
    <3>1. CASE Keep
      BY <1>3, <1>k, <2>2, <3>1 DEF RmOrphans, RmOrphan
    <3>2. ASSUME NEW ok \in BOOLEAN, MemberRemove(n, ok), ~Exists(n), n \in Members
          PROVE  CondemnedInv'
      <4>1. n \in Nodes /\ Condemned(n)
        BY <3>2 DEF KnownHadMachine, Known, Exists
      <4>2. QED
        BY <1>3, <1>r, <2>2, <3>2, <4>1 DEF RmOrphans, RmOrphan
    <3>3. QED
      BY <2>2, <3>1, <3>2 DEF RmOrphan
  <2>3. QED
    BY <1>3, <2>1, <2>2 DEF RmOrphans
<1>4. CASE RmLearners
  BY <1>4, <1>k DEF RmLearners, Deleting
<1>5. CASE RmLearner
  <2>1. CASE rmTodo = {} /\ rmPc' = "scale" /\ UNCHANGED rmTodo /\ Keep
    BY <1>5, <1>k, <2>1 DEF RmLearner
  <2>2. ASSUME NEW n \in rmTodo, NEW ok \in BOOLEAN,
               MemberRemove(n, ok), rmTodo' = rmTodo \ {n}, UNCHANGED rmPc
        PROVE  CondemnedInv'
    BY <1>5, <1>r, <2>2 DEF RmLearner
  <2>3. QED
    BY <1>5, <2>1, <2>2 DEF RmLearner
<1>6. CASE RmScale
  BY <1>6, <1>k DEF RmScale, Deleting
<1>7. CASE RmHealthy
  BY <1>7, <1>k DEF RmHealthy
<1>8. CASE RmUnhealthy
  BY <1>8, <1>k DEF RmUnhealthy
<1>9. CASE RmRemove
  <2>1. CASE rmFirst = {} /\ rmTodo = {} /\ RmIdle /\ Keep
    BY <1>9, <1>k, <2>1 DEF RmRemove
  <2>2. ASSUME NEW n \in NextToRemove, NEW ok \in BOOLEAN, MemberRemove(n, ok),
               \/ RmIdle
               \/ /\ IF rmFirst # {}
                       THEN rmFirst' = rmFirst \ {n} /\ UNCHANGED rmTodo
                       ELSE rmTodo' = rmTodo \ {n} /\ UNCHANGED rmFirst
                  /\ UNCHANGED <<rmPc, rmLive, rmMachines, rmHealthy>>
        PROVE  CondemnedInv'
    <3>1. n \in Nodes /\ Condemned(n)
      BY <1>9 DEF NextToRemove, RmRemove
    <3>2. QED
      BY <1>9, <1>r, <2>2, <3>1
  <2>3. QED
    BY <1>9, <2>1, <2>2 DEF RmRemove
<1>10. CASE RmError
  BY <1>10, <1>k DEF RmError
<1>11. QED
  BY <1>1, <1>2, <1>3, <1>4, <1>5, <1>6, <1>7, <1>8, <1>9, <1>10 DEF Rm

(* Steps that leave the membership and both controllers of it alone. *)
Apart ==
    /\ UNCHANGED <<member, late, cmcPc, cmcCand, cmcTodo, rmPc, rmTodo, rmFirst>>
    /\ \A n \in Nodes : machine'[n] # machine[n]
                          => Condemned(n)' \/ machine[n] = "absent"
    /\ \A n \in Nodes : Condemned(n) => Condemned(n)'
    /\ \A n \in Nodes : machine[n] # "absent" => machine'[n] # "absent"

(* The steps that only touch machines, processes and the other controllers. *)
LEMMA ApartSteps ==
  ASSUME TypeOK, \/ Hk \/ Ep \/ Rollout
                 \/ \E n \in Nodes : \/ CreateMachine(n) \/ DeleteMachine(n)
                                     \/ (Vanish(n) /\ Exists(n)) \/ Crash(n) \/ Join(n)
  PROVE  Apart
<1> USE DEF TypeOK, Apart, Condemned, etcdVars, machineVars, cmcVars, rmVars, rmScaleVars
<1>1. CASE Hk
  BY <1>1 DEF Hk, HkSync, HkMembers, HkRelease, HkError
<1>2. CASE Ep
  BY <1>2 DEF Ep, EpRead, EpWrite
<1>3. CASE Rollout
  BY <1>3 DEF Rollout, RefreshHealth, CreateRevision, InstallStart, InstallDone
<1>4. ASSUME NEW n \in Nodes, CreateMachine(n) PROVE Apart
  BY <1>4 DEF CreateMachine
<1>5. ASSUME NEW n \in Nodes, DeleteMachine(n) PROVE Apart
  BY <1>5 DEF DeleteMachine
<1>6. ASSUME NEW n \in Nodes, Vanish(n), Exists(n) PROVE Apart
  BY <1>6 DEF Vanish, Exists
<1>7. ASSUME NEW n \in Nodes, Crash(n) \/ Join(n) PROVE Apart
  BY <1>7 DEF Crash, Join
<1>8. QED
  BY <1>1, <1>2, <1>3, <1>4, <1>5, <1>6, <1>7

(* Steps apart from membership never save a condemned machine. *)
LEMMA CondemnedApart == ASSUME TypeOK, CondemnedInv, Apart PROVE CondemnedInv'
  BY DEF TypeOK, Apart, CondemnedInv, KnownHadMachine, RemovalsCondemned, Known, Members

(* The three ways a request in flight is applied, and its loss. *)
LEMMA LateCases ==
  ASSUME TypeOK, Late
  PROVE  \E op \in late :
           /\ op[2] \in Nodes /\ op = <<op[1], op[2]>>
           /\ \/ /\ op[1] = "add" /\ member[op[2]] = "none" /\ AddLearner(op[2])
                 /\ late' = late \ {op} /\ UNCHANGED <<proc, cmcVars, rmTodo>>
              \/ /\ op[1] = "promote" /\ member[op[2]] = "learner" /\ Promote(op[2])
                 /\ late' = late \ {op} /\ UNCHANGED <<proc, cmcVars, rmTodo>>
              \/ /\ op[1] = "remove" /\ Remove(op[2]) /\ Forget(op[2])
                 /\ rmTodo' \subseteq rmTodo
              \/ DropLate(op)
<1>1. PICK op \in late : ApplyLate(op) \/ DropLate(op)
  BY DEF Late
<1>2. op[2] \in Nodes /\ op = <<op[1], op[2]>>
  BY DEF TypeOK, Ops
<1>3. QED
  BY <1>1, <1>2 DEF ApplyLate

(* A request that is applied late is one that a controller made. *)
LEMMA CondemnedLate == ASSUME TypeOK, CondemnedInv, Late PROVE CondemnedInv'
<1> USE NodesAssumption DEF TypeOK, CondemnedInv, KnownHadMachine, RemovalsCondemned,
            Known, Members, Condemned, machineVars, rmScaleVars
<1>1. UNCHANGED <<machine, rmPc, rmFirst>>
  BY DEF Late
<1>2. PICK op \in late :
        /\ op[2] \in Nodes /\ op = <<op[1], op[2]>>
        /\ \/ /\ op[1] = "add" /\ member[op[2]] = "none" /\ AddLearner(op[2])
              /\ late' = late \ {op} /\ UNCHANGED <<proc, cmcVars, rmTodo>>
           \/ /\ op[1] = "promote" /\ member[op[2]] = "learner" /\ Promote(op[2])
              /\ late' = late \ {op} /\ UNCHANGED <<proc, cmcVars, rmTodo>>
           \/ /\ op[1] = "remove" /\ Remove(op[2]) /\ Forget(op[2])
              /\ rmTodo' \subseteq rmTodo
           \/ DropLate(op)
  BY LateCases
<1>3. CASE op[1] = "add" /\ AddLearner(op[2]) /\ late' = late \ {op}
             /\ UNCHANGED <<proc, cmcVars, rmTodo>>
  BY <1>1, <1>2, <1>3 DEF AddLearner, cmcVars
<1>4. CASE op[1] = "promote" /\ member[op[2]] = "learner" /\ Promote(op[2])
             /\ late' = late \ {op} /\ UNCHANGED <<proc, cmcVars, rmTodo>>
  BY <1>1, <1>2, <1>4 DEF Promote, cmcVars
<1>5. CASE Remove(op[2]) /\ Forget(op[2]) /\ rmTodo' \subseteq rmTodo
  BY <1>1, <1>2, <1>5 DEF Remove, Forget
<1>6. CASE DropLate(op)
  BY <1>1, <1>6 DEF DropLate, cmcVars
<1>7. QED
  BY <1>2, <1>3, <1>4, <1>5, <1>6

(* Every step keeps CondemnedInv. *)
LEMMA CondemnedStep == TypeOK /\ CondemnedInv /\ [Next]_vars => CondemnedInv'
<1> SUFFICES ASSUME TypeOK, CondemnedInv, [Next]_vars PROVE CondemnedInv'
  OBVIOUS
<1>1. CASE Cmc \/ Rm \/ Late
  BY <1>1, CondemnedCmc, CondemnedRm, CondemnedLate
<1>2. CASE \/ Hk \/ Ep \/ Rollout
           \/ \E n \in Nodes : \/ CreateMachine(n) \/ DeleteMachine(n)
                               \/ (Vanish(n) /\ Exists(n)) \/ Crash(n) \/ Join(n)
  BY <1>2, ApartSteps, CondemnedApart
<1>3. CASE RestartOperator
  BY <1>3, NodesAssumption
  DEF RestartOperator, CmcIdle, RmIdle, RmNoScale, TypeOK, CondemnedInv, Known,
      KnownHadMachine, RemovalsCondemned, Members, Condemned, etcdVars, machineVars
<1>4. CASE UNCHANGED vars
  BY <1>4 DEF vars, etcdVars, machineVars, cmcVars, rmVars, rmScaleVars, CondemnedInv,
              Known, KnownHadMachine, RemovalsCondemned, Members, Condemned
<1>5. QED
  BY <1>1, <1>2, <1>3, <1>4
  DEF Next, Environment, DrainMachine, LoseMachine, Deleting, Exists

(* CondemnedInv is an invariant: every removal that is under way, in a controller or
   in flight, names a member whose machine is pending deletion or gone. *)
THEOREM CondemnedInvariant == Spec => []CondemnedInv
  BY CondemnedInit, CondemnedStep, TypeCorrect, PTL DEF Spec

(* Under the invariant a step that shrinks the membership removes a condemned one. *)
LEMMA OnlyCondemnedLeave ==
  ASSUME TypeOK, CondemnedInv, Next, NEW n \in Members, n \notin Members'
  PROVE  Condemned(n)
<1> USE DEF TypeOK, Members
<1>1. CASE Cmc
  BY <1>1 DEF Cmc, CmcStart, CmcPick, CmcAdd, CmcList, CmcCheck, CmcPromote, CmcError,
              AddLearner, Promote, etcdVars
<1>2. CASE Rm
  <2>1. ASSUME NEW m \in Nodes, NEW ok \in BOOLEAN, MemberRemove(m, ok) PROVE m = n
    <3>1. member' = member \/ member' = [member EXCEPT ![m] = "none"]
      BY <2>1 DEF MemberRemove, Remove, Keep, etcdVars
    <3>2. QED
      BY <3>1
  <2>2. CASE RmOrphans
    <3>1. ASSUME NEW m \in rmTodo, RmOrphan(m) PROVE Condemned(n)
      <4>1. m = n
        BY <2>1, <3>1 DEF RmOrphan, Keep, etcdVars
      <4>2. QED
        BY <3>1, <4>1 DEF RmOrphan, Keep, etcdVars, CondemnedInv, KnownHadMachine,
                          Known, Exists, Condemned
    <3>2. QED
      BY <2>2, <3>1 DEF RmOrphans, Keep, etcdVars
  <2>3. CASE RmLearner
    BY <2>1, <2>3 DEF RmLearner, Keep, etcdVars, CondemnedInv, RemovalsCondemned
  <2>4. CASE RmRemove
    <3>1. \A m \in NextToRemove : m \in Nodes /\ Condemned(m)
      BY <2>4 DEF RmRemove, NextToRemove, CondemnedInv, RemovalsCondemned
    <3>2. QED
      BY <2>1, <2>4, <3>1 DEF RmRemove, Keep, etcdVars
  <2>5. QED
    BY <1>2, <2>2, <2>3, <2>4 DEF Rm, RmStart, RmGate, RmLearners, RmScale, RmHealthy,
                                  RmUnhealthy, RmError, etcdVars
<1>3. CASE Late
  <2>1. PICK op \in late :
          /\ op[2] \in Nodes /\ op = <<op[1], op[2]>>
          /\ \/ AddLearner(op[2]) \/ Promote(op[2])
             \/ op[1] = "remove" /\ Remove(op[2])
             \/ DropLate(op)
    BY <1>3, LateCases
  <2>2. QED
    BY <2>1 DEF AddLearner, Promote, Remove, DropLate, CondemnedInv, RemovalsCondemned
<1>4. CASE \/ Hk \/ Ep \/ Rollout \/ RestartOperator
           \/ \E m \in Nodes : \/ CreateMachine(m) \/ DeleteMachine(m)
                               \/ (Vanish(m) /\ Exists(m)) \/ Crash(m) \/ Join(m)
  BY <1>4, ApartSteps DEF Apart, RestartOperator, etcdVars
<1>5. QED
  BY <1>1, <1>2, <1>3, <1>4
  DEF Next, Environment, DrainMachine, LoseMachine, Deleting, Exists

(* RemovesOnlyCondemned: however long ago a removal was decided, and even if etcd
   applies it after the controller gave up on it, the member's machine is pending
   deletion or gone when it leaves. *)
THEOREM RemovesCondemnedOnly == Spec => RemovesOnlyCondemned
<1>1. TypeOK /\ CondemnedInv /\ [Next]_vars
        => [\A n \in Members \ Members' : machine[n] \in {"deleting", "gone"}]_vars
  <2> SUFFICES ASSUME TypeOK, CondemnedInv, Next
               PROVE  \A n \in Members \ Members' : machine[n] \in {"deleting", "gone"}
    OBVIOUS
  <2>1. QED
    BY OnlyCondemnedLeave DEF Condemned
<1>2. QED
  BY <1>1, TypeCorrect, CondemnedInvariant, PTL DEF Spec, RemovesOnlyCondemned

-----------------------------------------------------------------------------
(* The PreDrain hook of a voter's machine. *)

(* In an installed cluster every machine carries the hook. *)
LEMMA HookInit == Init => HookInv
  BY NodesAssumption, ManagementAssumption
  DEF Init, HookInv, Promotable, Members, Voters, Exists

(* ClusterMemberController promotes only learners whose machine it saw with the
   hook and not pending deletion. *)
LEMMA HookCmc == ASSUME TypeOK, HookInv, Cmc PROVE HookInv'
<1> SUFFICES ASSUME MachineAPI PROVE HookInv'
  BY DEF HookInv
<1> USE NodesAssumption DEF TypeOK, HookInv, Promotable, Members, Voters, Exists,
            Condemned, etcdVars, machineVars, hkVars, CmcIdle
<1>1. CASE CmcStart
  BY <1>1 DEF CmcStart
<1>2. CASE CmcPick
  BY <1>2 DEF CmcPick
<1>3. CASE CmcAdd
  BY <1>3 DEF CmcAdd, CanAddLearner, AddLearner, TimeOut
<1>4. CASE CmcList
  BY <1>4 DEF CmcList, Learners
<1>5. CASE CmcCheck
  <2>1. CASE cmcTodo = {} /\ CmcIdle
    BY <1>5, <2>1 DEF CmcCheck
  <2>2. ASSUME NEW n \in cmcTodo, ShouldPromote(n), cmcPc' = "rpc", cmcCand' = n,
               cmcTodo' = cmcTodo \ {n}
        PROVE  HookInv'
    BY <1>5, <2>2 DEF CmcCheck, ShouldPromote, Deleting
  <2>3. ASSUME NEW n \in cmcTodo, CmcNext(cmcTodo \ {n}) PROVE HookInv'
    BY <1>5, <2>3 DEF CmcCheck, CmcNext
  <2>4. QED
    BY <1>5, <2>1, <2>2, <2>3 DEF CmcCheck
<1>6. CASE CmcPromote
  <2>1. UNCHANGED <<machine, hook, hkPc, hkTodo>>
    BY <1>6 DEF CmcPromote
  <2>2. \A n \in Nodes : n \in Members => n \in Members'
    BY <1>6 DEF CmcPromote, Promote
  <2>3. \A n \in Nodes : Promotable(n)' => Promotable(n)
    <3>1. ~(cmcPc' = "rpc")
      BY <1>6 DEF CmcPromote, CmcNext
    <3>2. ASSUME NEW n \in Nodes, n \in Voters' PROVE n \in Voters \/ cmcCand = n
      BY <1>6, <3>2 DEF CmcPromote, Promote
    <3>3. ASSUME NEW n \in Nodes, <<"promote", n>> \in late'
          PROVE  <<"promote", n>> \in late \/ cmcCand = n
      BY <1>6, <3>3 DEF CmcPromote, TimeOut
    <3>4. QED
      BY <1>6, <3>1, <3>2, <3>3 DEF CmcPromote
  <2>4. cmcTodo' \subseteq cmcTodo
    BY <1>6 DEF CmcPromote, CmcNext
  <2>5. QED
    BY <2>1, <2>2, <2>3, <2>4
<1>7. CASE CmcError
  BY <1>7 DEF CmcError
<1>8. QED
  BY <1>1, <1>2, <1>3, <1>4, <1>5, <1>6, <1>7 DEF Cmc

(* What only shrinks the membership and what waits for promotion is harmless. *)
LEMMA HookShrink ==
  ASSUME TypeOK, HookInv, UNCHANGED <<machine, hook, hkPc, hkTodo>>,
         \A n \in Nodes : Promotable(n)' => Promotable(n),
         \A n \in Nodes : Promotable(n)' => n \in Members',
         cmcTodo' \subseteq cmcTodo \cap Members'
  PROVE  HookInv'
  BY DEF TypeOK, HookInv, Exists, Condemned

(* A removal takes voters away and adds none. *)
LEMMA HookRemove ==
  ASSUME TypeOK, HookInv, MachineAPI, NEW n \in Nodes, NEW ok \in BOOLEAN, MemberRemove(n, ok)
  PROVE  /\ \A m \in Nodes : Promotable(m)' => Promotable(m)
         /\ \A m \in Nodes : Promotable(m)' => m \in Members'
         /\ cmcTodo' \subseteq cmcTodo \cap Members'
<1> USE NodesAssumption DEF TypeOK, HookInv, Promotable, Members, Voters
<1>1. CASE CanRemove(n) /\ Remove(n) /\ Forget(n)
  BY <1>1 DEF Remove, Forget
<1>2. CASE Keep
  BY <1>2 DEF Keep, etcdVars, cmcVars
<1>3. CASE TimeOut(<<"remove", n>>) /\ UNCHANGED <<member, started, proc, cmcVars>>
  BY <1>3 DEF TimeOut, cmcVars
<1>4. QED
  BY <1>1, <1>2, <1>3 DEF MemberRemove

(* ClusterMemberRemovalController makes no voters and releases no hook. *)
LEMMA HookRm == ASSUME TypeOK, HookInv, Rm PROVE HookInv'
<1> SUFFICES ASSUME MachineAPI PROVE HookInv'
  BY DEF HookInv
<1>1. UNCHANGED <<machine, hook, hkPc, hkTodo>>
  BY DEF Rm, RmStart, RmGate, RmOrphans, RmLearners, RmLearner, RmScale, RmHealthy,
         RmUnhealthy, RmRemove, RmError, machineVars, hkVars
<1>2. CASE Keep \/ UNCHANGED <<etcdVars, cmcVars>>
  BY <1>1, <1>2 DEF Keep, etcdVars, cmcVars, HookInv, Promotable, Members, Voters,
                    Exists, Condemned
<1>3. ASSUME NEW n \in Nodes, NEW ok \in BOOLEAN, MemberRemove(n, ok) PROVE HookInv'
  BY <1>1, <1>3, HookRemove, HookShrink
<1>4. \A n \in rmTodo \cup NextToRemove : n \in Nodes
  BY DEF TypeOK, NextToRemove
<1>5. QED
  BY <1>2, <1>3, <1>4
  DEF Rm, RmStart, RmGate, RmOrphans, RmOrphan, RmLearners, RmLearner, RmScale,
      RmHealthy, RmUnhealthy, RmRemove, RmError

(* MachineDeletionHooksController releases only machines that had no member when it
   listed them, and that cannot have become voters since. *)
LEMMA HookHk == ASSUME TypeOK, HookInv, Hk PROVE HookInv'
<1> SUFFICES ASSUME MachineAPI PROVE HookInv'
  BY DEF HookInv
<1> USE DEF TypeOK, HookInv, Promotable, Members, Voters, Exists, Condemned, etcdVars,
            machineVars, cmcVars, HkIdle
<1>1. CASE HkSync
  BY <1>1 DEF HkSync, Deleting
<1>2. CASE HkMembers
  BY <1>2 DEF HkMembers
<1>3. CASE HkRelease
  BY <1>3 DEF HkRelease
<1>4. CASE HkError
  BY <1>4 DEF HkError
<1>5. QED
  BY <1>1, <1>2, <1>3, <1>4 DEF Hk

(* A promotion that is applied late is of a learner that was promotable. *)
LEMMA HookLate == ASSUME TypeOK, HookInv, Late PROVE HookInv'
<1> SUFFICES ASSUME MachineAPI PROVE HookInv'
  BY DEF HookInv
<1>1. UNCHANGED <<machine, hook, hkPc, hkTodo>>
  BY DEF Late, machineVars, hkVars
<1>2. PICK op \in late :
        /\ op[2] \in Nodes /\ op = <<op[1], op[2]>>
        /\ \/ /\ op[1] = "add" /\ member[op[2]] = "none" /\ AddLearner(op[2])
              /\ late' = late \ {op} /\ UNCHANGED <<proc, cmcVars, rmTodo>>
           \/ /\ op[1] = "promote" /\ member[op[2]] = "learner" /\ Promote(op[2])
              /\ late' = late \ {op} /\ UNCHANGED <<proc, cmcVars, rmTodo>>
           \/ /\ op[1] = "remove" /\ Remove(op[2]) /\ Forget(op[2])
              /\ rmTodo' \subseteq rmTodo
           \/ DropLate(op)
  BY LateCases
<1>3. /\ \A m \in Nodes : Promotable(m)' => Promotable(m)
      /\ \A m \in Nodes : Promotable(m)' => m \in Members'
      /\ cmcTodo' \subseteq cmcTodo \cap Members'
  <2> USE NodesAssumption DEF TypeOK, HookInv, Promotable, Members, Voters, cmcVars
  <2>1. CASE AddLearner(op[2]) /\ late' = late \ {op} /\ UNCHANGED <<proc, cmcVars, rmTodo>>
               /\ member[op[2]] = "none"
    BY <1>2, <2>1 DEF AddLearner
  <2>2. CASE op[1] = "promote" /\ member[op[2]] = "learner" /\ Promote(op[2])
               /\ late' = late \ {op} /\ UNCHANGED <<proc, cmcVars, rmTodo>>
    BY <1>2, <2>2 DEF Promote
  <2>3. CASE Remove(op[2]) /\ Forget(op[2])
    BY <1>2, <2>3 DEF Remove, Forget
  <2>4. CASE DropLate(op)
    BY <2>4 DEF DropLate
  <2>5. QED
    BY <1>2, <2>1, <2>2, <2>3, <2>4
<1>4. QED
  BY <1>1, <1>3, HookShrink

(* New, deleted and vanishing machines. *)
LEMMA HookMachines ==
  ASSUME TypeOK, HookInv, CondemnedInv,
         NEW n \in Nodes, \/ CreateMachine(n) \/ DeleteMachine(n)
                          \/ Vanish(n) \/ Crash(n) \/ Join(n)
  PROVE  HookInv'
<1> SUFFICES ASSUME MachineAPI PROVE HookInv'
  BY DEF HookInv
<1> USE DEF TypeOK, HookInv, Promotable, Members, Voters, Exists, Condemned, etcdVars,
            machineVars, cmcVars, hkVars
<1>1. CASE CreateMachine(n)
  <2>1. n \notin Members
    BY <1>1 DEF CreateMachine, CondemnedInv, KnownHadMachine, Known
  <2>2. QED
    BY <1>1, <2>1 DEF CreateMachine
<1>2. CASE DeleteMachine(n)
  BY <1>2 DEF DeleteMachine
<1>3. CASE Vanish(n)
  BY <1>3 DEF Vanish
<1>4. CASE Crash(n) \/ Join(n)
  BY <1>4 DEF Crash, Join
<1>5. QED
  BY <1>1, <1>2, <1>3, <1>4

(* Every step keeps HookInv. *)
LEMMA HookStep == TypeOK /\ CondemnedInv /\ HookInv /\ [Next]_vars => HookInv'
<1> SUFFICES ASSUME TypeOK, CondemnedInv, HookInv, [Next]_vars PROVE HookInv'
  OBVIOUS
<1>1. CASE Cmc \/ Rm \/ Hk \/ Late
  BY <1>1, HookCmc, HookRm, HookHk, HookLate
<1>2. CASE Ep \/ Rollout \/ UNCHANGED vars
  <2>1. UNCHANGED <<member, late, cmcPc, cmcCand, cmcTodo, machine, hook, hkPc, hkTodo>>
    BY <1>2 DEF Ep, EpRead, EpWrite, Rollout, RefreshHealth, CreateRevision,
                InstallStart, InstallDone,
                vars, etcdVars, machineVars, cmcVars, hkVars
  <2>2. QED
    BY <2>1 DEF HookInv, Promotable, Members, Voters, Exists, Condemned
<1>3. CASE \E n \in Nodes : \/ CreateMachine(n) \/ DeleteMachine(n) \/ Vanish(n)
                            \/ Crash(n) \/ Join(n)
  BY <1>3, HookMachines
<1>4. CASE RestartOperator
  BY <1>4, NodesAssumption
  DEF RestartOperator, CmcIdle, HkIdle, TypeOK, HookInv, Promotable, Members, Voters,
      Exists, Condemned, etcdVars, machineVars
<1>5. QED
  BY <1>1, <1>2, <1>3, <1>4 DEF Next, Environment, DrainMachine, LoseMachine

(* VoterKeepsHook: the hooks controller and a promotion, each acting on what it
   read before, never leave a voter on a machine that the Machine API may drain. *)
THEOREM VotersKeepHook == Spec => []VoterKeepsHook
<1>1. HookInv => VoterKeepsHook
  BY DEF HookInv, VoterKeepsHook, Promotable, Voters
<1>2. QED
  BY <1>1, HookInit, HookStep, TypeCorrect, CondemnedInvariant, PTL DEF Spec

-----------------------------------------------------------------------------
(* Additions, one at a time: the case that no reply is lost. *)

(* A refused or late answer is impossible without the slack for it. *)
LEMMA NothingLate ==
  ASSUME MaxLate = 0, late = {}, NEW op, TimeOut(op) PROVE FALSE
  BY FS_EmptySet DEF TimeOut

(* The members of an installed cluster have started. *)
LEMMA UnstartedInit == Init => UnstartedInv
  BY DEF Init, UnstartedInv, AtMostOneUnstarted, Unstarted, Members

(* Members join and leave; only the cluster member controller adds one. *)
LEMMA UnstartedShrink ==
  ASSUME UnstartedInv, MaxLate = 0, late' = {}, Unstarted' \subseteq Unstarted,
         cmcPc' \in {"pick", "add"} => cmcPc \in {"pick", "add"}
  PROVE  UnstartedInv'
  BY DEF UnstartedInv, AtMostOneUnstarted

(* ClusterMemberController adds a learner only after it saw every member started. *)
LEMMA UnstartedCmc == ASSUME TypeOK, UnstartedInv, MaxLate = 0, Cmc PROVE UnstartedInv'
<1> USE DEF UnstartedInv, AtMostOneUnstarted, Unstarted, Members, etcdVars, CmcIdle
<1>1. CASE CmcStart
  BY <1>1 DEF CmcStart, UnhealthyMembers, Healthy
<1>2. CASE CmcPick
  BY <1>2 DEF CmcPick
<1>3. CASE CmcAdd
  <2>1. late' = {} /\ cmcPc' = "list"
    BY <1>3, NothingLate DEF CmcAdd
  <2>2. CASE CanAddLearner(cmcCand) /\ AddLearner(cmcCand)
    <3>1. Unstarted' \subseteq {cmcCand}
      BY <1>3, <2>2 DEF CmcAdd, AddLearner, TypeOK
    <3>2. QED
      BY <2>1, <3>1
  <2>3. CASE UNCHANGED <<member, started>>
    BY <1>3, <2>1, <2>3 DEF CmcAdd
  <2>4. QED
    BY <1>3, <2>2, <2>3 DEF CmcAdd
<1>4. CASE CmcList
  BY <1>4 DEF CmcList
<1>5. CASE CmcCheck
  BY <1>5 DEF CmcCheck, CmcNext
<1>6. CASE CmcPromote
  <2>1. late' = {} /\ cmcPc' \in {"idle", "promote"}
    BY <1>6, NothingLate DEF CmcPromote, CmcNext
  <2>2. Unstarted' \subseteq Unstarted
    BY <1>6 DEF CmcPromote, Promote, CanPromote, Learners, TypeOK
  <2>3. QED
    BY <2>1, <2>2, UnstartedShrink
<1>7. CASE CmcError
  BY <1>7 DEF CmcError
<1>8. QED
  BY <1>1, <1>2, <1>3, <1>4, <1>5, <1>6, <1>7 DEF Cmc

(* A removal leaves no unstarted member behind that was not there. *)
LEMMA UnstartedRemove ==
  ASSUME TypeOK, UnstartedInv, MaxLate = 0, NEW n \in Nodes, NEW ok, MemberRemove(n, ok)
  PROVE  UnstartedInv'
<1> USE DEF UnstartedInv, Unstarted, Members
<1>1. CASE Remove(n) /\ Forget(n)
  BY <1>1, UnstartedShrink DEF Remove, Forget, TypeOK
<1>2. CASE Keep
  BY <1>2, UnstartedShrink DEF Keep, etcdVars, cmcVars
<1>3. QED
  BY <1>1, <1>2, NothingLate DEF MemberRemove

(* Every step keeps UnstartedInv. *)
LEMMA UnstartedStep == TypeOK /\ UnstartedInv /\ [Next]_vars => UnstartedInv'
<1> SUFFICES ASSUME TypeOK, UnstartedInv, [Next]_vars, MaxLate = 0 PROVE UnstartedInv'
  BY DEF UnstartedInv
<1>1. CASE Cmc
  BY <1>1, UnstartedCmc
<1>2. CASE UNCHANGED <<member, started, late, cmcPc>>
  BY <1>2 DEF UnstartedInv, AtMostOneUnstarted, Unstarted, Members
<1>3. CASE Rm
  <2>1. \A n \in rmTodo \cup NextToRemove : n \in Nodes
    BY DEF TypeOK, NextToRemove
  <2>2. QED
    BY <1>2, <1>3, <2>1, UnstartedRemove
    DEF Rm, RmStart, RmGate, RmOrphans, RmOrphan, RmLearners, RmLearner, RmScale,
        RmHealthy, RmUnhealthy, RmRemove, RmError, Keep, etcdVars, cmcVars
<1>4. CASE Hk \/ Ep \/ Rollout \/ UNCHANGED vars
  BY <1>2, <1>4
  DEF Hk, HkSync, HkMembers, HkRelease, HkError, Ep, EpRead, EpWrite, Rollout,
      RefreshHealth, CreateRevision, InstallStart, InstallDone, vars, etcdVars,
      cmcVars
<1>5. CASE Late
  BY <1>5 DEF Late, UnstartedInv
<1>6. CASE RestartOperator
  BY <1>6, UnstartedShrink
  DEF RestartOperator, CmcIdle, UnstartedInv, Unstarted, Members, etcdVars
<1>7. ASSUME NEW n \in Nodes, Join(n) PROVE UnstartedInv'
  BY <1>7, UnstartedShrink DEF Join, UnstartedInv, Unstarted, Members, TypeOK, cmcVars
<1>8. ASSUME NEW n \in Nodes, \/ CreateMachine(n) \/ DeleteMachine(n) \/ Vanish(n)
                              \/ Crash(n)
      PROVE  UnstartedInv'
  BY <1>2, <1>8 DEF CreateMachine, DeleteMachine, Vanish, Crash, etcdVars, cmcVars
<1>9. QED
  BY <1>1, <1>3, <1>4, <1>5, <1>6, <1>7, <1>8
  DEF Next, Environment, DrainMachine, LoseMachine

(* AtMostOneUnstarted, as long as every call to etcd is answered. *)
THEOREM OneUnstartedAtATime == Spec => [](MaxLate = 0 => AtMostOneUnstarted)
<1>1. UnstartedInv => (MaxLate = 0 => AtMostOneUnstarted)
  BY DEF UnstartedInv
<1>2. QED
  BY <1>1, UnstartedInit, UnstartedStep, TypeCorrect, PTL DEF Spec

-----------------------------------------------------------------------------
(* What the configmap may name: the case that no reply is lost. *)

(* The configmap of an installed cluster names its voters. *)
LEMMA EndpointsInit == Init => EndpointsInv
  BY NodesAssumption, ManagementAssumption DEF Init, EndpointsInv, Voters, Members

(* ClusterMemberController adds no node that was a voter before. *)
LEMMA EndpointsCmc ==
  ASSUME TypeOK, EndpointsInv, MaxLate = 0, Cmc PROVE EndpointsInv'
<1> USE NodesAssumption DEF TypeOK, EndpointsInv, Members, Voters, Condemned, etcdVars,
            machineVars, rmVars, epVars, CmcIdle
<1>1. CASE CmcStart \/ CmcList \/ CmcError
  BY <1>1 DEF CmcStart, CmcList, CmcError
<1>2. CASE CmcPick
  BY <1>2 DEF CmcPick, Addable
<1>3. CASE CmcAdd
  <2>1. late' = {}
    BY <1>3, NothingLate DEF CmcAdd
  <2>2. QED
    BY <1>3, <2>1 DEF CmcAdd, AddLearner
<1>4. CASE CmcCheck
  BY <1>4 DEF CmcCheck, CmcNext
<1>5. CASE CmcPromote
  <2>1. late' = {}
    BY <1>5, NothingLate DEF CmcPromote
  <2>2. QED
    BY <1>5, <2>1 DEF CmcPromote, CmcNext, Promote, CanPromote, Learners
<1>6. QED
  BY <1>1, <1>2, <1>3, <1>4, <1>5 DEF Cmc

(* ClusterMemberRemovalController turns nobody into a learner. *)
LEMMA EndpointsRm ==
  ASSUME TypeOK, CondemnedInv, EndpointsInv, MaxLate = 0, Rm PROVE EndpointsInv'
<1>1. UNCHANGED <<machine, endpoints, epSnap>>
  BY DEF Rm, RmStart, RmGate, RmOrphans, RmLearners, RmLearner, RmScale, RmHealthy,
         RmUnhealthy, RmRemove, RmError, machineVars, epVars
<1>2. MachineAPI
  BY DEF Rm, RmStart, RmGate, RmOrphans, RmLearners, RmLearner, RmScale, RmHealthy,
         RmUnhealthy, RmRemove, RmError, EndpointsInv
<1>3. ASSUME NEW n \in Nodes, NEW ok \in BOOLEAN, MemberRemove(n, ok)
      PROVE  /\ late' = {} /\ cmcPc' = cmcPc /\ (cmcPc = "add" => cmcCand' = cmcCand)
             /\ Members' \subseteq Members
             /\ \A m \in Voters : m \in Voters' \/ m \notin Members'
  <2> USE DEF TypeOK, Members, Voters
  <2>1. CASE Remove(n) /\ Forget(n)
    BY <2>1 DEF Remove, Forget, EndpointsInv
  <2>2. CASE Keep
    BY <2>2 DEF Keep, etcdVars, cmcVars, EndpointsInv
  <2>3. QED
    BY <1>3, <2>1, <2>2, NothingLate DEF MemberRemove, EndpointsInv
<1>4. \A n \in rmTodo \cup NextToRemove : n \in Nodes
  BY DEF TypeOK, NextToRemove
<1>5. /\ late' = {} /\ cmcPc' = cmcPc /\ (cmcPc = "add" => cmcCand' = cmcCand)
      /\ Members' \subseteq Members
      /\ \A m \in Voters : m \in Voters' \/ m \notin Members'
  <2>1. CASE UNCHANGED <<etcdVars, cmcVars>>
    BY <2>1 DEF etcdVars, cmcVars, EndpointsInv, Members, Voters
  <2>2. QED
    BY <1>3, <1>4, <2>1
    DEF Rm, RmStart, RmGate, RmOrphans, RmOrphan, RmLearners, RmLearner, RmScale,
        RmHealthy, RmUnhealthy, RmRemove, RmError, Keep
<1>6. \A n \in Members \ Members' : Condemned(n)
  BY OnlyCondemnedLeave DEF Next
<1>7. Voters \subseteq Members
  BY DEF Voters, Members
<1>8. QED
  BY <1>1, <1>2, <1>5, <1>6, <1>7 DEF EndpointsInv, Condemned

(* The steps apart from membership leave learners what they are. *)
LEMMA EndpointsApart ==
  ASSUME TypeOK, EndpointsInv, MaxLate = 0, Apart,
         epSnap' \subseteq epSnap \cup Voters, endpoints' \subseteq endpoints \cup epSnap
  PROVE  EndpointsInv'
  BY DEF TypeOK, EndpointsInv, Apart, Members, Voters

(* Every step keeps EndpointsInv. *)
LEMMA EndpointsStep ==
  TypeOK /\ CondemnedInv /\ EndpointsInv /\ [Next]_vars => EndpointsInv'
<1> SUFFICES ASSUME TypeOK, CondemnedInv, EndpointsInv, [Next]_vars, MaxLate = 0
             PROVE  EndpointsInv'
  BY DEF EndpointsInv
<1>1. CASE Cmc \/ Rm
  BY <1>1, EndpointsCmc, EndpointsRm
<1>2. CASE \/ Hk \/ Ep \/ Rollout
           \/ \E n \in Nodes : \/ CreateMachine(n) \/ DeleteMachine(n)
                               \/ (Vanish(n) /\ Exists(n)) \/ Crash(n) \/ Join(n)
  <2>1. epSnap' \subseteq epSnap \cup Voters /\ endpoints' \subseteq endpoints \cup epSnap
    BY <1>2 DEF Hk, HkSync, HkMembers, HkRelease, HkError, Ep, EpRead, EpWrite, Rollout,
                RefreshHealth, CreateRevision, InstallStart, InstallDone,
                CreateMachine, DeleteMachine,
                Vanish, Crash, Join, epVars
  <2>2. QED
    BY <1>2, <2>1, ApartSteps, EndpointsApart
<1>3. CASE Late
  BY <1>3 DEF Late, EndpointsInv
<1>4. CASE RestartOperator
  BY <1>4 DEF RestartOperator, CmcIdle, RmIdle, EndpointsInv, Members, Voters, Condemned,
              etcdVars, machineVars
<1>5. CASE UNCHANGED vars
  BY <1>5 DEF vars, etcdVars, machineVars, cmcVars, rmVars, epVars, EndpointsInv, Members,
              Voters, Condemned
<1>6. QED
  BY <1>1, <1>2, <1>3, <1>4, <1>5
  DEF Next, Environment, DrainMachine, LoseMachine, Deleting, Exists

(* EndpointsExcludeLearners, as long as every call to etcd is answered: the list
   written to the configmap may be out of date, but what it names too much has
   left for good. *)
THEOREM EndpointsNameNoLearner == Spec => [](MaxLate = 0 => EndpointsExcludeLearners)
<1>1. EndpointsInv => (MaxLate = 0 => EndpointsExcludeLearners)
  BY DEF EndpointsInv, EndpointsExcludeLearners, Members, Voters, Learners
<1>2. QED
  BY <1>1, EndpointsInit, EndpointsStep, TypeCorrect, CondemnedInvariant, PTL DEF Spec

-----------------------------------------------------------------------------
(* How far a scale-down goes: the case that no reply is lost. *)

(* No scale-down is under way in an installed cluster. *)
LEMMA FloorInit == Init => FloorInv
  BY DEF Init, FloorInv

(* ClusterMemberRemovalController counts the voters before it removes one. *)
LEMMA FloorRm == ASSUME TypeOK, FloorInv, MaxLate = 0, Rm PROVE FloorInv'
<1> USE DEF TypeOK, FloorInv, Voters, etcdVars, rmScaleVars, RmIdle
<1>1. ASSUME NEW n \in Nodes, NEW ok \in BOOLEAN, MemberRemove(n, ok)
      PROVE  late' = {} /\ (~ok => member' = member)
  BY <1>1, NothingLate DEF MemberRemove, Remove, Keep
<1>2. CASE \/ RmStart \/ RmGate \/ RmLearners \/ RmHealthy \/ RmUnhealthy \/ RmError
  BY <1>2 DEF RmStart, RmGate, RmLearners, RmHealthy, RmUnhealthy, RmError
<1>3. CASE RmScale
  <2>1. Cardinality(Voters) \in Nat
    <3>1. IsFiniteSet(Voters)
      BY NodesAssumption, FS_Subset
    <3>2. QED
      BY <3>1, FS_CardinalityType
  <2>2. ASSUME Cardinality(Voters) >= Desired, rmLive' = Voters, UNCHANGED <<member, late>>
        PROVE  FloorInv'
    BY <2>2
  <2>3. QED
    BY <1>3, <2>1, <2>2, ManagementAssumption DEF RmScale
<1>4. CASE RmOrphans \/ RmLearner
  BY <1>1, <1>4 DEF RmOrphans, RmOrphan, RmLearner, Keep
<1>5. CASE RmRemove
  <2>1. \A n \in NextToRemove : n \in Nodes
    BY DEF NextToRemove
  <2>2. QED
    BY <1>1, <1>5, <2>1 DEF RmRemove, Keep
<1>6. QED
  BY <1>2, <1>3, <1>4, <1>5 DEF Rm

(* Nobody else removes voters between the count and the removal. *)
LEMMA FloorStep == TypeOK /\ FloorInv /\ [Next]_vars => FloorInv'
<1> SUFFICES ASSUME TypeOK, FloorInv, [Next]_vars, MaxLate = 0 PROVE FloorInv'
  BY DEF FloorInv
<1>1. CASE Rm
  BY <1>1, FloorRm
<1>2. CASE Cmc
  <2>1. UNCHANGED <<rmPc, rmLive>>
    BY <1>2 DEF Cmc, CmcStart, CmcPick, CmcAdd, CmcList, CmcCheck, CmcPromote, CmcError,
                rmVars, rmScaleVars
  <2>2. late' = {}
    BY <1>2, NothingLate DEF FloorInv, Cmc, CmcStart, CmcPick, CmcAdd, CmcList, CmcCheck,
                             CmcPromote, CmcError, etcdVars
  <2>3. Voters \subseteq Voters'
    <3>1. CASE CmcAdd
      BY <3>1 DEF CmcAdd, CanAddLearner, AddLearner, Members, Voters, TypeOK
    <3>2. CASE CmcPromote
      BY <3>2 DEF CmcPromote, Promote, Voters, TypeOK
    <3>3. QED
      BY <1>2, <3>1, <3>2 DEF Cmc, CmcStart, CmcPick, CmcList, CmcCheck, CmcError, etcdVars,
                              Voters
  <2>4. QED
    BY <2>1, <2>2, <2>3 DEF FloorInv
<1>3. CASE UNCHANGED <<member, late, rmPc, rmLive>>
  BY <1>3 DEF FloorInv, Voters
<1>4. CASE Hk \/ Ep \/ Rollout \/ UNCHANGED vars
  BY <1>3, <1>4
  DEF Hk, HkSync, HkMembers, HkRelease, HkError, Ep, EpRead, EpWrite, Rollout,
      RefreshHealth, CreateRevision, InstallStart, InstallDone, vars, etcdVars,
      rmVars, rmScaleVars
<1>5. CASE Late
  BY <1>5 DEF Late, FloorInv
<1>6. CASE RestartOperator
  BY <1>6 DEF RestartOperator, RmIdle, FloorInv, etcdVars
<1>7. ASSUME NEW n \in Nodes, \/ CreateMachine(n) \/ DeleteMachine(n) \/ Vanish(n)
                              \/ Crash(n) \/ Join(n)
      PROVE  FloorInv'
  BY <1>3, <1>7 DEF CreateMachine, DeleteMachine, Vanish, Crash, Join, etcdVars, rmVars,
                    rmScaleVars
<1>8. QED
  BY <1>1, <1>2, <1>4, <1>5, <1>6, <1>7 DEF Next, Environment, DrainMachine, LoseMachine

(* A step that takes a voter away takes one. *)
LEMMA OneVoterLeaves ==
  ASSUME TypeOK, FloorInv, MaxLate = 0, rmPc = "remove", Next, Voters \ Voters' # {}
  PROVE  Cardinality(Voters') >= Desired - 1
<1>1. PICK n \in Nodes : member' = [member EXCEPT ![n] = "none"]
  <2> USE DEF TypeOK, Voters, etcdVars
  <2>1. CASE Rm
    <3>1. \A n \in NextToRemove : n \in Nodes
      BY DEF NextToRemove
    <3>2. RmRemove
      BY <2>1 DEF Rm, RmStart, RmGate, RmOrphans, RmLearners, RmLearner, RmScale,
                  RmHealthy, RmUnhealthy, RmError
    <3>3. QED
      BY <3>1, <3>2 DEF RmRemove, MemberRemove, Remove, Keep
  <2>2. CASE Cmc
    BY <2>2 DEF Cmc, CmcStart, CmcPick, CmcAdd, CmcList, CmcCheck, CmcPromote, CmcError,
                CanAddLearner, AddLearner, Promote, Members
  <2>3. CASE Late
    BY <2>3 DEF Late, FloorInv
  <2>4. CASE \/ Hk \/ Ep \/ Rollout \/ RestartOperator
             \/ \E m \in Nodes : \/ CreateMachine(m) \/ DeleteMachine(m)
                                 \/ (Vanish(m) /\ Exists(m)) \/ Crash(m) \/ Join(m)
    BY <2>4, ApartSteps DEF Apart, RestartOperator
  <2>5. QED
    BY <2>1, <2>2, <2>3, <2>4
    DEF Next, Environment, DrainMachine, LoseMachine, Deleting, Exists
<1>2. IsFiniteSet(Voters) /\ IsFiniteSet(rmLive)
  BY NodesAssumption, FS_Subset DEF Voters, TypeOK
<1>3. Voters' = Voters \ {n} /\ n \in Voters
  BY <1>1 DEF Voters, TypeOK
<1>4. Cardinality(rmLive) >= Desired /\ rmLive \subseteq Voters
  BY DEF FloorInv
<1>5. Cardinality(rmLive) <= Cardinality(Voters)
  BY <1>2, <1>4, FS_Subset
<1>6. Cardinality(Voters') = Cardinality(Voters) - 1
  BY <1>2, <1>3, FS_RemoveElement
<1>7. Cardinality(Voters) \in Nat /\ Cardinality(rmLive) \in Nat
  BY <1>2, FS_CardinalityType
<1>8. QED
  BY <1>4, <1>5, <1>6, <1>7, ManagementAssumption

(* ScaleDownFloor, as long as every call to etcd is answered. *)
THEOREM ScaleDownStops == ASSUME MaxLate = 0 PROVE Spec => ScaleDownFloor
<1>1. TypeOK /\ FloorInv /\ [Next]_vars
        => [rmPc = "remove" /\ Voters \ Voters' # {}
              => Cardinality(Voters') >= Desired - 1]_vars
  BY OneVoterLeaves
<1>2. QED
  BY <1>1, FloorInit, FloorStep, TypeCorrect, PTL DEF Spec, ScaleDownFloor

-----------------------------------------------------------------------------
(* Quorum. *)

(* The case in which the controllers keep the quorum: replies are not lost, no
   rollout takes members down, at most one is down, machines are held by their hooks,
   and the cluster is one of three or more, of which two are there. *)
Calm ==
    /\ MachineAPI /\ ~Rollouts /\ MaxLate = 0 /\ MaxDown <= 1
    /\ Desired >= 3 /\ Cardinality(InitVoters) >= 2

(* n has joined and does not serve, and it votes or still may come to. *)
Fallen(n) ==
    n \in Members /\ started[n] /\ n \notin Serving /\ (Promotable(n) \/ Exists(n))

Quiet == late = {} /\ stale = {}
GoneIsOff == \A n \in Nodes : ~Exists(n) => proc[n] = "off"
VotersStarted == \A n \in Voters : started[n]
OneFallen == \A m, n \in Nodes : Fallen(m) /\ Fallen(n) => m = n

(* Two voters stay, also when the learners that are about to be removed have been
   promoted meanwhile. *)
TwoVoters ==
    /\ Cardinality(Voters) >= 2
    /\ rmPc = "rmLearner" => Cardinality(Voters \ rmTodo) >= 2

QuorumInv == Quiet /\ GoneIsOff /\ VotersStarted /\ OneFallen /\ TwoVoters

\* Sets of voters are finite, and their sizes grow with them.
LEMMA VoterSets ==
    ASSUME TypeOK
    PROVE  /\ \A S \in SUBSET Nodes : IsFiniteSet(S) /\ Cardinality(S) \in Nat
           /\ \A S, T \in SUBSET Nodes : S \subseteq T => Cardinality(S) <= Cardinality(T)
           /\ Voters \in SUBSET Nodes /\ Voters \cap Serving \in SUBSET Nodes
<1>1. ASSUME NEW S \in SUBSET Nodes PROVE IsFiniteSet(S) /\ Cardinality(S) \in Nat
  BY NodesAssumption, FS_Subset, FS_CardinalityType
<1>2. ASSUME NEW S \in SUBSET Nodes, NEW T \in SUBSET Nodes, S \subseteq T
      PROVE  Cardinality(S) <= Cardinality(T)
  BY <1>1, <1>2, FS_Subset
<1> QED BY <1>1, <1>2 DEF Voters, Serving

\* When no more voters are taken away than the learners to be removed.
LEMMA TwoVotersGrow ==
    ASSUME TypeOK, TypeOK', TwoVoters, Voters \subseteq Voters',
           rmPc' = "rmLearner" => (rmPc = "rmLearner" /\ rmTodo' = rmTodo)
    PROVE  TwoVoters'
<1> USE VoterSets
<1>1. Voters \in SUBSET Nodes /\ Voters' \in SUBSET Nodes
  BY DEF Voters
<1>2. Cardinality(Voters) <= Cardinality(Voters')
        /\ Cardinality(Voters) \in Nat /\ Cardinality(Voters') \in Nat
  BY <1>1
<1>3. ASSUME rmPc' = "rmLearner" PROVE Cardinality(Voters' \ rmTodo') >= 2
  <2>1. Voters \ rmTodo \subseteq Voters' \ rmTodo'
    BY <1>3
  <2>2. Voters \ rmTodo \in SUBSET Nodes /\ Voters' \ rmTodo' \in SUBSET Nodes
    BY <1>1
  <2>3. Cardinality(Voters \ rmTodo) <= Cardinality(Voters' \ rmTodo')
          /\ Cardinality(Voters \ rmTodo) \in Nat /\ Cardinality(Voters' \ rmTodo') \in Nat
    BY <2>1, <2>2
  <2>4. Cardinality(Voters \ rmTodo) >= 2
    BY <1>3 DEF TwoVoters
  <2> QED BY <2>3, <2>4
<1>4. Cardinality(Voters) >= 2
  BY DEF TwoVoters
<1>5. Cardinality(Voters') >= 2
  BY <1>2, <1>4
<1> QED BY <1>3, <1>5 DEF TwoVoters

\* In an installed cluster everything serves.
LEMMA QuorumInit == ASSUME Calm PROVE Init => QuorumInv
<1> SUFFICES ASSUME Init PROVE QuorumInv
  OBVIOUS
<1>1. Voters = InitVoters
  BY ManagementAssumption DEF Init, Voters
<1>2. Quiet /\ GoneIsOff /\ VotersStarted
  BY <1>1, ManagementAssumption DEF Init, Quiet, GoneIsOff, VotersStarted, Exists
<1>3. \A n \in Nodes : ~Fallen(n)
  BY <1>1 DEF Init, Fallen, Members, Serving
<1>4. OneFallen
  BY <1>3 DEF OneFallen
<1>5. TwoVoters
  BY <1>1 DEF Init, TwoVoters, Calm
<1> QED BY <1>2, <1>4, <1>5 DEF QuorumInv

\* ClusterMemberController: a new learner has not started, and a learner it decides to
\* promote has its machine.
LEMMA QuorumCmc ==
    ASSUME Calm, TypeOK, TypeOK', QuorumInv, Cmc
    PROVE  QuorumInv'
<1> USE DEF Cmc, CmcStart, CmcPick, CmcAdd, CmcList, CmcCheck, CmcPromote, CmcError
<1>1. UNCHANGED <<proc, machine, stale, rmPc, rmTodo>>
  BY DEF etcdVars, machineVars, rolloutVars, rmVars
<1>2. late' = {}
  BY NothingLate DEF QuorumInv, Quiet, Calm, etcdVars
<1>3. CASE CmcAdd /\ CanAddLearner(cmcCand) /\ AddLearner(cmcCand)
  <2>1. /\ cmcCand \in Nodes /\ member[cmcCand] = "none" /\ cmcPc' = "list"
        /\ member' = [member EXCEPT ![cmcCand] = "learner"]
        /\ started' = [started EXCEPT ![cmcCand] = FALSE]
    BY <1>3 DEF CanAddLearner, AddLearner, Members
  <2>2. Voters' = Voters
    BY <2>1 DEF Voters, TypeOK
  <2>3. VotersStarted'
    BY <2>1, <2>2 DEF QuorumInv, VotersStarted, Voters, TypeOK
  <2>4. ASSUME NEW n \in Nodes, Fallen(n)' PROVE Fallen(n)
    BY <1>1, <1>2, <2>1, <2>2, <2>4
    DEF Fallen, Members, Serving, Promotable, Exists, TypeOK
  <2> QED
    BY <1>1, <1>2, <2>2, <2>3, <2>4, TwoVotersGrow
    DEF QuorumInv, Quiet, GoneIsOff, OneFallen, Exists
<1>4. CASE CmcPromote /\ CanPromote(cmcCand) /\ Promote(cmcCand)
  <2>1. /\ cmcCand \in Nodes /\ started[cmcCand] /\ cmcPc = "rpc" /\ cmcPc' # "rpc"
        /\ member' = [member EXCEPT ![cmcCand] = "voter"] /\ started' = started
        /\ member[cmcCand] = "learner"
    BY <1>4 DEF CanPromote, Promote, Learners, CmcNext, CmcIdle
  <2>2. Voters' = Voters \cup {cmcCand}
    BY <2>1 DEF Voters, TypeOK
  <2>3. VotersStarted'
    BY <2>1, <2>2 DEF QuorumInv, VotersStarted
  <2>4. ASSUME NEW n \in Nodes, Fallen(n)' PROVE Fallen(n)
    BY <1>1, <1>2, <2>1, <2>2, <2>4
    DEF Fallen, Members, Serving, Promotable, Exists, TypeOK
  <2> QED
    BY <1>1, <1>2, <2>2, <2>3, <2>4, TwoVotersGrow
    DEF QuorumInv, Quiet, GoneIsOff, OneFallen, Exists
<1>5. CASE UNCHANGED <<member, started>>
  <2>1. Voters' = Voters /\ VotersStarted'
    BY <1>5 DEF QuorumInv, VotersStarted, Voters
  <2>2. ASSUME NEW n \in Nodes, cmcPc' = "rpc" /\ cmcCand' = n PROVE Exists(n)
    BY <2>2 DEF ShouldPromote, CmcNext, CmcIdle, Calm, TypeOK
  <2>3. ASSUME NEW n \in Nodes, Fallen(n)' PROVE Fallen(n)
    BY <1>1, <1>2, <1>5, <2>1, <2>2, <2>3 DEF Fallen, Members, Serving, Promotable, Exists
  <2> QED
    BY <1>1, <1>2, <2>1, <2>3, TwoVotersGrow
    DEF QuorumInv, Quiet, GoneIsOff, OneFallen, Exists
<1> QED BY <1>3, <1>4, <1>5 DEF etcdVars

\* A removal: what is removed has not fallen, and nothing else changes.
LEMMA QuorumRemove ==
    ASSUME Calm, TypeOK, QuorumInv, NEW n \in Nodes, NEW ok \in BOOLEAN, MemberRemove(n, ok),
           UNCHANGED <<machine, stale>>
    PROVE  /\ Quiet' /\ GoneIsOff' /\ VotersStarted' /\ OneFallen'
           /\ ok => Voters' = Voters \ {n} /\ CanRemove(n)
           /\ ~ok => Voters' = Voters
<1>1. CASE ok /\ CanRemove(n) /\ Remove(n) /\ Forget(n)
  <2>1. /\ member' = [member EXCEPT ![n] = "none"] /\ started' = [started EXCEPT ![n] = FALSE]
        /\ proc' = [proc EXCEPT ![n] = IF @ = "serving" THEN "waiting" ELSE @]
        /\ late' = {} /\ cmcPc' = cmcPc
        /\ cmcCand' = IF cmcPc = "rpc" /\ cmcCand = n THEN NoNode ELSE cmcCand
    BY <1>1 DEF Remove, Forget, QuorumInv, Quiet
  <2>2. Voters' = Voters \ {n}
    BY <2>1 DEF Voters, TypeOK
  <2>3. VotersStarted'
    BY <2>1, <2>2 DEF QuorumInv, VotersStarted, Voters, TypeOK
  <2>4. GoneIsOff'
    BY <2>1 DEF QuorumInv, GoneIsOff, Exists, TypeOK
  <2>5. ASSUME NEW m \in Nodes, Fallen(m)' PROVE Fallen(m)
    <3>1. m # n
      BY <2>1, <2>5 DEF Fallen, Members, TypeOK
    <3>2. member'[m] = member[m] /\ started'[m] = started[m] /\ proc'[m] = proc[m]
      BY <2>1, <3>1 DEF TypeOK
    <3>3. Promotable(m)' => Promotable(m)
      BY <2>1, <3>2, NodesAssumption DEF Promotable, Voters
    <3> QED BY <2>5, <3>2, <3>3 DEF Fallen, Members, Serving, Exists
  <2> QED
    BY <1>1, <2>1, <2>2, <2>3, <2>4, <2>5 DEF QuorumInv, Quiet, OneFallen
<1>2. CASE ~ok /\ UNCHANGED <<member, started, proc, cmcVars>> /\ late' = {}
  <2>1. Voters' = Voters /\ VotersStarted' /\ GoneIsOff'
    BY <1>2 DEF QuorumInv, VotersStarted, GoneIsOff, Voters, Exists
  <2>2. ASSUME NEW m \in Nodes, Fallen(m)' PROVE Fallen(m)
    BY <1>2, <2>2 DEF Fallen, Members, Voters, Serving, Promotable, Exists, cmcVars
  <2> QED BY <1>2, <2>1, <2>2 DEF QuorumInv, Quiet, OneFallen
<1>3. CASE ~ok /\ Keep
  BY <1>2, <1>3 DEF Keep, etcdVars, QuorumInv, Quiet
<1>4. CASE TimeOut(<<"remove", n>>)
  BY <1>4, NothingLate DEF QuorumInv, Quiet, Calm
<1> QED BY <1>1, <1>3, <1>4 DEF MemberRemove

\* ClusterMemberRemovalController: an orphan that is removed did not count for the quorum,
\* a condemned learner that was promoted leaves the voters that were there, and scaling
\* down leaves as many as are desired but one.
LEMMA QuorumRm ==
    ASSUME Calm, TypeOK, TypeOK', QuorumInv, FloorInv, Rm
    PROVE  QuorumInv'
<1>1. UNCHANGED <<machine, stale>>
  BY DEF Rm, RmStart, RmGate, RmOrphans, RmLearners, RmLearner, RmScale, RmHealthy,
         RmUnhealthy, RmRemove, RmError, machineVars, rolloutVars
<1>2. ASSUME UNCHANGED <<etcdVars, cmcVars>>
      PROVE  Quiet' /\ GoneIsOff' /\ VotersStarted' /\ OneFallen' /\ Voters' = Voters
  <2>1. ASSUME NEW m \in Nodes, Fallen(m)' PROVE Fallen(m)
    BY <1>1, <1>2, <2>1
    DEF Fallen, Members, Voters, Serving, Promotable, Exists, cmcVars, etcdVars
  <2> QED
    BY <1>1, <1>2, <2>1
    DEF QuorumInv, Quiet, GoneIsOff, VotersStarted, OneFallen, Voters, Exists, etcdVars
<1>3. CASE \/ RmStart \/ RmGate \/ RmScale \/ RmHealthy \/ RmUnhealthy \/ RmError
  <2>1. UNCHANGED <<etcdVars, cmcVars>> /\ rmPc' # "rmLearner"
    BY <1>3 DEF RmStart, RmGate, RmScale, RmHealthy, RmUnhealthy, RmError, RmIdle
  <2> QED BY <1>2, <2>1, TwoVotersGrow DEF QuorumInv
<1>4. CASE RmLearners
  <2>1. UNCHANGED <<etcdVars, cmcVars>> /\ rmTodo' \subseteq Learners
    BY <1>4 DEF RmLearners
  <2>2. Voters' = Voters /\ Voters' \ rmTodo' = Voters
    BY <1>2, <2>1 DEF Learners, Voters
  <2>3. TwoVoters'
    BY <2>2 DEF QuorumInv, TwoVoters
  <2> QED BY <1>2, <2>1, <2>3 DEF QuorumInv
<1>5. CASE RmOrphans
  <2>0. rmPc = "orphans"
    BY <1>5 DEF RmOrphans
  <2>1. CASE Keep /\ rmPc' # "rmLearner"
    BY <1>2, <2>1, TwoVotersGrow DEF QuorumInv, Keep
  <2>2. ASSUME NEW n \in rmTodo, NEW ok \in BOOLEAN, MemberRemove(n, ok), ~Exists(n),
               rmPc' # "rmLearner"
        PROVE  QuorumInv'
    <3>1. n \in Nodes
      BY DEF TypeOK
    <3>2. CASE ~ok
      BY <1>1, <2>2, <3>1, <3>2, QuorumRemove, TwoVotersGrow DEF QuorumInv
    <3>3. CASE ok
      <4>1. Voters' = Voters \ {n} /\ HasQuorum
        BY <1>1, <2>2, <3>1, <3>3, QuorumRemove DEF CanRemove
      <4>2. n \notin Serving
        BY <2>2, <3>1 DEF QuorumInv, GoneIsOff, Serving
      <4>3. /\ Voters \cap Serving \subseteq Voters \ {n}
            /\ Voters \in SUBSET Nodes /\ Voters \cap Serving \in SUBSET Nodes
            /\ Voters \ {n} \in SUBSET Nodes
        BY <4>2 DEF Voters
      <4>4. /\ Cardinality(Voters \cap Serving) <= Cardinality(Voters \ {n})
            /\ Cardinality(Voters \cap Serving) \in Nat /\ Cardinality(Voters \ {n}) \in Nat
            /\ Cardinality(Voters) \in Nat
        BY <4>3, VoterSets
      <4>5. Cardinality(Voters \cap Serving) >= (Cardinality(Voters) \div 2) + 1
        BY <4>1 DEF HasQuorum
      <4>6. Cardinality(Voters) >= 2
        BY DEF QuorumInv, TwoVoters
      <4>7. Cardinality(Voters \ {n}) >= 2
        BY <4>4, <4>5, <4>6
      <4>8. TwoVoters'
        BY <2>2, <4>1, <4>7 DEF TwoVoters
      <4> QED BY <1>1, <2>2, <3>1, <4>8, QuorumRemove DEF QuorumInv
    <3> QED BY <3>2, <3>3
  <2> QED BY <1>5, <2>0, <2>1, <2>2 DEF RmOrphans, RmOrphan
<1>6. CASE RmLearner
  <2>0. rmPc = "rmLearner"
    BY <1>6 DEF RmLearner
  <2>1. CASE Keep /\ rmPc' = "scale"
    BY <1>2, <2>1, TwoVotersGrow DEF QuorumInv, Keep
  <2>2. ASSUME NEW n \in rmTodo, NEW ok \in BOOLEAN, MemberRemove(n, ok),
               rmTodo' = rmTodo \ {n}, rmPc' = rmPc
        PROVE  QuorumInv'
    <3>1. n \in Nodes
      BY DEF TypeOK
    <3>2. Voters \ {n} \subseteq Voters' /\ Voters' \subseteq Voters
      BY <1>1, <2>2, <3>1, QuorumRemove
    <3>3. Voters \ rmTodo \subseteq Voters' \ rmTodo' /\ Voters' \ rmTodo' \subseteq Voters'
      BY <2>2, <3>2
    <3>4. /\ Voters' \in SUBSET Nodes /\ Voters \ rmTodo \in SUBSET Nodes
          /\ Voters' \ rmTodo' \in SUBSET Nodes
      BY DEF Voters
    <3>5. /\ Cardinality(Voters \ rmTodo) <= Cardinality(Voters' \ rmTodo')
          /\ Cardinality(Voters' \ rmTodo') <= Cardinality(Voters')
          /\ Cardinality(Voters \ rmTodo) \in Nat /\ Cardinality(Voters' \ rmTodo') \in Nat
          /\ Cardinality(Voters') \in Nat
      BY <3>3, <3>4, VoterSets
    <3>6. Cardinality(Voters \ rmTodo) >= 2
      BY <2>0 DEF QuorumInv, TwoVoters
    <3>7. TwoVoters'
      BY <3>5, <3>6 DEF TwoVoters
    <3> QED BY <1>1, <2>2, <3>1, <3>7, QuorumRemove DEF QuorumInv
  <2> QED BY <1>6, <2>1, <2>2 DEF RmLearner
<1>7. CASE RmRemove
  <2>0. rmPc = "remove"
    BY <1>7 DEF RmRemove
  <2>1. CASE Keep /\ RmIdle
    BY <1>2, <2>1, TwoVotersGrow DEF QuorumInv, Keep, RmIdle
  <2>2. ASSUME NEW n \in NextToRemove, NEW ok \in BOOLEAN, MemberRemove(n, ok),
               rmPc' # "rmLearner"
        PROVE  QuorumInv'
    <3>1. n \in Nodes
      BY DEF TypeOK, NextToRemove
    <3>2. TwoVoters'
      <4>1. CASE Voters \ Voters' = {}
        <5>1. Voters \subseteq Voters'
          BY <4>1
        <5> QED BY <2>2, <5>1, TwoVotersGrow DEF QuorumInv
      <4>2. CASE Voters \ Voters' # {}
        <5>1. Cardinality(Voters') >= Desired - 1
          BY <1>7, <2>0, <4>2, OneVoterLeaves DEF Next, Rm, Calm
        <5>2. Cardinality(Voters') \in Nat
          BY VoterSets DEF Voters
        <5>3. Cardinality(Voters') >= 2
          BY <5>1, <5>2, ManagementAssumption DEF Calm
        <5> QED BY <2>2, <5>3 DEF TwoVoters
      <4> QED BY <4>1, <4>2
    <3> QED BY <1>1, <2>2, <3>1, <3>2, QuorumRemove DEF QuorumInv
  <2> QED BY <1>7, <2>0, <2>1, <2>2 DEF RmRemove, RmIdle
<1> QED BY <1>3, <1>4, <1>5, <1>6, <1>7 DEF Rm

\* Machines and containers: a member that goes down is the only one, unless it is a
\* learner that was drained, which is never promoted.
LEMMA QuorumMachines ==
    ASSUME Calm, TypeOK, TypeOK', QuorumInv, CondemnedInv, HookInv, NEW n \in Nodes,
           \/ CreateMachine(n) \/ DeleteMachine(n) \/ DrainMachine(n) \/ LoseMachine(n)
           \/ Crash(n) \/ Join(n)
    PROVE  QuorumInv'
<1>1. UNCHANGED <<member, late, cmcPc, cmcCand, rmPc, rmTodo>>
  BY DEF CreateMachine, DeleteMachine, DrainMachine, LoseMachine, Vanish, Crash, Join,
         etcdVars, cmcVars, rmVars
<1>2. Voters' = Voters /\ Members' = Members /\ \A m \in Nodes : Promotable(m)' <=> Promotable(m)
  BY <1>1 DEF Voters, Members, Promotable
<1>3. TwoVoters'
  BY <1>1, <1>2, TwoVotersGrow DEF QuorumInv
<1>4. Quiet'
  BY <1>1
  DEF CreateMachine, DeleteMachine, DrainMachine, LoseMachine, Vanish, Crash, Join,
      rolloutVars, QuorumInv, Quiet, Calm
<1>5. ASSUME NEW m \in Nodes, ~Exists(m)' PROVE proc'[m] = "off"
  <2> USE DEF QuorumInv, GoneIsOff, Exists, TypeOK, etcdVars, machineVars
  <2>1. CASE CreateMachine(n)
    BY <1>5, <2>1 DEF CreateMachine, Calm
  <2>2. CASE DeleteMachine(n)
    BY <1>5, <2>2 DEF DeleteMachine
  <2>3. CASE Vanish(n)
    BY <1>5, <2>3 DEF Vanish
  <2>4. CASE Crash(n)
    <3>1. n \in Serving /\ UNCHANGED machine /\ proc' = [proc EXCEPT ![n] = "waiting"]
      BY <2>4 DEF Crash
    <3>2. Exists(n)
      BY <3>1 DEF Serving
    <3> QED BY <1>5, <3>1, <3>2
  <2>5. CASE Join(n)
    <3>1. proc[n] = "waiting" /\ UNCHANGED machine /\ proc' = [proc EXCEPT ![n] = "serving"]
      BY <2>5 DEF Join
    <3>2. Exists(n)
      BY <3>1
    <3> QED BY <1>5, <3>1, <3>2
  <2> QED BY <2>1, <2>2, <2>3, <2>4, <2>5 DEF DrainMachine, LoseMachine
<1>6. VotersStarted'
  BY <1>2
  DEF CreateMachine, DeleteMachine, DrainMachine, LoseMachine, Vanish, Crash, Join,
      etcdVars, QuorumInv, VotersStarted, TypeOK, Voters
<1>7. ASSUME NEW m \in Nodes, Fallen(m)',
             CreateMachine(n) \/ DeleteMachine(n) \/ DrainMachine(n) \/ Join(n)
      PROVE  Fallen(m)
  <2>1. m \in Members /\ (Promotable(m) \/ Exists(m)')
    BY <1>2, <1>7 DEF Fallen
  <2>2. CASE CreateMachine(n)
    <3>1. m # n
      BY <2>1, <2>2 DEF CreateMachine, CondemnedInv, KnownHadMachine, Known
    <3> QED
      BY <1>2, <1>7, <2>2, <3>1
      DEF CreateMachine, Fallen, Serving, Exists, TypeOK, Calm
  <2>3. CASE DeleteMachine(n)
    BY <1>2, <1>7, <2>3 DEF DeleteMachine, Fallen, Serving, Exists, TypeOK, etcdVars
  <2>4. CASE DrainMachine(n)
    <3>1. ~Promotable(n)
      BY <2>4 DEF DrainMachine, Deleting, Exists, HookInv, Calm
    <3>2. m # n
      BY <2>1, <2>4, <3>1 DEF DrainMachine, Vanish, Exists, TypeOK
    <3> QED
      BY <1>2, <1>7, <2>4, <3>2 DEF DrainMachine, Vanish, Fallen, Serving, Exists, TypeOK
  <2>5. CASE Join(n)
    <3>1. m # n
      BY <1>7, <2>5 DEF Join, Fallen, Serving, TypeOK
    <3> QED
      BY <1>2, <1>7, <2>5, <3>1 DEF Join, Fallen, Serving, Exists, TypeOK, machineVars
  <2> QED BY <1>7, <2>2, <2>3, <2>4, <2>5
<1>8. ASSUME NEW m \in Nodes, Fallen(m)', Crash(n) \/ LoseMachine(n) PROVE m = n
  <2>1. Cardinality(Down \ {n}) < 1
    <3>1. Down \in SUBSET Nodes /\ Down \ {n} \in SUBSET Nodes
      BY DEF Down, Members
    <3>2. /\ Cardinality(Down \ {n}) <= Cardinality(Down) /\ Cardinality(Down) \in Nat
          /\ Cardinality(Down \ {n}) \in Nat
      BY <3>1, VoterSets
    <3>3. Cardinality(Down \ {n}) < MaxDown
      BY <1>8, <3>2, ManagementAssumption DEF Crash, LoseMachine
    <3> QED BY <3>2, <3>3, ManagementAssumption DEF Calm
  <2>2. Down \ {n} = {}
    <3>1. IsFiniteSet(Down \ {n}) /\ Cardinality(Down \ {n}) \in Nat
      BY VoterSets DEF Down, Members
    <3>2. Cardinality(Down \ {n}) = 0
      BY <2>1, <3>1
    <3> QED BY <3>1, <3>2, FS_EmptySet
  <2>3. m \in Members /\ m \notin Serving'
    BY <1>2, <1>8 DEF Fallen
  <2>4. m # n => (m \in Serving <=> m \in Serving')
    BY <1>8 DEF Crash, LoseMachine, Vanish, Serving, TypeOK
  <2> QED BY <2>2, <2>3, <2>4 DEF Down
<1>9. OneFallen'
  BY <1>7, <1>8 DEF QuorumInv, OneFallen
<1> QED BY <1>3, <1>4, <1>5, <1>6, <1>9 DEF QuorumInv, GoneIsOff

\* Every step keeps QuorumInv.
LEMMA QuorumStep ==
    ASSUME Calm, TypeOK, TypeOK', QuorumInv, FloorInv, CondemnedInv, HookInv, [Next]_vars
    PROVE  QuorumInv'
<1>1. CASE UNCHANGED <<member, started, proc, late, machine, stale, rmPc, rmTodo>>
           /\ (UNCHANGED cmcVars \/ CmcIdle)
  <2>1. Voters' = Voters
    BY <1>1 DEF Voters
  <2>2. ASSUME NEW m \in Nodes, Fallen(m)' PROVE Fallen(m)
    BY <1>1, <2>2 DEF Fallen, Members, Voters, Serving, Promotable, Exists, cmcVars, CmcIdle
  <2> QED
    BY <1>1, <2>1, <2>2
    DEF QuorumInv, Quiet, GoneIsOff, VotersStarted, OneFallen, TwoVoters, Exists
<1>2. CASE Hk \/ Ep \/ UNCHANGED vars
  BY <1>1, <1>2
  DEF Hk, HkSync, HkMembers, HkRelease, HkError, Ep, EpRead, EpWrite, vars, etcdVars,
      machineVars, rolloutVars, rmVars
<1>3. CASE Rollout
  <2>1. ~RefreshHealth /\ ~CreateRevision
    BY DEF RefreshHealth, CreateRevision, Calm
  <2>2. ASSUME NEW n \in Nodes, InstallStart(n) PROVE FALSE
    BY <2>2 DEF InstallStart, QuorumInv, Quiet
  <2>3. ASSUME NEW n \in Nodes, InstallDone(n) PROVE QuorumInv'
    <3>1. stale' = stale
      BY <2>3 DEF InstallDone, QuorumInv, Quiet
    <3> QED BY <1>1, <2>3, <3>1 DEF InstallDone, etcdVars, machineVars, rmVars
  <2> QED BY <1>3, <2>1, <2>2, <2>3 DEF Rollout
<1>4. CASE RestartOperator
  <2>1. rmPc' = "idle" /\ UNCHANGED <<member, started, proc, late, machine, stale>> /\ CmcIdle
    BY <1>4 DEF RestartOperator, RmIdle, etcdVars, machineVars, rolloutVars
  <2>2. Voters' = Voters
    BY <2>1 DEF Voters
  <2>3. ASSUME NEW m \in Nodes, Fallen(m)' PROVE Fallen(m)
    BY <2>1, <2>3 DEF Fallen, Members, Voters, Serving, Promotable, Exists, CmcIdle
  <2> QED
    BY <2>1, <2>2, <2>3
    DEF QuorumInv, Quiet, GoneIsOff, VotersStarted, OneFallen, TwoVoters, Exists
<1>5. CASE Late
  BY <1>5 DEF Late, QuorumInv, Quiet
<1> QED
  BY <1>2, <1>3, <1>4, <1>5, QuorumCmc, QuorumRm, QuorumMachines DEF Next, Environment

\* A step that changes the membership adds a learner, promotes one or removes a member,
\* and etcd has accepted it.
LEMMA MemberChanges ==
    ASSUME Calm, TypeOK, QuorumInv, Next, member' # member
    PROVE  \/ \E n \in Nodes \ Voters : /\ member' = [member EXCEPT ![n] = "learner"]
                                        /\ proc' = proc
           \/ \E n \in Nodes : /\ cmcPc = "rpc" /\ cmcCand = n /\ CanPromote(n)
                               /\ member' = [member EXCEPT ![n] = "voter"] /\ proc' = proc
           \/ \E n \in Nodes : CanRemove(n) /\ Remove(n)
<1>1. CASE Cmc
  <2>1. CASE CmcAdd
    BY <2>1 DEF CmcAdd, CanAddLearner, AddLearner, Members, Voters
  <2>2. CASE CmcPromote
    BY <2>2 DEF CmcPromote, CanPromote, Promote, Learners
  <2> QED
    BY <1>1, <2>1, <2>2
    DEF Cmc, CmcStart, CmcPick, CmcList, CmcCheck, CmcError, etcdVars
<1>2. CASE Rm
  <2>1. ASSUME NEW n \in Nodes, NEW ok \in BOOLEAN, MemberRemove(n, ok)
        PROVE  CanRemove(n) /\ Remove(n)
    BY <2>1 DEF MemberRemove, Keep, etcdVars
  <2>2. CASE RmOrphans
    BY <2>1, <2>2 DEF RmOrphans, RmOrphan, Keep, etcdVars, TypeOK
  <2>3. CASE RmLearner
    BY <2>1, <2>3 DEF RmLearner, Keep, etcdVars, TypeOK
  <2>4. CASE RmRemove
    <3>1. \A n \in NextToRemove : n \in Nodes
      BY DEF NextToRemove, TypeOK
    <3> QED BY <2>1, <2>4, <3>1 DEF RmRemove, Keep, etcdVars
  <2> QED
    BY <1>2, <2>2, <2>3, <2>4
    DEF Rm, RmStart, RmGate, RmLearners, RmScale, RmHealthy, RmUnhealthy, RmError, etcdVars
<1>3. CASE Late
  BY <1>3 DEF Late, QuorumInv, Quiet
<1>4. CASE \/ Hk \/ Ep \/ Rollout \/ RestartOperator
           \/ \E m \in Nodes : \/ CreateMachine(m) \/ DeleteMachine(m)
                               \/ (Vanish(m) /\ Exists(m)) \/ Crash(m) \/ Join(m)
  BY <1>4, ApartSteps DEF Apart, RestartOperator, etcdVars
<1> QED
  BY <1>1, <1>2, <1>3, <1>4 DEF Next, Environment, DrainMachine, LoseMachine, Deleting, Exists

\* A removal that etcd accepts leaves a majority of what remains.
LEMMA RemovalKeeps ==
    ASSUME TypeOK, NEW n \in Nodes, CanRemove(n), Remove(n)
    PROVE  HasQuorum'
<1>1. /\ member' = [member EXCEPT ![n] = "none"]
      /\ proc' = [proc EXCEPT ![n] = IF @ = "serving" THEN "waiting" ELSE @]
  BY DEF Remove
<1>2. /\ Voters' = Voters \ {n}
      /\ (Voters \cap Serving)' = (Voters \cap Serving) \ {n}
  BY <1>1 DEF Voters, Serving, TypeOK
<1>3. Cardinality(Voters \cap Serving) >= (Cardinality(Voters) \div 2) + 1
  BY DEF CanRemove, HasQuorum
<1>4. /\ IsFiniteSet(Voters) /\ IsFiniteSet(Voters \cap Serving)
      /\ Cardinality(Voters) \in Nat /\ Cardinality(Voters \cap Serving) \in Nat
  BY VoterSets
<1>5. CASE n \notin Voters
  <2>1. Voters \ {n} = Voters /\ (Voters \cap Serving) \ {n} = Voters \cap Serving
    BY <1>5
  <2> QED BY <1>2, <1>3, <2>1 DEF HasQuorum
<1>6. CASE n \in Voters /\ n \notin Serving
  <2>1. (Voters \cap Serving) \ {n} = Voters \cap Serving
    BY <1>6
  <2>2. Cardinality(Voters \ {n}) = Cardinality(Voters) - 1
    BY <1>4, <1>6, FS_RemoveElement
  <2>3. Cardinality(Voters \cap Serving) >= ((Cardinality(Voters) - 1) \div 2) + 1
    BY <1>3, <1>4
  <2> QED BY <1>2, <2>1, <2>2, <2>3 DEF HasQuorum
<1>7. CASE n \in Voters /\ n \in Serving
  <2>1. /\ Cardinality(Voters \ {n}) = Cardinality(Voters) - 1
        /\ Cardinality((Voters \cap Serving) \ {n}) = Cardinality(Voters \cap Serving) - 1
    BY <1>4, <1>7, FS_RemoveElement
  <2>2. Cardinality(Voters \cap Serving) - 1 >= 1 + ((Cardinality(Voters) - 1) \div 2)
    BY <1>7 DEF CanRemove, ServerAllowsActiveRemoval, Serving
  <2>3. Cardinality(Voters \cap Serving) - 1 >= ((Cardinality(Voters) - 1) \div 2) + 1
    BY <1>4, <2>2
  <2> QED BY <1>2, <2>1, <2>3 DEF HasQuorum
<1> QED BY <1>5, <1>6, <1>7

\* A promotion adds a voter that serves, or one that is the only one not to.
LEMMA PromotionKeeps ==
    ASSUME TypeOK, QuorumInv, NEW n \in Nodes, cmcPc = "rpc", cmcCand = n, CanPromote(n),
           member' = [member EXCEPT ![n] = "voter"], proc' = proc
    PROVE  HasQuorum'
<1>1. n \notin Voters /\ n \in Members /\ started[n] /\ HasQuorum
  BY DEF CanPromote, Learners, Members, Voters
<1>2. Voters' = Voters \cup {n} /\ Serving' = Serving
  BY DEF Voters, Serving, TypeOK
<1>3. /\ IsFiniteSet(Voters) /\ IsFiniteSet(Voters \cap Serving)
      /\ Cardinality(Voters) \in Nat /\ Cardinality(Voters \cap Serving) \in Nat
  BY VoterSets
<1>4. Cardinality(Voters \cup {n}) = Cardinality(Voters) + 1
  BY <1>1, <1>3, FS_AddElement
<1>5. Cardinality(Voters \cap Serving) >= (Cardinality(Voters) \div 2) + 1
  BY <1>1 DEF HasQuorum
<1>6. CASE n \in Serving
  <2>1. /\ (Voters \cup {n}) \cap Serving = (Voters \cap Serving) \cup {n}
        /\ n \notin Voters \cap Serving
    BY <1>1, <1>6
  <2>2. Cardinality((Voters \cup {n}) \cap Serving) = Cardinality(Voters \cap Serving) + 1
    BY <1>3, <2>1, FS_AddElement
  <2>3. Cardinality(Voters \cap Serving) + 1 >= ((Cardinality(Voters) + 1) \div 2) + 1
    BY <1>3, <1>5
  <2> QED BY <1>2, <1>4, <2>2, <2>3 DEF HasQuorum
<1>7. CASE n \notin Serving
  <2>1. Fallen(n)
    BY <1>1, <1>7 DEF Fallen, Promotable
  <2>2. ASSUME NEW m \in Voters PROVE m \in Serving
    <3>1. m \in Nodes /\ m \in Members /\ started[m] /\ m # n /\ Promotable(m)
      BY <1>1 DEF QuorumInv, VotersStarted, Voters, Members, Promotable
    <3>2. ~Fallen(m)
      BY <2>1, <3>1 DEF QuorumInv, OneFallen
    <3> QED BY <3>1, <3>2 DEF Fallen
  <2>3. (Voters \cup {n}) \cap Serving = Voters
    BY <1>7, <2>2
  <2>4. Cardinality(Voters) >= 2
    BY DEF QuorumInv, TwoVoters
  <2>5. Cardinality(Voters) >= ((Cardinality(Voters) + 1) \div 2) + 1
    BY <1>3, <2>4
  <2> QED BY <1>2, <1>4, <2>3, <2>5 DEF HasQuorum
<1> QED BY <1>6, <1>7

(* QuorumKept: with machines that hooks hold, no lost replies, no rollouts and at most
   one member down, no interleaving of additions, promotions and removals turns a cluster
   with quorum into one without, for any number of nodes. *)
THEOREM ChangesKeepQuorum == ASSUME Calm PROVE Spec => QuorumKept
<1>1. Init => QuorumInv
  BY QuorumInit
<1>2. ASSUME TypeOK, TypeOK', CondemnedInv, HookInv, FloorInv, QuorumInv, [Next]_vars
      PROVE  QuorumInv'
  BY <1>2, QuorumStep
<1>3. ASSUME TypeOK, QuorumInv, [Next]_vars
      PROVE  [member' # member /\ HasQuorum => HasQuorum']_vars
  <2> SUFFICES ASSUME Next, member' # member, HasQuorum PROVE HasQuorum'
    BY <1>3
  <2>1. ASSUME NEW n \in Nodes \ Voters, member' = [member EXCEPT ![n] = "learner"],
               proc' = proc
        PROVE  HasQuorum'
    <3>1. Voters' = Voters /\ Serving' = Serving
      BY <1>3, <2>1 DEF Voters, Serving, TypeOK
    <3> QED BY <3>1 DEF HasQuorum
  <2> QED BY <1>3, <2>1, MemberChanges, RemovalKeeps, PromotionKeeps
<1>4. Spec => [](TypeOK /\ CondemnedInv /\ HookInv /\ FloorInv)
  BY TypeCorrect, CondemnedInvariant, HookInit, HookStep, FloorInit, FloorStep, PTL DEF Spec
<1> QED BY <1>1, <1>2, <1>3, <1>4, PTL DEF Spec, QuorumKept
=============================================================================
