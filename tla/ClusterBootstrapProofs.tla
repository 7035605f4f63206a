----------------------- MODULE ClusterBootstrapProofs -----------------------
(***************************************************************************)
(* What the installation guarantees about the bootstrap member, for every  *)
(* scaling strategy, any number of nodes and any number of faults.         *)
(***************************************************************************)
EXTENDS ClusterBootstrap, FiniteSetTheorems, TLAPS

Shape ==
    /\ member \in [Nodes -> {"none", "learner", "voter"}]
    /\ strategy \in Strategies
    /\ late \subseteq {<<"remove", Boot>>}
    /\ nodes \subseteq Nodes \ {Boot}
    /\ annotated \in BOOLEAN /\ removed \in BOOLEAN /\ epKeep \in BOOLEAN

(* Whoever says or is about to say that the member is gone is right. *)
Gone == removed \/ btPc \in {"gone", "report"} => Boot \notin Members

(* Whoever has dropped or is about to drop its address too. *)
Forgotten == ~annotated \/ (epPc = "write" /\ ~epKeep) => Boot \notin Members

(* From the count of the members on, and while a removal may still be applied,
   there are enough of them. *)
Counted ==
    (btPc \in {"health", "enough", "remove"} \/ late # {}) /\ Boot \in Members
      => Cardinality(Members) >= MembersNeeded

InstallInv == Shape /\ Gone /\ Forgotten /\ Counted

(* The bootstrap member is the only one that leaves, only by the teardown or a
   removal still in flight, and it does not come back. *)
BootstrapLeavesOnly ==
    /\ Boot \in Members' => Boot \in Members
    /\ Boot \notin Members \/ Boot \in Members' => Members \subseteq Members'
    /\ Boot \in Members \ Members'
         => Members' = Members \ {Boot} /\ (btPc = "remove" \/ late # {})

(* The member list is finite and can be counted. *)
LEMMA MembersFinite == IsFiniteSet(Members) /\ Cardinality(Members) \in Nat
<1>1. IsFiniteSet(Members)
  BY NodesAssumption, FS_Subset DEF Members
<1>2. QED
  BY <1>1, FS_CardinalityType

(* canRemoveEtcdBootstrap has a number for every strategy. *)
LEMMA NeededNat == MembersNeeded \in Nat \/ strategy \notin AllStrategies
BY DEF MembersNeeded, AllStrategies

(* The shape is kept, by every action. *)
LEMMA ShapeStep == ASSUME Shape, [Next]_vars PROVE Shape'
<1> USE BootstrapAssumption, NodesAssumption
    DEF Shape, vars, etcdVars, inputVars, rolloutVars, endpointVars, hostVars, btVars,
        epVars
<1>1. CASE SyncCerts \/ RenderPod
  BY <1>1 DEF SyncCerts, RenderPod
<1>2. CASE RefreshHealth \/ CreateRevision
  BY <1>2 DEF RefreshHealth, CreateRevision
<1>3. ASSUME NEW n \in Nodes, InstallStart(n) \/ InstallDone(n) \/ Join(n) \/ Crash(n)
      PROVE  Shape'
  BY <1>3 DEF InstallStart, InstallDone, Join, Crash
<1>4. ASSUME NEW n \in Nodes, AddMember(n) \/ PromoteMember(n) PROVE Shape'
  BY <1>4 DEF AddMember, AddLearner, PromoteMember, Promote
<1>5. CASE Ep
  BY <1>5 DEF Ep, EpRead, EpWrite, EpIdle, KeepBootstrapIP
<1>6. CASE BtList \/ BtHealth \/ BtReport
  BY <1>6 DEF BtList, BtHealth, BtReport
<1>7. CASE BtRemove \/ LateRemoval
  BY <1>7 DEF BtRemove, LateRemoval, Remove, RemoveTimesOut, TimeOut
<1>8. CASE WaitForEtcdBootstrap \/ CompleteBootstrap \/ HostLeaves
  BY <1>8 DEF WaitForEtcdBootstrap, CompleteBootstrap, HostLeaves
<1>9. CASE NodeArrives
  <2>1. Cardinality(nodes) \in Nat
    BY FS_Subset, FS_CardinalityType
  <2>2. Order[strategy] \in Seq(Nodes \ {Boot})
    OBVIOUS
  <2>3. Order[strategy][Cardinality(nodes) + 1] \in Nodes \ {Boot}
    BY <1>9, <2>1, <2>2 DEF NodeArrives
  <2>4. QED
    BY <1>9, <2>3 DEF NodeArrives
<1>10. CASE UNCHANGED vars
  BY <1>10
<1>11. QED
  BY <1>1, <1>2, <1>3, <1>4, <1>5, <1>6, <1>7, <1>8, <1>9, <1>10 DEF Next, Bt

(* Members come, and only the bootstrap member goes. *)
LEMMA MembersStep == ASSUME Shape, [Next]_vars PROVE BootstrapLeavesOnly
<1> USE BootstrapAssumption DEF Shape, Members, BootstrapLeavesOnly
<1>1. ASSUME NEW n \in Nodes, AddMember(n) PROVE BootstrapLeavesOnly
  BY <1>1 DEF AddMember, CanAddLearner, AddLearner
<1>2. ASSUME NEW n \in Nodes, PromoteMember(n) PROVE BootstrapLeavesOnly
  BY <1>2 DEF PromoteMember, CanPromote, Learners, Promote
<1>3. CASE BtRemove
  BY <1>3 DEF BtRemove, Remove, RemoveTimesOut, etcdVars
<1>4. CASE LateRemoval
  BY <1>4 DEF LateRemoval, Remove
<1>5. CASE UNCHANGED member
  BY <1>5
<1>6. ASSUME NEW n \in Nodes, InstallStart(n) \/ InstallDone(n) \/ Join(n) \/ Crash(n)
      PROVE  UNCHANGED member
  BY <1>6 DEF InstallStart, InstallDone, Join, Crash, etcdVars
<1>7. ASSUME SyncCerts \/ RenderPod \/ RefreshHealth \/ CreateRevision \/ Ep
      PROVE  UNCHANGED member
  BY <1>7 DEF SyncCerts, RenderPod, RefreshHealth, CreateRevision, Ep, EpRead, EpWrite,
              etcdVars
<1>8. ASSUME BtList \/ BtHealth \/ BtReport PROVE UNCHANGED member
  BY <1>8 DEF BtList, BtHealth, BtReport, etcdVars
<1>9. ASSUME \/ WaitForEtcdBootstrap \/ CompleteBootstrap \/ HostLeaves
             \/ NodeArrives \/ UNCHANGED vars
      PROVE  UNCHANGED member
  BY <1>9 DEF WaitForEtcdBootstrap, CompleteBootstrap, HostLeaves, NodeArrives, vars,
              etcdVars
<1>10. QED
  BY <1>1, <1>2, <1>3, <1>4, <1>5, <1>6, <1>7, <1>8, <1>9 DEF Next, Bt

(* EtcdBootstrapMemberRemoved is set only after the member was seen to be gone, and
   it stays gone. *)
LEMMA GoneStep == ASSUME Shape, Gone, [Next]_vars PROVE Gone'
<1>1. Boot \in Members' => Boot \in Members
  BY MembersStep DEF BootstrapLeavesOnly
<1>2. CASE UNCHANGED <<btPc, removed>>
  BY <1>1, <1>2 DEF Gone
<1>3. CASE BtList \/ BtHealth
  BY <1>1, <1>3 DEF Gone, BtList, BtHealth, etcdVars, Members
<1>4. CASE BtReport
  BY <1>1, <1>4 DEF Gone, BtReport
<1>5. CASE BtRemove
  <2>1. CASE Remove(Boot)
    BY <2>1, BootstrapAssumption DEF Remove, Members, Shape, Gone
  <2>2. CASE btPc' = "idle"
    BY <1>1, <1>5, <2>2 DEF BtRemove, Gone
  <2>3. QED
    BY <1>5, <2>1, <2>2 DEF BtRemove
<1>6. ASSUME \/ SyncCerts \/ RenderPod \/ RefreshHealth \/ CreateRevision \/ Ep
             \/ WaitForEtcdBootstrap \/ CompleteBootstrap \/ HostLeaves
             \/ NodeArrives \/ LateRemoval \/ UNCHANGED vars
      PROVE  UNCHANGED <<btPc, removed>>
  BY <1>6 DEF SyncCerts, RenderPod, RefreshHealth, CreateRevision, Ep, EpRead, EpWrite,
              WaitForEtcdBootstrap, CompleteBootstrap, HostLeaves, NodeArrives,
              LateRemoval, vars, btVars
<1>7. ASSUME NEW n \in Nodes,
             \/ InstallStart(n) \/ InstallDone(n) \/ AddMember(n)
             \/ PromoteMember(n) \/ Join(n) \/ Crash(n)
      PROVE  UNCHANGED <<btPc, removed>>
  BY <1>7 DEF InstallStart, InstallDone, AddMember, PromoteMember, Join, Crash, btVars
<1>8. QED
  BY <1>2, <1>3, <1>4, <1>5, <1>6, <1>7 DEF Next, Bt

(* The endpoints controller drops the address only on a list without the member. *)
LEMMA ForgottenStep == ASSUME Shape, Forgotten, [Next]_vars PROVE Forgotten'
<1>1. Boot \in Members' => Boot \in Members
  BY MembersStep DEF BootstrapLeavesOnly
<1>2. CASE UNCHANGED <<endpointVars, epVars>>
  BY <1>1, <1>2 DEF Forgotten, endpointVars, epVars
<1>3. CASE EpRead
  <2>1. ASSUME ~epKeep' PROVE Boot \notin Members
    BY <1>3, <2>1 DEF EpRead, KeepBootstrapIP, BootstrapComplete, Forgotten, Shape
  <2>2. QED
    BY <1>1, <1>3, <2>1 DEF EpRead, Forgotten, endpointVars
<1>4. CASE EpWrite
  BY <1>1, <1>4 DEF EpWrite, EpIdle, Forgotten
<1>5. ASSUME \/ SyncCerts \/ RenderPod \/ RefreshHealth \/ CreateRevision \/ Bt
             \/ WaitForEtcdBootstrap \/ CompleteBootstrap \/ HostLeaves
             \/ NodeArrives \/ LateRemoval \/ UNCHANGED vars
      PROVE  UNCHANGED <<endpointVars, epVars>>
  BY <1>5 DEF SyncCerts, RenderPod, RefreshHealth, CreateRevision, Bt, BtList, BtHealth,
              BtReport, BtRemove, WaitForEtcdBootstrap, CompleteBootstrap, HostLeaves,
              NodeArrives, LateRemoval, vars
<1>6. ASSUME NEW n \in Nodes,
             \/ InstallStart(n) \/ InstallDone(n) \/ AddMember(n)
             \/ PromoteMember(n) \/ Join(n) \/ Crash(n)
      PROVE  UNCHANGED <<endpointVars, epVars>>
  BY <1>6 DEF InstallStart, InstallDone, AddMember, PromoteMember, Join, Crash
<1>7. QED
  BY <1>2, <1>3, <1>4, <1>5, <1>6 DEF Next, Ep

(* While the bootstrap member is there, members only come: the count stays good
   until it leaves. *)
LEMMA CountedStep == ASSUME Shape, Counted, [Next]_vars PROVE Counted'
<1> DEFINE Pending == btPc \in {"health", "enough", "remove"} \/ late # {}
           Enough == Cardinality(Members) >= MembersNeeded
<1>1. strategy' = strategy
  <2>1. ASSUME NEW n \in Nodes,
               \/ InstallStart(n) \/ InstallDone(n) \/ AddMember(n)
               \/ PromoteMember(n) \/ Join(n) \/ Crash(n)
        PROVE  strategy' = strategy
    BY <2>1 DEF InstallStart, InstallDone, AddMember, PromoteMember, Join, Crash, hostVars
  <2>2. ASSUME \/ SyncCerts \/ RenderPod \/ RefreshHealth \/ CreateRevision \/ Bt
               \/ WaitForEtcdBootstrap \/ CompleteBootstrap \/ HostLeaves \/ Ep
               \/ NodeArrives \/ LateRemoval \/ UNCHANGED vars
        PROVE  strategy' = strategy
    BY <2>2 DEF SyncCerts, RenderPod, RefreshHealth, CreateRevision, Bt, BtList,
                BtHealth, BtReport, BtRemove, WaitForEtcdBootstrap, CompleteBootstrap,
                HostLeaves, NodeArrives, LateRemoval, Ep, EpRead, EpWrite, vars, hostVars
  <2>3. QED
    BY <2>1, <2>2 DEF Next
<1>2. MembersNeeded' = MembersNeeded
  BY <1>1 DEF MembersNeeded
<1>3. MembersNeeded \in Nat
  BY NeededNat, BootstrapAssumption DEF Shape
<1>4. ASSUME Boot \in Members', Enough PROVE Enough'
  <2>1. Members \subseteq Members'
    BY <1>4, MembersStep DEF BootstrapLeavesOnly
  <2>2. IsFiniteSet(Members') /\ Cardinality(Members') \in Nat
    <3>1. Members' \subseteq Nodes
      BY DEF Members
    <3>2. QED
      BY <3>1, NodesAssumption, FS_Subset, FS_CardinalityType
  <2>3. Cardinality(Members) <= Cardinality(Members')
    BY <2>1, <2>2, FS_Subset
  <2>4. QED
    BY <1>2, <1>3, <1>4, <2>2, <2>3, MembersFinite
<1>5. ASSUME Pending' PROVE Pending \/ (BtList /\ (Boot \in Members => Enough))
  <2>1. CASE BtList
    <3>1. CASE btPc' = "health"
      BY <2>1, <3>1, <1>3, MembersFinite DEF BtList
    <3>2. CASE btPc' # "health"
      BY <1>5, <2>1, <3>2 DEF BtList, etcdVars
    <3>3. QED
      BY <3>1, <3>2
  <2>2. CASE BtHealth \/ BtReport \/ BtRemove \/ LateRemoval
    BY <1>5, <2>2 DEF BtHealth, BtReport, BtRemove, LateRemoval, etcdVars, btVars,
                      Remove, RemoveTimesOut, TimeOut
  <2>3. CASE UNCHANGED <<btPc, late>>
    BY <1>5, <2>3
  <2>4. ASSUME NEW n \in Nodes,
               \/ InstallStart(n) \/ InstallDone(n) \/ AddMember(n)
               \/ PromoteMember(n) \/ Join(n) \/ Crash(n)
        PROVE  UNCHANGED <<btPc, late>>
    BY <2>4 DEF InstallStart, InstallDone, AddMember, PromoteMember, Join, Crash,
                btVars, etcdVars
  <2>5. ASSUME \/ SyncCerts \/ RenderPod \/ RefreshHealth \/ CreateRevision \/ Ep
               \/ WaitForEtcdBootstrap \/ CompleteBootstrap \/ HostLeaves
               \/ NodeArrives \/ UNCHANGED vars
        PROVE  UNCHANGED <<btPc, late>>
    BY <2>5 DEF SyncCerts, RenderPod, RefreshHealth, CreateRevision, Ep, EpRead,
                EpWrite, WaitForEtcdBootstrap, CompleteBootstrap, HostLeaves,
                NodeArrives, vars, btVars, etcdVars
  <2>6. QED
    BY <2>1, <2>2, <2>3, <2>4, <2>5 DEF Next, Bt
<1>6. Boot \in Members' => Boot \in Members
  BY MembersStep DEF BootstrapLeavesOnly
<1>7. QED
  BY <1>4, <1>5, <1>6 DEF Counted

(* The operator starts with the bootstrap member and its address. *)
LEMMA InstallInit == Init => InstallInv
<1> SUFFICES ASSUME Init PROVE InstallInv
  OBVIOUS
<1>1. nodes \subseteq Nodes \ {Boot}
  <2>1. \A i \in 1..Present[strategy] : i \in 1..Len(Order[strategy])
    BY BootstrapAssumption DEF Init
  <2>2. Order[strategy] \in Seq(Nodes \ {Boot})
    BY BootstrapAssumption DEF Init
  <2>3. QED
    BY <2>1, <2>2 DEF Init
<1>2. Shape
  BY <1>1 DEF Init, Shape
<1>3. QED
  BY <1>2 DEF Init, InstallInv, Gone, Forgotten, Counted

(* The invariant of the installation: what the controllers have read of the
   bootstrap member, in whatever step they are, is still true. *)
THEOREM InstallInvariant == Spec => []InstallInv
<1>1. InstallInv /\ [Next]_vars => InstallInv'
  BY ShapeStep, GoneStep, ForgottenStep, CountedStep DEF InstallInv
<1>2. QED
  BY InstallInit, <1>1, PTL DEF Spec

(* EtcdBootstrapMemberRemoved is never reported of a member that is still there,
   whether its removal was refused, timed out or is applied late. *)
THEOREM RemovalReportedTruly == Spec => []RemovedMeansGone
<1>1. InstallInv => RemovedMeansGone
  BY DEF InstallInv, Gone, RemovedMeansGone
<1>2. QED
  BY <1>1, InstallInvariant, PTL

(* The bootstrap address stays published as long as its member is in the cluster. *)
THEOREM AddressOutlivesMember == Spec => []BootstrapForgottenLast
<1>1. InstallInv => BootstrapForgottenLast
  BY DEF InstallInv, Forgotten, BootstrapForgottenLast
<1>2. QED
  BY <1>1, InstallInvariant, PTL

(* The bootstrap member leaves behind what its strategy asks for, in every cluster
   and with any number of lost replies. *)
THEOREM TeardownLeavesEnough == Spec => EnoughMembersRemain
<1>1. ASSUME InstallInv, [Next]_vars, Boot \in Members \ Members'
      PROVE  Cardinality(Members') >= MembersNeeded - 1
  <2>1. Members' = Members \ {Boot} /\ (btPc = "remove" \/ late # {})
    BY <1>1, MembersStep DEF InstallInv, BootstrapLeavesOnly
  <2>2. Cardinality(Members) >= MembersNeeded
    BY <1>1, <2>1 DEF InstallInv, Counted
  <2>3. Cardinality(Members') = Cardinality(Members) - 1
    BY <1>1, <2>1, MembersFinite, FS_RemoveElement
  <2>4. MembersNeeded \in Nat
    BY <1>1, NeededNat, BootstrapAssumption DEF InstallInv, Shape
  <2>5. QED
    BY <2>2, <2>3, <2>4, MembersFinite
<1>2. InstallInv /\ [Next]_vars
        => [(Boot \in Members \ Members')
              => Cardinality(Members') >= MembersNeeded - 1]_vars
  BY <1>1
<1>3. QED
  BY <1>2, InstallInvariant, PTL DEF Spec, EnoughMembersRemain

-----------------------------------------------------------------------------
(* Types: Shape has the member list, the nodes and the strategy; the rest. *)

ContainersOK ==
    /\ started \in [Nodes -> BOOLEAN]
    /\ proc \in [Nodes -> {"off", "waiting", "serving"}]

RolloutOK ==
    /\ endpoints \subseteq Nodes /\ certified \subseteq Nodes /\ epSnap \subseteq Nodes
    /\ pod \in Pods /\ rev \in Revisions /\ running \in [Nodes -> Pods]
    /\ stale \subseteq Nodes /\ installing \in Nodes \cup {NoNode}
    /\ superseded \in BOOLEAN /\ cachedSafe \in BOOLEAN

ControlOK ==
    /\ inCluster \in BOOLEAN
    /\ bootkube \in {"waiting", "seen", "complete"}
    /\ btPc \in {"idle", "health", "gone", "wait", "enough", "remove", "report"}
    /\ epPc \in {"idle", "write"} /\ faults \in Nat

(* The etcd containers start, serve and stop. *)
LEMMA ContainersStep == ASSUME Shape, ContainersOK, [Next]_vars PROVE ContainersOK'
<1> USE BootstrapAssumption DEF ContainersOK
<1>1. CASE UNCHANGED <<started, proc>>
  BY <1>1
<1>2. ASSUME NEW n \in Nodes, InstallStart(n) PROVE ContainersOK'
  BY <1>2 DEF InstallStart
<1>3. ASSUME NEW n \in Nodes, AddMember(n) \/ PromoteMember(n) PROVE ContainersOK'
  BY <1>3 DEF AddMember, AddLearner, PromoteMember, Promote
<1>4. ASSUME NEW n \in Nodes, Join(n) PROVE ContainersOK'
  BY <1>4 DEF Join
<1>5. ASSUME NEW n \in Nodes, Crash(n) PROVE ContainersOK'
  BY <1>5 DEF Crash
<1>6. CASE HostLeaves
  BY <1>6 DEF HostLeaves
<1>7. ASSUME Remove(Boot) PROVE ContainersOK'
  BY <1>7 DEF Remove
<1>8. CASE BtRemove \/ LateRemoval
  BY <1>1, <1>7, <1>8 DEF BtRemove, LateRemoval, RemoveTimesOut, etcdVars
<1>9. ASSUME \/ SyncCerts \/ RenderPod \/ RefreshHealth \/ CreateRevision \/ Ep
             \/ BtList \/ BtHealth \/ BtReport \/ WaitForEtcdBootstrap
             \/ CompleteBootstrap \/ NodeArrives \/ UNCHANGED vars
             \/ \E n \in Nodes : InstallDone(n)
      PROVE  UNCHANGED <<started, proc>>
  BY <1>9 DEF SyncCerts, RenderPod, RefreshHealth, CreateRevision, Ep, EpRead, EpWrite,
              BtList, BtHealth, BtReport, WaitForEtcdBootstrap, CompleteBootstrap,
              NodeArrives, InstallDone, vars, etcdVars
<1>10. QED
  BY <1>1, <1>2, <1>3, <1>4, <1>5, <1>6, <1>8, <1>9 DEF Next, Bt

(* What a revision is made from, and where it has been installed. *)
LEMMA RolloutStep == ASSUME Shape, RolloutOK, [Next]_vars PROVE RolloutOK'
<1> USE BootstrapAssumption, NodesAssumption DEF RolloutOK
<1>1. CASE UNCHANGED <<certified, pod, rolloutVars, endpoints, epSnap>>
  BY <1>1 DEF rolloutVars
<1>2. CASE SyncCerts
  BY <1>2 DEF SyncCerts, Shape, rolloutVars, endpointVars, epVars
<1>3. CASE RenderPod
  <2>1. pod' \in Pods
    BY <1>3 DEF RenderPod, Urls, Pods, Shape
  <2>2. QED
    BY <1>3, <2>1 DEF RenderPod, rolloutVars, endpointVars, epVars
<1>4. CASE RefreshHealth
  <2>1. cachedSafe' \in BOOLEAN
    BY <1>4 DEF RefreshHealth, HealthAllowsRollout
  <2>2. QED
    BY <1>4, <2>1 DEF RefreshHealth, inputVars, endpointVars, epVars
<1>5. CASE CreateRevision
  <2>1. rev' \in Revisions
    BY <1>5 DEF CreateRevision, Revisions
  <2>2. superseded' \in BOOLEAN
    BY <1>5 DEF CreateRevision
  <2>3. stale' \subseteq Nodes
    BY <1>5 DEF CreateRevision, Shape
  <2>4. QED
    BY <1>5, <2>1, <2>2, <2>3 DEF CreateRevision, inputVars, endpointVars, epVars
<1>6. ASSUME NEW n \in Nodes, InstallStart(n) PROVE RolloutOK'
  <2>1. running' \in [Nodes -> Pods]
    BY <1>6 DEF InstallStart, Revisions
  <2>2. superseded' \in BOOLEAN
    BY <1>6 DEF InstallStart
  <2>3. QED
    BY <1>6, <2>1, <2>2 DEF InstallStart, inputVars, endpointVars, epVars
<1>7. ASSUME NEW n \in Nodes, InstallDone(n) PROVE RolloutOK'
  BY <1>7 DEF InstallDone, inputVars, endpointVars, epVars
<1>8. CASE EpRead
  BY <1>8 DEF EpRead, Voters, inputVars, rolloutVars, endpointVars
<1>9. CASE EpWrite
  BY <1>9 DEF EpWrite, EpIdle, inputVars, rolloutVars
<1>10. CASE NodeArrives
  <2>1. nodes' \subseteq Nodes
    BY <1>10, ShapeStep DEF Shape
  <2>2. stale' \subseteq Nodes
    BY <1>10, <2>1 DEF NodeArrives
  <2>3. QED
    BY <1>10, <2>2 DEF NodeArrives, endpointVars, epVars
<1>11. ASSUME \/ Bt \/ WaitForEtcdBootstrap \/ CompleteBootstrap \/ HostLeaves
              \/ LateRemoval \/ UNCHANGED vars
              \/ \E n \in Nodes : AddMember(n) \/ PromoteMember(n) \/ Join(n) \/ Crash(n)
       PROVE  UNCHANGED <<certified, pod, rolloutVars, endpoints, epSnap>>
  BY <1>11 DEF Bt, BtList, BtHealth, BtReport, BtRemove, WaitForEtcdBootstrap,
               CompleteBootstrap, HostLeaves, LateRemoval, AddMember, PromoteMember, Join,
               Crash, vars, inputVars, endpointVars, epVars
<1>12. QED
  BY <1>1, <1>2, <1>3, <1>4, <1>5, <1>6, <1>7, <1>8, <1>9, <1>10, <1>11 DEF Next, Ep

(* The places of the controllers and of the bootstrap host. *)
LEMMA ControlStep == ASSUME ControlOK, [Next]_vars PROVE ControlOK'
<1> USE DEF ControlOK
<1>1. CASE UNCHANGED <<inCluster, bootkube, btPc, epPc, faults>>
  BY <1>1
<1>2. CASE Ep
  BY <1>2 DEF Ep, EpRead, EpWrite, EpIdle, hostVars, btVars
<1>3. CASE BtList \/ BtHealth
  BY <1>3 DEF BtList, BtHealth, hostVars, epVars
<1>4. CASE BtReport
  BY <1>4 DEF BtReport, hostVars, epVars
<1>5. CASE BtRemove
  BY <1>5 DEF BtRemove, RemoveTimesOut, epVars
<1>6. CASE WaitForEtcdBootstrap \/ CompleteBootstrap
  BY <1>6 DEF WaitForEtcdBootstrap, CompleteBootstrap, btVars, epVars
<1>7. CASE \E n \in Nodes : Crash(n)
  BY <1>7 DEF Crash, btVars, epVars
<1>8. ASSUME \/ SyncCerts \/ RenderPod \/ RefreshHealth \/ CreateRevision \/ HostLeaves
             \/ NodeArrives \/ LateRemoval \/ UNCHANGED vars
             \/ \E n \in Nodes : \/ InstallStart(n) \/ InstallDone(n) \/ AddMember(n)
                                 \/ PromoteMember(n) \/ Join(n)
      PROVE  UNCHANGED <<inCluster, bootkube, btPc, epPc, faults>>
  BY <1>8 DEF SyncCerts, RenderPod, RefreshHealth, CreateRevision, HostLeaves, NodeArrives,
              LateRemoval, InstallStart, InstallDone, AddMember, PromoteMember, Join, vars,
              hostVars, btVars, epVars
<1>9. QED
  BY <1>1, <1>2, <1>3, <1>4, <1>5, <1>6, <1>7, <1>8 DEF Next, Bt

(* TypeOK, by its parts. *)
LEMMA Parts == Shape /\ ContainersOK /\ RolloutOK /\ ControlOK => TypeOK
  BY BootstrapAssumption DEF TypeOK, Shape, ContainersOK, RolloutOK, ControlOK, Ops

(* Every variable stays in its type, for every strategy and any number of nodes and
   faults: the nodes of every revision and pod are nodes of the cluster. *)
THEOREM TypeCorrect == Spec => []TypeOK
<1>1. Init => ContainersOK /\ RolloutOK /\ ControlOK
  <2> SUFFICES ASSUME Init PROVE ContainersOK /\ RolloutOK /\ ControlOK
    OBVIOUS
  <2>1. NoPod \in Pods /\ NoRevision \in Revisions
    BY DEF NoPod, NoRevision, Pods, Revisions
  <2>2. stale \subseteq Nodes
    BY InstallInit DEF Init, InstallInv, Shape
  <2>3. ContainersOK
    BY DEF Init, ContainersOK
  <2>4. RolloutOK
    BY <2>1, <2>2 DEF Init, RolloutOK
  <2>5. ControlOK
    BY DEF Init, ControlOK
  <2>6. QED
    BY <2>3, <2>4, <2>5
<1>2. /\ Shape /\ ContainersOK /\ [Next]_vars => ContainersOK'
      /\ Shape /\ RolloutOK /\ [Next]_vars => RolloutOK'
      /\ ControlOK /\ [Next]_vars => ControlOK'
  BY ContainersStep, RolloutStep, ControlStep
<1>3. InstallInv => Shape
  BY DEF InstallInv
<1>4. QED
  BY <1>1, <1>2, <1>3, InstallInvariant, Parts, PTL DEF Spec
=============================================================================
