------------------------ MODULE TwoNodeClusterProofs ------------------------
(***************************************************************************)
(* What the handover of etcd to Pacemaker and the return of a node keep    *)
(* safe, for any number of crashes, restarts and replaced machines.        *)
(***************************************************************************)
EXTENDS TwoNodeCluster, FiniteSetTheorems, TLAPS

(* How far the setup job has come says what Pacemaker has been given. *)
OrderFrom == {"colocation", "signal", "wait"}
EtcdFrom == {"constraints"} \cup OrderFrom
FencedFrom == {"alerts", "etcd"} \cup EtcdFrom
KubeletFrom == {"enable", "fencing"} \cup FencedFrom
StartedFrom == {"kubelet"} \cup KubeletFrom

Fences == \A n \in Nodes : pcs.fenced[n] >= 0

PreparedInv ==
    /\ setup.pc = "start" => members = Nodes /\ \A n \in Nodes : machine[n].conf
    /\ setup.pc \in StartedFrom => setup.on \in online
    /\ setup.pc \in KubeletFrom => pcs.kubelet
    /\ setup.pc \in FencedFrom => Fences
    /\ setup.pc \in EtcdFrom => pcs.etcd
    /\ setup.pc \in OrderFrom => pcs.order
    /\ pcs.colocation => pcs.order

(* The setup job works before the handover is over, update-setup only after it. *)
SetupRuns == setup.pc \in SetupPcs \ {"complete"}
UpdRuns == upd.pc \in UpdPcs \ {"complete"}
TurnsInv ==
    /\ SetupRuns => cond # "completed"
    /\ ctl = "runtime" => cond = "completed"
    /\ UpdRuns => cond = "completed"

(* update-setup runs on a member that is online and does not remove that one; who is
   online is a machine that is on and has the configuration of the cluster. *)
SurviveInv ==
    /\ \A n \in online : machine[n].on /\ machine[n].conf
    /\ UpdRuns => upd.on \in online /\ upd.on \notin upd.off
    /\ ClusterSurvives

ClusterInv == TypeOK /\ TurnsInv /\ PreparedInv /\ SurviveInv

(* There are two nodes: each has another one. *)
LEMMA OtherNode == ASSUME NEW n \in Nodes PROVE Other(n) \in Nodes /\ Other(n) # n
<1>1. IsFiniteSet(Nodes \ {n}) /\ Cardinality(Nodes \ {n}) = 1
  BY ClusterAssumption, FS_RemoveElement
<1>2. Nodes \ {n} # {}
  BY <1>1, FS_EmptySet
<1>3. QED
  BY <1>2 DEF Other

(* The UIDs of the machines are the latest there are. *)
LEMMA GensTyped ==
  ASSUME TypeOK
  PROVE  Gens \in [Nodes -> Int] /\ \A n \in Nodes : Gens[n] \in 0..machine[n].gen
BY DEF TypeOK, Gens, Machines

(* The operator, auth, after-setup and fencing keep to their types. *)
LEMMA TypeOperator ==
  ASSUME TypeOK, Lifecycle \/ BootstrapEnds \/ \E n \in Nodes : NodeJobs(n)
  PROVE  TypeOK'
<1> USE DEF TypeOK, operatorVars, podVars, jobVars, pcsVars
<1>1. CASE Lifecycle \/ BootstrapEnds
  BY <1>1 DEF Lifecycle, BootstrapEnds, StartBootstrapControllers, StartRuntimeControllers
<1>2. ASSUME NEW n \in Nodes, AuthRuns(n) PROVE TypeOK'
  BY <1>2 DEF AuthRuns, Authenticate, Machines
<1>3. ASSUME NEW n \in Nodes, AfterSetupRuns(n) PROVE TypeOK'
  <2>1. /\ machine' \in [Nodes -> Machines]
        /\ \A m \in Nodes : machine'[m].gen = machine[m].gen
    BY <1>3 DEF AfterSetupRuns, Machines
  <2>2. QED
    BY <1>3, <2>1 DEF AfterSetupRuns, Machines
<1>4. ASSUME NEW n \in Nodes, FencingRuns(n) PROVE TypeOK'
  BY <1>4, GensTyped DEF FencingRuns, PcsConfigs
<1>5. QED
  BY <1>1, <1>2, <1>3, <1>4 DEF NodeJobs

(* A step that changes neither the machines nor what their generations bound. *)
SameBounds ==
    /\ machine' \in [Nodes -> Machines]
    /\ \A m \in Nodes : machine'[m].gen = machine[m].gen

(* The Pacemaker configuration keeps to its type and names no machine to come. *)
PcsTyped(p) ==
    /\ p \in PcsConfigs
    /\ \A n \in Nodes : p.fenced[n] <= machine[n].gen /\ p.ipMap[n] <= machine[n].gen

(* The next step of a setup job that runs is one of its steps. *)
LEMMA SetupStepTyped ==
  ASSUME TypeOK, setup.pc \in SetupPcs, NEW l \in SetupPcs, SetupGoes(l)
  PROVE  setup' \in SetupJobs
<1>1. setup \in SetupJobs
  BY DEF TypeOK, NoJob, SetupPcs
<1>2. QED
  BY <1>1 DEF SetupGoes, SetupJobs

(* The same of update-setup. *)
LEMMA UpdStepTyped ==
  ASSUME TypeOK, upd.pc \in UpdPcs
  PROVE  /\ upd \in UpdJobs
         /\ \A l \in UpdPcs : UpdGoes(l) => upd' \in UpdJobs
<1>1. upd \in UpdJobs
  BY DEF TypeOK, NoJob, UpdPcs
<1>2. QED
  BY <1>1 DEF UpdGoes, UpdJobs

(* A start of the kubelet is all that it is. *)
LEMMA KubeletKept ==
  ASSUME TypeOK, NEW N, KubeletRunsOn(N)
  PROVE  /\ machine' \in [Nodes -> Machines]
         /\ \A m \in Nodes : /\ machine'[m].gen = machine[m].gen
                            /\ machine'[m].on = machine[m].on
                            /\ machine'[m].conf = machine[m].conf
BY DEF TypeOK, Machines, KubeletRunsOn

(* So is a stop. *)
LEMMA StoppedKept ==
  ASSUME TypeOK, NEW n \in Nodes
  PROVE  /\ Stopped(n) \in Machines /\ Stopped(n).gen = machine[n].gen
         /\ Stopped(n).on = machine[n].on /\ Stopped(n).conf = machine[n].conf
BY DEF TypeOK, Machines, Stopped

(* The steps of the setup job do. *)
LEMMA TypeSetup == ASSUME TypeOK, Setup \/ SetupFails PROVE TypeOK'
<1> USE DEF operatorVars, podVars, jobVars, pcsVars, SetupUnchanged
<1>1. ASSUME NEW n \in Nodes, SetupStarts(n) PROVE TypeOK'
  BY <1>1 DEF SetupStarts, TypeOK, SetupJobs, SetupPcs
<1>2. CASE ConfigureCluster
  <2>1. setup' \in SetupJobs
    BY <1>2, SetupStepTyped DEF ConfigureCluster, SetupAt, SetupPcs
  <2>2. CASE UNCHANGED <<machine, pcsVars>>
    BY <1>2, <2>1, <2>2 DEF ConfigureCluster, TypeOK
  <2>3. CASE pcs' = NewPcs /\ members' = Nodes /\ online' = {} /\ UNCHANGED <<cond, podVars>>
             /\ machine' = [n \in Nodes |->
                  [machine[n] EXCEPT !.conf = TRUE,
                                     !.kubelet = @ /\ ~(pcs.kubelet /\ n \in online)]]
    <3>1. SameBounds
      BY <2>3 DEF SameBounds, TypeOK, Machines
    <3>2. PcsTyped(pcs')
      <4>1. /\ NewPcs \in PcsConfigs
            /\ \A n \in Nodes : NewPcs.fenced[n] = -1 /\ NewPcs.ipMap[n] = -1
        BY DEF NewPcs, PcsConfigs
      <4>2. \A n \in Nodes : machine[n].gen \in Nat
        BY DEF TypeOK, Machines
      <4>3. PcsTyped(NewPcs)
        BY <4>1, <4>2 DEF PcsTyped
      <4>4. pcs' = NewPcs
        BY <2>3
      <4>5. QED
        BY <4>3, <4>4
    <3>3. QED
      BY <1>2, <2>1, <2>3, <3>1, <3>2
         DEF ConfigureCluster, TypeOK, PcsTyped, SameBounds
  <2>4. QED
    BY <1>2, <2>2, <2>3 DEF ConfigureCluster
<1>3. ASSUME PcsTyped(pcs'), setup' \in SetupJobs,
             UNCHANGED <<cond, machine, podVars, members, online>>, SetupUnchanged
      PROVE  TypeOK'
  BY <1>3 DEF TypeOK, PcsTyped
<1>4. CASE EnableCluster \/ ConfigureConstraints \/ AddColocation
  <2>1. setup' \in SetupJobs
    BY <1>4, SetupStepTyped
       DEF EnableCluster, ConfigureConstraints, AddColocation, SetupAt, SetupPcs
  <2>2. PcsTyped(pcs')
    BY <1>4 DEF EnableCluster, ConfigureConstraints, AddColocation, TypeOK, PcsTyped, PcsConfigs
  <2>3. QED
    BY <1>3, <1>4, <2>1, <2>2 DEF EnableCluster, ConfigureConstraints, AddColocation
<1>5. CASE ConfigureFencing
  <2>1. setup' \in SetupJobs
    BY <1>5, SetupStepTyped DEF ConfigureFencing, SetupAt, SetupPcs
  <2>2. PcsTyped(pcs')
    BY <1>5, GensTyped DEF ConfigureFencing, TypeOK, PcsTyped, PcsConfigs, Machines
  <2>3. QED
    BY <1>3, <1>5, <2>1, <2>2 DEF ConfigureFencing
<1>6. CASE ConfigureAlerts
  <2>1. setup' \in SetupJobs
    BY <1>6, SetupStepTyped DEF ConfigureAlerts, SetupAt, SetupPcs
  <2>2. PcsTyped(pcs')
    BY <1>6 DEF ConfigureAlerts, TypeOK, PcsTyped, PcsConfigs
  <2>3. QED
    BY <1>3, <1>6, <2>1, <2>2 DEF ConfigureAlerts
<1>7. CASE ConfigureEtcd
  <2>1. setup' \in SetupJobs
    BY <1>7, SetupStepTyped DEF ConfigureEtcd, SetupAt, SetupPcs
  <2>2. PcsTyped(pcs')
    <3>1. PcsTyped([pcs EXCEPT !.etcd = TRUE])
      BY DEF TypeOK, PcsTyped, PcsConfigs
    <3>2. PcsTyped([pcs EXCEPT !.etcd = TRUE, !.ipMap = Gens])
      <4> DEFINE p == [pcs EXCEPT !.etcd = TRUE, !.ipMap = Gens]
      <4>1. p \in PcsConfigs /\ p.ipMap = Gens /\ p.fenced = pcs.fenced
        BY GensTyped DEF TypeOK, PcsConfigs
      <4>2. QED
        BY <4>1, GensTyped DEF TypeOK, PcsTyped, Machines
    <3>3. pcs' \in {[pcs EXCEPT !.etcd = TRUE], [pcs EXCEPT !.etcd = TRUE, !.ipMap = Gens]}
      BY <1>7 DEF ConfigureEtcd, TypeOK, PcsConfigs
    <3>4. QED
      BY <3>1, <3>2, <3>3
  <2>3. QED
    BY <1>3, <1>7, <2>1, <2>2 DEF ConfigureEtcd
<1>8. CASE SetupAuthed \/ SignalTransition \/ CompleteTransition
  <2>1. setup' \in SetupJobs
    BY <1>8, SetupStepTyped
       DEF SetupAuthed, SignalTransition, CompleteTransition, SetupAt, SetupPcs
  <2>2. QED
    BY <1>8, <2>1 DEF SetupAuthed, SignalTransition, CompleteTransition, TypeOK
<1>9. CASE SetupUnreachable
  BY <1>9 DEF SetupUnreachable, TypeOK
<1>10. CASE SetupFails
  BY <1>10, ClusterAssumption DEF SetupFails, TypeOK
<1>11. CASE StartCluster
  <2>1. setup' \in SetupJobs
    BY <1>11, SetupStepTyped DEF StartCluster, SetupAt, SetupPcs
  <2>2. QED
    BY <1>11, <2>1 DEF StartCluster, TypeOK
<1>12. CASE CreateKubelet
  <2>1. setup' \in SetupJobs
    BY <1>12, SetupStepTyped DEF CreateKubelet, SetupAt, SetupPcs
  <2>2. PcsTyped(pcs')
    BY <1>12 DEF CreateKubelet, TypeOK, PcsTyped, PcsConfigs
  <2>3. SameBounds
    BY <1>12, KubeletKept DEF CreateKubelet, SameBounds
  <2>4. QED
    BY <1>12, <2>1, <2>2, <2>3 DEF CreateKubelet, TypeOK, PcsTyped, SameBounds
<1>13. QED
  BY <1>1, <1>2, <1>4, <1>5, <1>6, <1>7, <1>8, <1>9, <1>10, <1>11, <1>12 DEF Setup

(* So do the steps of update-setup. *)
LEMMA TypeUpdate ==
  ASSUME TypeOK, UpdateStep \/ UpdateCrashes \/ \E n \in Nodes : UpdateStarts(n)
  PROVE  TypeOK'
<1> USE DEF operatorVars, podVars, jobVars, pcsVars, UpdUnchanged
<1>1. ASSUME NEW n \in Nodes, UpdateStarts(n) PROVE TypeOK'
  BY <1>1 DEF UpdateStarts, ActiveNodes, ReadyNodes, TypeOK, UpdJobs, UpdPcs
<1>2. CASE UpdateAlerts \/ UpdateFencing \/ UpdateResource \/ UpdateEnables
  <2>1. upd' \in UpdJobs
    BY <1>2, UpdStepTyped
       DEF UpdateAlerts, UpdateFencing, UpdateResource, UpdateEnables, UpdAt, UpdPcs
  <2>2. PcsTyped(pcs')
    <3>1. PcsTyped([pcs EXCEPT !.alerts = TRUE]) /\ PcsTyped([pcs EXCEPT !.enabled = TRUE])
      BY DEF TypeOK, PcsTyped, PcsConfigs
    <3>2. PcsTyped([pcs EXCEPT !.fenced = Gens]) /\ PcsTyped([pcs EXCEPT !.ipMap = Gens])
      BY GensTyped DEF TypeOK, PcsTyped, PcsConfigs, Machines
    <3>3. QED
      BY <1>2, <3>1, <3>2 DEF UpdateAlerts, UpdateFencing, UpdateResource, UpdateEnables
  <2>3. QED
    BY <1>2, <2>1, <2>2
       DEF UpdateAlerts, UpdateFencing, UpdateResource, UpdateEnables, TypeOK, PcsTyped
<1>3. CASE UpdatePlan
  <2>1. upd \in UpdJobs /\ \A l \in UpdPcs : UpdGoes(l) => upd' \in UpdJobs
    BY <1>3, UpdStepTyped DEF UpdatePlan, UpdAt, UpdPcs
  <2>2. [upd EXCEPT !.pc = "add", !.force = TRUE] \in UpdJobs
    BY <2>1 DEF UpdJobs, UpdPcs
  <2>3. upd' \in UpdJobs
    BY <1>3, <2>1, <2>2 DEF UpdatePlan, UpdPcs
  <2>4. QED
    BY <1>3, <2>3 DEF UpdatePlan, TypeOK
<1>4. CASE UpdateStable \/ UpdateValidates
  <2>1. upd' \in UpdJobs
    BY <1>4, UpdStepTyped DEF UpdateStable, UpdateValidates, UpdAt, UpdPcs
  <2>2. QED
    BY <1>4, <2>1 DEF UpdateStable, UpdateValidates, TypeOK
<1>5. CASE UpdateStops \/ UpdateRemoves
  <2>1. upd' \in UpdJobs
    BY <1>5, UpdStepTyped DEF UpdateStops, UpdateRemoves, UpdAt, UpdPcs
  <2>2. SameBounds
    <3>1. CASE machine' = [n \in Nodes |-> Stopped(n)]
      BY <3>1, StoppedKept DEF SameBounds
    <3>2. CASE machine' = [n \in Nodes |->
                 [Stopped(n) EXCEPT !.conf = @ /\ ~(n \in upd.off /\ machine[n].on)]]
      BY <3>2, StoppedKept DEF Machines, SameBounds
    <3>3. QED
      BY <1>5, <3>1, <3>2 DEF UpdateStops, UpdateRemoves
  <2>3. QED
    BY <1>5, <2>1, <2>2 DEF UpdateStops, UpdateRemoves, TypeOK, SameBounds
<1>6. CASE UpdateAdds
  <2>1. upd' \in UpdJobs /\ upd \in UpdJobs
    BY <1>6, UpdStepTyped DEF UpdateAdds, UpdAt, UpdPcs
  <2>2. Other(upd.on) \in Nodes
    BY <2>1, OtherNode DEF UpdJobs
  <2>3. SameBounds
    <3>1. machine' = [machine EXCEPT ![Other(upd.on)].conf = TRUE]
      BY <1>6 DEF UpdateAdds
    <3>2. QED
      BY <2>2, <3>1 DEF TypeOK, Machines, SameBounds
  <2>4. members' \subseteq Nodes /\ online' \subseteq members'
    BY <1>6, <2>2 DEF UpdateAdds, TypeOK
  <2>5. QED
    BY <1>6, <2>1, <2>3, <2>4 DEF UpdateAdds, TypeOK, SameBounds
<1>7. CASE UpdateStartsAll
  <2>1. upd' \in {NoJob} \cup UpdJobs
    BY <1>7, UpdStepTyped DEF UpdateStartsAll, UpdAt, UpdPcs
  <2>2. SameBounds
    BY <1>7, KubeletKept DEF UpdateStartsAll, SameBounds
  <2>3. QED
    BY <1>7, <2>1, <2>2 DEF UpdateStartsAll, TypeOK, SameBounds, Reached
<1>8. CASE UpdateFails \/ UpdateRetargeted
  BY <1>8 DEF UpdateFails, UpdateRetargeted, TypeOK
<1>9. CASE UpdateCrashes
  BY <1>9, ClusterAssumption DEF UpdateCrashes, TypeOK
<1>10. QED
  BY <1>1, <1>2, <1>3, <1>4, <1>5, <1>6, <1>7, <1>8, <1>9 DEF UpdateStep

(* So do the static pods, the machines and a restart of the operator. *)
LEMMA TypeEnvironment ==
  ASSUME TypeOK, \/ Pods \/ OperatorRestarts
                 \/ \E n \in Nodes : PowerOff(n) \/ PowerOn(n) \/ Replace(n)
  PROVE  TypeOK'
<1> USE ClusterAssumption DEF TypeOK, operatorVars, podVars, jobVars, pcsVars
<1>1. CASE Pods
  BY <1>1 DEF Pods, RenderPod, InstallPod
<1>2. CASE OperatorRestarts
  BY <1>2 DEF OperatorRestarts
<1>3. ASSUME NEW n \in Nodes, PowerOff(n) PROVE TypeOK'
  <2>1. /\ machine' \in [Nodes -> Machines]
        /\ \A m \in Nodes : machine'[m].gen = machine[m].gen
    <3>1. machine' = [machine EXCEPT ![n].on = FALSE, ![n].kubelet = FALSE]
      BY <1>3 DEF PowerOff
    <3>2. QED
      BY <3>1 DEF Machines
  <2>2. QED
    BY <1>3, <2>1 DEF PowerOff, Without
<1>4. ASSUME NEW n \in Nodes, PowerOn(n) PROVE TypeOK'
  <2>1. /\ machine' \in [Nodes -> Machines]
        /\ \A m \in Nodes : machine'[m].gen = machine[m].gen
    BY <1>4 DEF PowerOn, Machines
  <2>2. QED
    BY <1>4, <2>1 DEF PowerOn, Restarted
<1>5. ASSUME NEW n \in Nodes, Replace(n) PROVE TypeOK'
  <2>1. /\ machine' \in [Nodes -> Machines]
        /\ \A m \in Nodes : machine'[m].gen >= machine[m].gen
        /\ \A m \in Nodes : machine[m].gen \in Nat /\ machine'[m].gen \in Nat
    BY <1>5 DEF Replace, Machines
  <2>2. pcs.fenced \in [Nodes -> Int] /\ pcs.ipMap \in [Nodes -> Int]
    BY DEF PcsConfigs
  <2>3. QED
    BY <1>5, <2>1, <2>2 DEF Replace, Restarted
<1>6. QED
  BY <1>1, <1>2, <1>3, <1>4, <1>5

(* Every state the operator, the jobs and the machines reach is typed. *)
LEMMA TypeStep == TypeOK /\ [Next]_vars => TypeOK'
<1>1. TypeOK /\ UNCHANGED vars => TypeOK'
  BY DEF TypeOK, vars
<1>2. QED
  BY <1>1, TypeOperator, TypeSetup, TypeUpdate, TypeEnvironment DEF Next, Faults

(* A cluster that is being installed is typed. *)
LEMMA TypeInit == Init => TypeOK
BY ClusterAssumption
   DEF Init, TypeOK, Machines, PcsConfigs, NewPcs, NoJob

(* The jobs run on nodes of the cluster, who is online is a member, and no job and no part
   of the Pacemaker configuration claims a machine that is yet to come. *)
THEOREM TypeCorrect == Spec => []TypeOK
  BY TypeInit, TypeStep, PTL DEF Spec

-----------------------------------------------------------------------------
(* Who may work when. *)

(* A job that is gone does not run. *)
LEMMA NoJobRests == NoJob.pc \notin SetupPcs /\ NoJob.pc \notin UpdPcs
BY DEF NoJob, SetupPcs, UpdPcs

(* A setup job that goes on runs where it ran. *)
LEMMA SetupGoesOn ==
  ASSUME TypeOK, setup.pc \in SetupPcs, NEW l, SetupGoes(l)
  PROVE  setup'.pc = l /\ setup'.on = setup.on
<1>1. setup \in SetupJobs
  BY DEF TypeOK, NoJob, SetupPcs
<1>2. QED
  BY <1>1 DEF SetupGoes, SetupJobs

(* So does update-setup, and it keeps what it saw. *)
LEMMA UpdGoesOn ==
  ASSUME TypeOK, upd.pc \in UpdPcs
  PROVE  /\ upd \in UpdJobs
         /\ \A l : UpdGoes(l) => upd'.on = upd.on /\ upd'.off = upd.off /\ upd'.pc = l
<1>1. upd \in UpdJobs
  BY UpdStepTyped
<1>2. QED
  BY <1>1 DEF UpdGoes, UpdJobs

(* setup works before the handover is over and update-setup after it. *)
LEMMA TurnsStep == ASSUME TypeOK, TurnsInv, [Next]_vars PROVE TurnsInv'
<1> USE DEF operatorVars, podVars, jobVars, pcsVars, SetupUnchanged, UpdUnchanged
<1>1. CASE UNCHANGED vars
  BY <1>1 DEF vars, TurnsInv, SetupRuns, UpdRuns
<1>2. CASE Lifecycle \/ BootstrapEnds \/ OperatorRestarts \/ Pods
  BY <1>2 DEF Lifecycle, StartBootstrapControllers, StartRuntimeControllers, BootstrapEnds,
     OperatorRestarts, Pods, RenderPod, InstallPod, TurnsInv, SetupRuns, UpdRuns
<1>3. ASSUME NEW n \in Nodes, NodeJobs(n) PROVE TurnsInv'
  BY <1>3 DEF NodeJobs, AuthRuns, AfterSetupRuns, FencingRuns, TurnsInv, SetupRuns, UpdRuns
<1>4. ASSUME NEW n \in Nodes, SetupStarts(n) PROVE TurnsInv'
  BY <1>4 DEF SetupStarts, TurnsInv, SetupRuns, UpdRuns
<1>5. CASE SetupUnreachable \/ SetupFails
  BY <1>5, NoJobRests DEF SetupUnreachable, SetupFails, TurnsInv, SetupRuns, UpdRuns
<1>6. ASSUME SetupRuns, UNCHANGED <<boot, ctl, upd>>,
             cond' = cond \/ (cond' = "ready" /\ cond # "completed")
      PROVE  TurnsInv'
  BY <1>6 DEF TurnsInv, SetupRuns, UpdRuns
<1>7. CASE \/ SetupAuthed \/ ConfigureCluster \/ StartCluster \/ CreateKubelet \/ EnableCluster
           \/ ConfigureFencing \/ ConfigureAlerts \/ ConfigureEtcd \/ ConfigureConstraints
           \/ AddColocation \/ SignalTransition
  BY <1>6, <1>7 DEF SetupAuthed, ConfigureCluster, StartCluster, CreateKubelet, EnableCluster,
     ConfigureFencing, ConfigureAlerts, ConfigureEtcd, ConfigureConstraints, AddColocation,
     SignalTransition, SetupAt, SetupRuns, SetupPcs
<1>8. CASE CompleteTransition
  BY <1>8, SetupGoesOn DEF CompleteTransition, SetupAt, SetupPcs, TurnsInv, SetupRuns, UpdRuns
<1>9. ASSUME NEW n \in Nodes, UpdateStarts(n) PROVE TurnsInv'
  BY <1>9 DEF UpdateStarts, TurnsInv, SetupRuns, UpdRuns
<1>10. ASSUME UNCHANGED <<operatorVars, setup>>, UpdRuns \/ upd' = NoJob \/ upd' = upd
       PROVE  TurnsInv'
  BY <1>10, NoJobRests DEF TurnsInv, SetupRuns, UpdRuns
<1>11. CASE UpdateStep \/ UpdateCrashes
  BY <1>10, <1>11 DEF UpdateStep, UpdateAlerts, UpdatePlan, UpdateStable, UpdateStops,
     UpdateRemoves, UpdateAdds, UpdateFencing, UpdateResource, UpdateEnables, UpdateStartsAll,
     UpdateValidates, UpdateFails, UpdateRetargeted, UpdateCrashes, UpdAt, UpdRuns, UpdPcs
<1>12. ASSUME NEW n \in Nodes, PowerOff(n) PROVE TurnsInv'
  BY <1>12, NoJobRests DEF PowerOff, Without, TurnsInv, SetupRuns, UpdRuns
<1>13. ASSUME NEW n \in Nodes, PowerOn(n) \/ Replace(n) PROVE TurnsInv'
  BY <1>10, <1>13 DEF PowerOn, Replace, Restarted
<1>14. QED
  BY <1>1, <1>2, <1>3, <1>4, <1>5, <1>7, <1>8, <1>9, <1>11, <1>12, <1>13
     DEF Next, Setup, Faults

-----------------------------------------------------------------------------
(* What Pacemaker has, for each step of the setup job. *)

(* Steps that change the Pacemaker configuration take nothing away from it. *)
PcsGrows ==
    /\ pcs.kubelet => pcs'.kubelet
    /\ pcs.etcd => pcs'.etcd
    /\ pcs.order => pcs'.order
    /\ pcs'.colocation = pcs.colocation
    /\ Fences => Fences'

(* Each change of the configuration but pcs cluster setup is of that kind. *)
LEMMA PcsChanges ==
  ASSUME TypeOK,
         \/ UNCHANGED pcs
         \/ pcs' = [pcs EXCEPT !.fenced = Gens] \/ pcs' = [pcs EXCEPT !.ipMap = Gens]
         \/ pcs' = [pcs EXCEPT !.alerts = TRUE] \/ pcs' = [pcs EXCEPT !.enabled = TRUE]
  PROVE  PcsGrows
<1>1. CASE UNCHANGED pcs
  BY <1>1 DEF PcsGrows, Fences
<1>2. CASE pcs' = [pcs EXCEPT !.fenced = Gens]
  <2>1. /\ pcs'.fenced = Gens /\ pcs'.etcd = pcs.etcd /\ pcs'.order = pcs.order
        /\ pcs'.kubelet = pcs.kubelet /\ pcs'.colocation = pcs.colocation
    BY <1>2 DEF TypeOK, PcsConfigs
  <2>2. QED
    BY <2>1, GensTyped DEF PcsGrows, Fences
<1>3. CASE \/ pcs' = [pcs EXCEPT !.ipMap = Gens] \/ pcs' = [pcs EXCEPT !.alerts = TRUE]
           \/ pcs' = [pcs EXCEPT !.enabled = TRUE]
  <2>1. /\ pcs'.fenced = pcs.fenced /\ pcs'.etcd = pcs.etcd /\ pcs'.order = pcs.order
        /\ pcs'.kubelet = pcs.kubelet /\ pcs'.colocation = pcs.colocation
    BY <1>3 DEF TypeOK, PcsConfigs
  <2>2. QED
    BY <2>1 DEF PcsGrows, Fences
<1>4. QED
  BY <1>1, <1>2, <1>3

(* What the setup job has behind it stays while nothing is taken away. *)
LEMMA PreparedKept ==
  ASSUME PreparedInv, PcsGrows, setup' = setup \/ ~SetupRuns',
         SetupRuns => /\ members' = members
                      /\ setup.on \in online => setup.on \in online'
                      /\ \A n \in Nodes : machine[n].conf => machine'[n].conf
  PROVE  PreparedInv'
<1> USE DEF SetupRuns, SetupPcs, StartedFrom, KubeletFrom, FencedFrom, EtcdFrom, OrderFrom
<1>1. CASE setup' = setup /\ SetupRuns
  BY <1>1 DEF PreparedInv, PcsGrows
<1>2. CASE ~SetupRuns'
  BY <1>2 DEF PreparedInv, PcsGrows
<1>3. QED
  BY <1>1, <1>2

(* What is not the setup job leaves it what it has. *)
LEMMA PreparedElsewhere ==
  ASSUME TypeOK, TurnsInv, PreparedInv,
         \/ Lifecycle \/ BootstrapEnds \/ OperatorRestarts \/ Pods \/ UpdateStep
         \/ UpdateCrashes \/ SetupUnreachable \/ SetupFails
         \/ \E n \in Nodes : \/ NodeJobs(n) \/ UpdateStarts(n)
                             \/ PowerOff(n) \/ PowerOn(n) \/ Replace(n)
         \/ UNCHANGED vars
  PROVE  PreparedInv'
<1> USE DEF operatorVars, podVars, jobVars, pcsVars, SetupUnchanged, UpdUnchanged
<1>1. UpdRuns => ~SetupRuns
  BY DEF TurnsInv
<1>2. setup' = NoJob => ~SetupRuns'
  BY NoJobRests DEF SetupRuns
<1>3. CASE Lifecycle \/ BootstrapEnds \/ OperatorRestarts \/ Pods \/ UNCHANGED vars
  BY <1>3, PreparedKept, PcsChanges DEF Lifecycle, StartBootstrapControllers,
     StartRuntimeControllers, BootstrapEnds, OperatorRestarts, Pods, RenderPod, InstallPod, vars
<1>4. CASE SetupUnreachable \/ SetupFails
  BY <1>2, <1>4 DEF SetupUnreachable, SetupFails, PreparedInv, SetupRuns, SetupPcs,
     StartedFrom, KubeletFrom, FencedFrom, EtcdFrom, OrderFrom
<1>5. ASSUME NEW n \in Nodes, NodeJobs(n) PROVE PreparedInv'
  <2>1. PcsGrows
    BY <1>5, PcsChanges DEF NodeJobs, AuthRuns, AfterSetupRuns, FencingRuns
  <2>2. \A m \in Nodes : machine[m].conf => machine'[m].conf
    BY <1>5 DEF NodeJobs, AuthRuns, AfterSetupRuns, FencingRuns, TypeOK, Machines
  <2>3. QED
    BY <1>5, <2>1, <2>2, PreparedKept DEF NodeJobs, AuthRuns, AfterSetupRuns, FencingRuns
<1>6. CASE UpdateStep \/ UpdateCrashes
  <2>1. setup' = setup
    BY <1>6 DEF UpdateStep, UpdateAlerts, UpdatePlan, UpdateStable, UpdateStops, UpdateRemoves,
       UpdateAdds, UpdateFencing, UpdateResource, UpdateEnables, UpdateStartsAll,
       UpdateValidates, UpdateFails, UpdateRetargeted, UpdateCrashes
  <2>2. UpdRuns \/ UNCHANGED <<machine, pcsVars>>
    BY <1>6 DEF UpdateStep, UpdateAlerts, UpdatePlan, UpdateStable, UpdateStops, UpdateRemoves,
       UpdateAdds, UpdateFencing, UpdateResource, UpdateEnables, UpdateStartsAll,
       UpdateValidates, UpdateFails, UpdateRetargeted, UpdateCrashes, UpdAt, UpdRuns, UpdPcs
  <2>3. PcsGrows
    BY <1>6, PcsChanges DEF UpdateStep, UpdateAlerts, UpdatePlan, UpdateStable, UpdateStops,
       UpdateRemoves, UpdateAdds, UpdateFencing, UpdateResource, UpdateEnables,
       UpdateStartsAll, UpdateValidates, UpdateFails, UpdateRetargeted, UpdateCrashes
  <2>4. QED
    BY <1>1, <2>1, <2>2, <2>3, PreparedKept
<1>7. ASSUME NEW n \in Nodes, UpdateStarts(n) PROVE PreparedInv'
  BY <1>7, PreparedKept, PcsChanges DEF UpdateStarts
<1>8. ASSUME NEW n \in Nodes, PowerOff(n) PROVE PreparedInv'
  <2>1. (setup' = setup /\ (SetupRuns => setup.on # n)) \/ setup' = NoJob
    BY <1>8 DEF PowerOff, Without, SetupRuns, NoJob, SetupPcs
  <2>2. \A m \in Nodes : machine'[m].conf = machine[m].conf
    BY <1>8 DEF PowerOff, TypeOK, Machines
  <2>3. CASE setup' = NoJob
    BY <1>2, <1>8, <2>3 DEF PowerOff, PreparedInv, SetupRuns, SetupPcs, StartedFrom, KubeletFrom, FencedFrom,
       EtcdFrom, OrderFrom
  <2>4. CASE setup' = setup /\ (SetupRuns => setup.on # n)
    BY <1>8, <2>2, <2>4, PreparedKept, PcsChanges DEF PowerOff
  <2>5. QED
    BY <2>1, <2>3, <2>4
<1>9. ASSUME NEW n \in Nodes, PowerOn(n) PROVE PreparedInv'
  <2>1. \A m \in Nodes : machine'[m].conf = machine[m].conf
    BY <1>9 DEF PowerOn, TypeOK, Machines
  <2>2. QED
    BY <1>9, <2>1, PreparedKept, PcsChanges DEF PowerOn
<1>10. ASSUME NEW n \in Nodes, Replace(n) PROVE PreparedInv'
  <2>1. ~SetupRuns
    BY <1>10 DEF Replace, TurnsInv
  <2>2. QED
    BY <1>10, <2>1, PreparedKept, PcsChanges DEF Replace
<1>11. QED
  BY <1>3, <1>4, <1>5, <1>6, <1>7, <1>8, <1>9, <1>10

(* The steps of the setup job that add to the configuration. *)
LEMMA PreparedSteps ==
  ASSUME TypeOK, PreparedInv,
         \/ SetupAuthed \/ EnableCluster \/ ConfigureFencing \/ ConfigureAlerts
         \/ ConfigureEtcd \/ ConfigureConstraints \/ AddColocation \/ SignalTransition
  PROVE  PreparedInv'
<1> USE DEF pcsVars, SetupAt, StartedFrom, KubeletFrom, FencedFrom, EtcdFrom, OrderFrom
<1>1. setup.pc \in SetupPcs
  BY DEF SetupAuthed, EnableCluster, ConfigureFencing, ConfigureAlerts, ConfigureEtcd,
     ConfigureConstraints, AddColocation, SignalTransition, SetupPcs
<1>2. \A l : SetupGoes(l) => setup'.pc = l /\ setup'.on = setup.on
  BY <1>1, SetupGoesOn
<1>3. UNCHANGED <<machine, members, online>>
  BY DEF SetupAuthed, EnableCluster, ConfigureFencing, ConfigureAlerts, ConfigureEtcd,
     ConfigureConstraints, AddColocation, SignalTransition
<1>4. CASE SetupAuthed \/ SignalTransition
  BY <1>2, <1>3, <1>4 DEF SetupAuthed, SignalTransition, PreparedInv, Fences
<1>5. CASE EnableCluster
  <2>1. /\ pcs'.kubelet = pcs.kubelet
        /\ pcs'.order = pcs.order /\ pcs'.colocation = pcs.colocation
    BY <1>5 DEF EnableCluster, TypeOK, PcsConfigs
  <2>2. QED
    BY <1>2, <1>3, <1>5, <2>1 DEF EnableCluster, PreparedInv
<1>6. CASE ConfigureFencing
  <2>1. /\ pcs'.kubelet = pcs.kubelet /\ pcs'.fenced = Gens
        /\ pcs'.order = pcs.order /\ pcs'.colocation = pcs.colocation
    BY <1>6 DEF ConfigureFencing, TypeOK, PcsConfigs
  <2>2. Fences'
    BY <2>1, GensTyped DEF Fences
  <2>3. QED
    BY <1>2, <1>3, <1>6, <2>1, <2>2 DEF ConfigureFencing, PreparedInv
<1>7. CASE ConfigureAlerts
  <2>1. /\ pcs'.kubelet = pcs.kubelet /\ pcs'.fenced = pcs.fenced
        /\ pcs'.order = pcs.order /\ pcs'.colocation = pcs.colocation
    BY <1>7 DEF ConfigureAlerts, TypeOK, PcsConfigs
  <2>2. QED
    BY <1>2, <1>3, <1>7, <2>1 DEF ConfigureAlerts, PreparedInv, Fences
<1>8. CASE ConfigureEtcd
  <2>1. /\ pcs'.kubelet = pcs.kubelet /\ pcs'.fenced = pcs.fenced /\ pcs'.etcd
        /\ pcs'.order = pcs.order /\ pcs'.colocation = pcs.colocation
    BY <1>8 DEF ConfigureEtcd, TypeOK, PcsConfigs
  <2>2. QED
    BY <1>2, <1>3, <1>8, <2>1 DEF ConfigureEtcd, PreparedInv, Fences
<1>9. CASE AddColocation
  <2>1. /\ pcs'.kubelet = pcs.kubelet /\ pcs'.fenced = pcs.fenced /\ pcs'.etcd = pcs.etcd
        /\ pcs'.order = pcs.order
    BY <1>9 DEF AddColocation, TypeOK, PcsConfigs
  <2>2. QED
    BY <1>2, <1>3, <1>9, <2>1 DEF AddColocation, PreparedInv, Fences
<1>10. CASE ConfigureConstraints /\ UNCHANGED pcs
  <2>1. pcs.order \/ pcs.colocation
    BY <1>10, <1>2 DEF ConfigureConstraints, TypeOK, PcsConfigs
  <2>2. QED
    BY <1>2, <1>3, <1>10, <2>1 DEF ConfigureConstraints, PreparedInv, Fences
<1>11. CASE ConfigureConstraints /\ pcs' = [pcs EXCEPT !.order = TRUE]
  <2>1. /\ pcs'.kubelet = pcs.kubelet /\ pcs'.fenced = pcs.fenced /\ pcs'.etcd = pcs.etcd
        /\ pcs'.order
    BY <1>11 DEF TypeOK, PcsConfigs
  <2>2. QED
    BY <1>2, <1>3, <1>11, <2>1 DEF ConfigureConstraints, PreparedInv, Fences
<1>12. QED
  BY <1>4, <1>5, <1>6, <1>7, <1>8, <1>9, <1>10, <1>11 DEF ConfigureConstraints

(* pcs cluster setup takes everything away, and the job starts from there. *)
LEMMA PreparedCluster ==
  ASSUME TypeOK, PreparedInv, SurviveInv,
         \/ (\E n \in Nodes : SetupStarts(n)) \/ ConfigureCluster \/ StartCluster
         \/ CreateKubelet \/ CompleteTransition
  PROVE  PreparedInv'
<1> USE DEF pcsVars, SetupAt, StartedFrom, KubeletFrom, FencedFrom, EtcdFrom, OrderFrom
<1>1. CASE \E n \in Nodes : SetupStarts(n)
  BY <1>1 DEF SetupStarts, PreparedInv
<1>2. ASSUME NEW l, setup.pc \in SetupPcs, SetupGoes(l)
      PROVE  setup'.pc = l /\ setup'.on = setup.on
  BY <1>2, SetupGoesOn
<1>3. CASE ConfigureCluster /\ ~KubeletCloneSeen
  <2>1. /\ SetupGoes("start") /\ pcs' = NewPcs /\ members' = Nodes
        /\ machine' = [n \in Nodes |->
             [machine[n] EXCEPT !.conf = TRUE,
                                !.kubelet = @ /\ ~(pcs.kubelet /\ n \in online)]]
    BY <1>3 DEF ConfigureCluster
  <2>2. setup'.pc = "start"
    BY <1>2, <1>3, <2>1 DEF ConfigureCluster, SetupPcs
  <2>3. \A n \in Nodes : machine'[n].conf
    BY <2>1 DEF TypeOK, Machines
  <2>4. ~pcs'.colocation
    BY <2>1 DEF NewPcs
  <2>5. QED
    BY <2>1, <2>2, <2>3, <2>4 DEF PreparedInv
<1>4. CASE ConfigureCluster /\ KubeletCloneSeen
  <2>1. SetupGoes("fencing") /\ UNCHANGED pcsVars
    BY <1>4 DEF ConfigureCluster
  <2>2. setup'.pc = "fencing" /\ setup'.on = setup.on
    BY <1>2, <1>4, <2>1 DEF ConfigureCluster, SetupPcs
  <2>3. QED
    BY <1>4, <2>1, <2>2 DEF KubeletCloneSeen, PreparedInv
<1>5. CASE StartCluster
  <2>1. setup'.pc = "kubelet" /\ setup'.on = setup.on
    BY <1>2, <1>5 DEF StartCluster, SetupPcs
  <2>2. setup.on \in Nodes
    BY <1>5 DEF StartCluster, TypeOK, SetupJobs, NoJob
  <2>3. QED
    BY <1>5, <2>1, <2>2 DEF StartCluster, PreparedInv
<1>6. CASE CreateKubelet
  <2>1. setup'.pc = "enable" /\ setup'.on = setup.on
    BY <1>2, <1>6 DEF CreateKubelet, SetupPcs
  <2>2. pcs'.kubelet /\ pcs'.order = pcs.order /\ pcs'.colocation = pcs.colocation
    BY <1>6 DEF CreateKubelet, TypeOK, PcsConfigs
  <2>3. QED
    BY <1>6, <2>1, <2>2 DEF CreateKubelet, PreparedInv
<1>7. CASE CompleteTransition
  <2>1. setup'.pc = "complete"
    BY <1>2, <1>7 DEF CompleteTransition, SetupPcs
  <2>2. QED
    BY <1>7, <2>1 DEF CompleteTransition, PreparedInv
<1>8. QED
  BY <1>1, <1>3, <1>4, <1>5, <1>6, <1>7

-----------------------------------------------------------------------------
(* A member stays online. *)

(* A step that leaves the cluster and the machines as they are changes nothing here. *)
LEMMA SurvivesKept ==
  ASSUME SurviveInv, UNCHANGED <<cond, online>>,
         \A n \in online : /\ machine'[n].on = machine[n].on
                           /\ machine'[n].conf = machine[n].conf,
         UpdRuns' => UpdRuns /\ upd'.on = upd.on /\ upd'.off = upd.off
  PROVE  SurviveInv'
BY DEF SurviveInv, ClusterSurvives

(* Before the handover is over the setup job may do with the cluster what it does; the
   end of the handover finds the node of the job online. *)
LEMMA SurviveSetup ==
  ASSUME TypeOK, TurnsInv, PreparedInv, SurviveInv, Setup \/ SetupFails
  PROVE  SurviveInv'
<1> USE DEF operatorVars, podVars, jobVars, pcsVars, SetupUnchanged, SetupAt
<1>1. ASSUME UNCHANGED <<machine, cond, online, upd>> PROVE SurviveInv'
  BY <1>1, SurvivesKept DEF UpdRuns
<1>2. CASE \/ (\E n \in Nodes : SetupStarts(n)) \/ SetupAuthed \/ EnableCluster
           \/ ConfigureFencing \/ ConfigureAlerts \/ ConfigureEtcd \/ ConfigureConstraints
           \/ AddColocation \/ SetupFails
  BY <1>1, <1>2 DEF SetupStarts, SetupAuthed, EnableCluster, ConfigureFencing,
     ConfigureAlerts, ConfigureEtcd, ConfigureConstraints, AddColocation, SetupFails
<1>3. CASE SignalTransition
  <2>1. cond # "completed" /\ cond' # "completed" /\ ~UpdRuns
    BY <1>3 DEF SignalTransition, TurnsInv, SetupRuns, SetupPcs
  <2>2. QED
    BY <1>3, <2>1 DEF SignalTransition, SurviveInv, UpdRuns, ClusterSurvives
<1>4. CASE CompleteTransition
  <2>1. setup.on \in online /\ ~UpdRuns
    BY <1>4 DEF CompleteTransition, TurnsInv, SetupRuns, SetupPcs, PreparedInv, StartedFrom,
       KubeletFrom, FencedFrom, EtcdFrom, OrderFrom
  <2>2. QED
    BY <1>4, <2>1 DEF CompleteTransition, SurviveInv, UpdRuns, ClusterSurvives
<1>5. ASSUME UNCHANGED <<cond, upd>>, SetupRuns,
             \A n \in online' : machine'[n].on /\ machine'[n].conf
      PROVE  SurviveInv'
  BY <1>5 DEF SurviveInv, UpdRuns, ClusterSurvives, TurnsInv
<1>6. CASE ConfigureCluster
  <2>1. CASE UNCHANGED <<machine, pcsVars>>
    BY <1>1, <1>6, <2>1 DEF ConfigureCluster
  <2>2. CASE online' = {}
    BY <1>5, <1>6, <2>2 DEF ConfigureCluster, SetupRuns, SetupPcs
  <2>3. QED
    BY <1>6, <2>1, <2>2 DEF ConfigureCluster
<1>7. CASE StartCluster
  BY <1>5, <1>7 DEF StartCluster, AllReached, PreparedInv, SetupRuns, SetupPcs
<1>8. CASE CreateKubelet
  <2>1. \A n \in Nodes : machine'[n].on = machine[n].on /\ machine'[n].conf = machine[n].conf
    BY <1>8, KubeletKept DEF CreateKubelet
  <2>2. QED
    BY <1>8, <2>1, SurvivesKept DEF CreateKubelet, TypeOK, UpdRuns
<1>9. CASE SetupUnreachable
  <2>1. \A n \in online' : machine'[n].on /\ machine'[n].conf
    BY <1>9 DEF SetupUnreachable, SurviveInv, PreparedInv
  <2>2. QED
    BY <1>5, <1>9, <2>1 DEF SetupUnreachable, SetupRuns, SetupPcs
<1>10. QED
  BY <1>2, <1>3, <1>4, <1>6, <1>7, <1>8, <1>9 DEF Setup

(* The operator, the static pods and the jobs of the nodes do not touch the members. *)
LEMMA SurviveElsewhere ==
  ASSUME TypeOK, SurviveInv,
         \/ Lifecycle \/ BootstrapEnds \/ OperatorRestarts \/ Pods \/ UNCHANGED vars
         \/ \E n \in Nodes : NodeJobs(n)
  PROVE  SurviveInv'
<1> USE DEF operatorVars, podVars, jobVars, pcsVars, UpdRuns
<1>1. CASE Lifecycle \/ BootstrapEnds \/ OperatorRestarts \/ Pods \/ UNCHANGED vars
  BY <1>1, SurvivesKept DEF Lifecycle, StartBootstrapControllers, StartRuntimeControllers,
     BootstrapEnds, OperatorRestarts, Pods, RenderPod, InstallPod, vars
<1>2. ASSUME NEW n \in Nodes, AuthRuns(n) \/ FencingRuns(n) PROVE SurviveInv'
  BY <1>2, SurvivesKept DEF AuthRuns, FencingRuns
<1>3. ASSUME NEW n \in Nodes, AfterSetupRuns(n) PROVE SurviveInv'
  <2>1. \A m \in Nodes : machine'[m].on = machine[m].on /\ machine'[m].conf = machine[m].conf
    BY <1>3 DEF AfterSetupRuns, TypeOK, Machines
  <2>2. QED
    BY <1>3, <2>1, SurvivesKept DEF AfterSetupRuns, TypeOK
<1>4. QED
  BY <1>1, <1>2, <1>3 DEF NodeJobs

(* update-setup stops, removes, adds and starts nodes from one that stays. *)
LEMMA SurviveUpdate ==
  ASSUME TypeOK, SurviveInv, UpdateStep \/ UpdateCrashes \/ \E n \in Nodes : UpdateStarts(n)
  PROVE  SurviveInv'
<1> USE DEF operatorVars, pcsVars, UpdUnchanged, UpdAt
<1>1. upd' = NoJob => ~UpdRuns'
  BY NoJobRests DEF UpdRuns
<1>2. ASSUME UpdRuns
      PROVE  upd \in UpdJobs /\ \A l : UpdGoes(l) => upd'.on = upd.on /\ upd'.off = upd.off
  BY <1>2, UpdGoesOn DEF UpdRuns
<1>3. ASSUME NEW n \in Nodes, UpdateStarts(n) PROVE SurviveInv'
  BY <1>3 DEF UpdateStarts, SurviveInv, ClusterSurvives
<1>4. CASE \/ UpdateAlerts \/ UpdateStable \/ UpdateFencing \/ UpdateResource
           \/ UpdateEnables \/ UpdateValidates
  <2>1. UpdRuns
    BY <1>4 DEF UpdateAlerts, UpdateStable, UpdateFencing, UpdateResource, UpdateEnables,
       UpdateValidates, UpdRuns, UpdPcs
  <2>2. QED
    BY <1>2, <1>4, <2>1, SurvivesKept DEF UpdateAlerts, UpdateStable, UpdateFencing,
       UpdateResource, UpdateEnables, UpdateValidates
<1>5. CASE UpdatePlan
  <2>1. UpdRuns /\ upd \in UpdJobs
    BY <1>2, <1>5 DEF UpdatePlan, UpdRuns, UpdPcs
  <2>2. upd'.on = upd.on /\ upd'.off = upd.off
    BY <1>5, <2>1 DEF UpdatePlan, UpdGoes, UpdJobs
  <2>3. QED
    BY <1>5, <2>1, <2>2, SurvivesKept DEF UpdatePlan
<1>6. CASE UpdateFails \/ UpdateRetargeted \/ UpdateCrashes
  BY <1>1, <1>6, SurvivesKept DEF UpdateFails, UpdateRetargeted, UpdateCrashes
<1>7. CASE UpdateStops
  <2>1. UpdRuns /\ upd'.on = upd.on /\ upd'.off = upd.off
    BY <1>2, <1>7 DEF UpdateStops, UpdRuns, UpdPcs
  <2>2. \A m \in Nodes : machine'[m].on = machine[m].on /\ machine'[m].conf = machine[m].conf
    BY <1>7, StoppedKept DEF UpdateStops
  <2>3. upd.on \in online'
    BY <1>7, <2>1 DEF UpdateStops, SurviveInv
  <2>4. QED
    BY <1>7, <2>1, <2>2, <2>3 DEF UpdateStops, SurviveInv, ClusterSurvives, TypeOK
<1>8. CASE UpdateRemoves
  <2>1. UpdRuns /\ upd'.on = upd.on /\ upd'.off = upd.off
    BY <1>2, <1>8 DEF UpdateRemoves, UpdRuns, UpdPcs
  <2>2. machine' = [n \in Nodes |->
          [Stopped(n) EXCEPT !.conf = @ /\ ~(n \in upd.off /\ machine[n].on)]]
    BY <1>8 DEF UpdateRemoves
  <2>3. \A m \in Nodes \ upd.off : /\ machine'[m].on = machine[m].on
                                   /\ machine'[m].conf = machine[m].conf
    BY <2>2, StoppedKept DEF Machines
  <2>4. upd.on \in online' /\ online' = online \ upd.off
    BY <1>8, <2>1 DEF UpdateRemoves, SurviveInv
  <2>5. QED
    BY <1>8, <2>1, <2>3, <2>4 DEF UpdateRemoves, SurviveInv, ClusterSurvives, TypeOK
<1>9. CASE UpdateAdds
  <2>1. UpdRuns /\ upd \in UpdJobs /\ upd'.on = upd.on /\ upd'.off = upd.off
    BY <1>2, <1>9 DEF UpdateAdds, UpdRuns, UpdPcs
  <2>2. \A m \in Nodes : /\ machine'[m].on = machine[m].on
                         /\ machine[m].conf => machine'[m].conf
    <3>1. Other(upd.on) \in Nodes
      BY <2>1, OtherNode DEF UpdJobs
    <3>2. machine' = [machine EXCEPT ![Other(upd.on)].conf = TRUE]
      BY <1>9 DEF UpdateAdds
    <3>3. QED
      BY <3>1, <3>2 DEF TypeOK, Machines
  <2>3. QED
    BY <1>9, <2>1, <2>2 DEF UpdateAdds, SurviveInv, ClusterSurvives, TypeOK
<1>10. CASE UpdateStartsAll
  <2>1. UpdRuns /\ upd \in UpdJobs
    BY <1>2, <1>10 DEF UpdateStartsAll, UpdRuns, UpdPcs
  <2>2. UpdRuns' => upd'.on = upd.on /\ upd'.off = upd.off
    BY <1>1, <1>2, <1>10, <2>1 DEF UpdateStartsAll
  <2>3. \A m \in Nodes : machine'[m].on = machine[m].on /\ machine'[m].conf = machine[m].conf
    BY <1>10, KubeletKept DEF UpdateStartsAll
  <2>4. upd.on \in online' /\ \A m \in online' : machine[m].on /\ machine[m].conf
    BY <1>10, <2>1 DEF UpdateStartsAll, Reached, SurviveInv, TypeOK
  <2>5. online' \subseteq Nodes
    BY <1>10 DEF UpdateStartsAll, Reached, TypeOK
  <2>6. QED
    BY <2>1, <2>2, <2>3, <2>4, <2>5 DEF SurviveInv, ClusterSurvives
<1>11. QED
  BY <1>3, <1>4, <1>5, <1>6, <1>7, <1>8, <1>9, <1>10 DEF UpdateStep

(* A machine that fails leaves the other one online, and takes its job with it. *)
LEMMA SurviveMachines ==
  ASSUME TypeOK, SurviveInv, NEW n \in Nodes, PowerOff(n) \/ PowerOn(n) \/ Replace(n)
  PROVE  SurviveInv'
<1> USE DEF operatorVars, pcsVars
<1>1. CASE PowerOff(n)
  <2>1. \A m \in Nodes \ {n} : /\ machine'[m].on = machine[m].on
                               /\ machine'[m].conf = machine[m].conf
    BY <1>1 DEF PowerOff, TypeOK, Machines
  <2>2. UpdRuns' => UpdRuns /\ upd' = upd /\ upd.on # n
    BY <1>1, NoJobRests DEF PowerOff, Without, UpdRuns
  <2>3. cond = "completed" => Other(n) \in online'
    BY <1>1, OtherNode DEF PowerOff
  <2>4. QED
    BY <1>1, <2>1, <2>2, <2>3 DEF PowerOff, SurviveInv, ClusterSurvives, TypeOK
<1>2. CASE PowerOn(n)
  <2>1. \A m \in Nodes : /\ machine'[m].on = (m = n \/ machine[m].on)
                         /\ machine'[m].conf = machine[m].conf
    BY <1>2 DEF PowerOn, TypeOK, Machines
  <2>2. UpdRuns' => UpdRuns /\ upd' = upd
    BY <1>2, NoJobRests DEF PowerOn, Restarted, UpdRuns
  <2>3. /\ online \subseteq online' /\ online' \subseteq online \cup {n}
        /\ n \in online' => n \in online \/ machine[n].conf
    BY <1>2 DEF PowerOn
  <2>4. QED
    BY <1>2, <2>1, <2>2, <2>3 DEF PowerOn, SurviveInv, ClusterSurvives, TypeOK
<1>3. CASE Replace(n)
  <2>1. n \notin online /\ \A m \in Nodes \ {n} : machine'[m] = machine[m]
    BY <1>3 DEF Replace, TypeOK, SurviveInv
  <2>2. UpdRuns' => UpdRuns /\ upd' = upd
    BY <1>3, NoJobRests DEF Replace, Restarted, UpdRuns
  <2>3. QED
    BY <1>3, <2>1, <2>2 DEF Replace, SurviveInv, ClusterSurvives, TypeOK
<1>4. QED
  BY <1>1, <1>2, <1>3

-----------------------------------------------------------------------------
(* What the setup job has behind it at each step, that it and update-setup do not work at
   the same time, and that update-setup works from a member that is online and stays: kept
   by every step of the operator, the jobs and the machines. *)
THEOREM ClusterInvariant == Spec => []ClusterInv
<1>1. Init => ClusterInv
  <2>1. Init => TurnsInv
    BY NoJobRests DEF Init, TurnsInv, SetupRuns, UpdRuns
  <2>2. Init => PreparedInv
    BY DEF Init, PreparedInv, NewPcs, NoJob, StartedFrom, KubeletFrom, FencedFrom, EtcdFrom,
       OrderFrom
  <2>3. Init => SurviveInv
    BY NoJobRests DEF Init, SurviveInv, UpdRuns, ClusterSurvives
  <2>4. QED
    BY <2>1, <2>2, <2>3, TypeInit DEF ClusterInv
<1>2. ClusterInv /\ [Next]_vars => ClusterInv'
  <2> SUFFICES ASSUME TypeOK, TurnsInv, PreparedInv, SurviveInv, [Next]_vars
               PROVE  TypeOK' /\ TurnsInv' /\ PreparedInv' /\ SurviveInv'
    BY DEF ClusterInv
  <2>1. TypeOK' /\ TurnsInv'
    BY TypeStep, TurnsStep
  <2>2. PreparedInv'
    BY PreparedElsewhere, PreparedSteps, PreparedCluster DEF Next, Setup, Faults
  <2>3. SurviveInv'
    BY SurviveSetup, SurviveElsewhere, SurviveUpdate, SurviveMachines DEF Next, Faults
  <2>4. QED
    BY <2>1, <2>2, <2>3
<1>3. QED
  BY <1>1, <1>2, PTL DEF Spec

(* The steps that tell the operator of the handover are the last two of the setup job. *)
LEMMA SignalsAreLast ==
  ASSUME TypeOK, [Next]_vars, cond' # cond
  PROVE  SignalTransition \/ CompleteTransition
<1> USE DEF operatorVars, SetupUnchanged, UpdUnchanged
<1>1. CASE Setup
  BY <1>1 DEF Setup, SetupStarts, SetupAuthed, ConfigureCluster, StartCluster, CreateKubelet,
     EnableCluster, ConfigureFencing, ConfigureAlerts, ConfigureEtcd, ConfigureConstraints,
     AddColocation, SetupUnreachable
<1>2. CASE UpdateStep \/ \E n \in Nodes : UpdateStarts(n)
  BY <1>2 DEF UpdateStep, UpdateAlerts, UpdatePlan, UpdateStable, UpdateStops, UpdateRemoves,
     UpdateAdds, UpdateFencing, UpdateResource, UpdateEnables, UpdateStartsAll,
     UpdateValidates, UpdateFails, UpdateRetargeted, UpdateStarts
<1>3. CASE Lifecycle \/ Pods \/ BootstrapEnds \/ Faults \/ UNCHANGED vars
  BY <1>3 DEF Lifecycle, StartBootstrapControllers, StartRuntimeControllers, Pods, RenderPod,
     InstallPod, BootstrapEnds, Faults, SetupFails, UpdateCrashes, OperatorRestarts, PowerOff,
     Replace, vars
<1>4. CASE \E n \in Nodes : NodeJobs(n) \/ PowerOn(n)
  BY <1>4 DEF NodeJobs, AuthRuns, AfterSetupRuns, FencingRuns, PowerOn
<1>5. QED
  BY <1>1, <1>2, <1>3, <1>4 DEF Next

(* The operator is told that etcd may leave the static pods, and that it has, only while a
   Pacemaker cluster runs that can fence the nodes and start etcd after the kubelet, however
   often the setup job, the operator or a machine failed on the way. *)
THEOREM HandoverIsPrepared == Spec => PacemakerReadyFirst
<1>1. ClusterInv /\ [Next]_vars
        => [cond' # cond => /\ online # {} /\ pcs.kubelet /\ pcs.etcd /\ pcs.order
                            /\ \A n \in Nodes : pcs.fenced[n] >= 0]_vars
  <2> SUFFICES ASSUME TypeOK, PreparedInv, [Next]_vars, cond' # cond
               PROVE  /\ online # {} /\ pcs.kubelet /\ pcs.etcd /\ pcs.order
                      /\ \A n \in Nodes : pcs.fenced[n] >= 0
    BY DEF ClusterInv
  <2>1. setup.pc \in {"signal", "wait"}
    BY SignalsAreLast DEF SignalTransition, CompleteTransition, SetupAt
  <2>2. QED
    BY <2>1 DEF PreparedInv, Fences, StartedFrom, KubeletFrom, FencedFrom, EtcdFrom, OrderFrom
<1>2. QED
  BY <1>1, ClusterInvariant, PTL DEF Spec, PacemakerReadyFirst

(* Once Pacemaker has etcd, a member is online, whatever update-setup stops, removes and
   fails to start. *)
THEOREM OneMemberStays == Spec => []ClusterSurvives
<1>1. ClusterInv => ClusterSurvives
  BY DEF ClusterInv, SurviveInv
<1>2. QED
  BY <1>1, ClusterInvariant, PTL
=============================================================================
