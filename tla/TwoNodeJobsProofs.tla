------------------------- MODULE TwoNodeJobsProofs -------------------------
(***************************************************************************)
(* Proofs about TwoNodeJobs, for any set of nodes, any number of attempts  *)
(* and of faults: the round-robin over the nodes never leaves its list,    *)
(* and the message that every node was tried stays until the job is        *)
(* complete.                                                               *)
(***************************************************************************)
EXTENDS TwoNodeJobs, FiniteSetTheorems, WellFoundedInduction, TLAPS

(* The list of the targets *)

\* A set of nodes that is not empty has a first one.
LEMMA HasFirst ==
    ASSUME NEW T \in SUBSET Nat, T # {}
    PROVE  \E x \in T : \A y \in T : x <= y
<1> DEFINE R == {ss \in Nat \X Nat : ss[1] < ss[2]}
<1>1. IsWellFoundedOn(R, Nat)
  BY NatLessThanWellFounded DEF OpToRel
<1>2. \E x \in T : \A y \in T : ~(<<y, x>> \in R)
  <2> HIDE DEF R
  <2> QED BY <1>1, WFMin
<1>3. PICK x \in T : \A y \in T : ~(<<y, x>> \in R)
  BY <1>2
<1>4. ASSUME NEW y \in T PROVE x <= y
  <2>1. ~(<<y, x>> \in R) /\ x \in Nat /\ y \in Nat
    BY <1>3
  <2>2. ~(y < x)
    BY <2>1
  <2> QED BY <2>1, <2>2
<1> QED BY <1>4

Increasing(s) == \A i, j \in DOMAIN s : i < j => s[i] < s[j]

\* Every finite set of nodes can be listed in order. By its smallest counterexample: its
\* first node is put before the list of the others.
LEMMA Listable ==
    ASSUME NEW S \in SUBSET Nat, IsFiniteSet(S)
    PROVE  \E s \in [1..Cardinality(S) -> S] : Increasing(s)
<1> DEFINE Bad(U) == /\ IsFiniteSet(U)
                     /\ ~\E s \in [1..Cardinality(U) -> U] : Increasing(s)
           T == {n \in Nat : \E U \in SUBSET Nat : Bad(U) /\ Cardinality(U) = n}
<1> SUFFICES ASSUME Bad(S) PROVE FALSE
  OBVIOUS
<1>1. Cardinality(S) \in T
  BY FS_CardinalityType
<1>2. PICK m \in T : \A n \in T : m <= n
  <2>1. T \in SUBSET Nat /\ T # {}
    BY <1>1
  <2> HIDE DEF T
  <2> QED BY <2>1, HasFirst
<1>3. PICK U \in SUBSET Nat : Bad(U) /\ Cardinality(U) = m
  BY <1>2
<1>4. CASE U = {}
  <2>1. Cardinality(U) = 0
    BY <1>4, FS_EmptySet
  <2> DEFINE e == [i \in 1..0 |-> 0]
  <2>2. e \in [1..0 -> U]
    OBVIOUS
  <2>3. Increasing(e)
    BY DEF Increasing
  <2> QED BY <2>1, <2>2, <2>3, <1>3
<1>5. CASE U # {}
  <2>1. PICK x \in U : \A y \in U : x <= y
    BY <1>5, HasFirst
  <2> DEFINE V == U \ {x}
  <2>2. IsFiniteSet(V) /\ Cardinality(V) = m - 1 /\ V \in SUBSET Nat /\ m \in Nat
    BY <1>2, <1>3, FS_RemoveElement
  <2>3. m - 1 \in Nat
    BY <2>2, FS_CardinalityType
  <2>4. ~Bad(V)
    <3>1. m - 1 \notin T
      BY <1>2, <2>2, <2>3
    <3> QED BY <2>2, <2>3, <3>1
  <2>5. PICK s \in [1..(m - 1) -> V] : Increasing(s)
    BY <2>2, <2>4
  <2> DEFINE t == [i \in 1..m |-> IF i = 1 THEN x ELSE s[i - 1]]
  <2>6. t \in [1..m -> U]
    <3> SUFFICES ASSUME NEW i \in 1..m PROVE t[i] \in U
      OBVIOUS
    <3>1. CASE i = 1
      BY <3>1
    <3>2. CASE i # 1
      <4>1. i - 1 \in 1..(m - 1)
        BY <2>2, <3>2
      <4> QED BY <3>2, <4>1
    <3> QED BY <3>1, <3>2
  <2>7. ASSUME NEW i \in 1..m, NEW j \in 1..m, i < j PROVE t[i] < t[j]
    <3>1. j # 1 /\ j - 1 \in 1..(m - 1) /\ t[j] = s[j - 1] /\ s[j - 1] \in V
      BY <2>2, <2>7
    <3>2. CASE i = 1
      <4>1. t[i] = x /\ x <= s[j - 1] /\ x # s[j - 1] /\ x \in Nat /\ s[j - 1] \in Nat
        BY <2>1, <2>2, <3>1, <3>2
      <4> QED BY <3>1, <4>1
    <3>3. CASE i # 1
      <4>1. i - 1 \in 1..(m - 1) /\ i - 1 < j - 1 /\ t[i] = s[i - 1]
        BY <2>2, <2>7, <3>3
      <4>2. \A a, b \in 1..(m - 1) : a < b => s[a] < s[b]
        BY <2>5 DEF Increasing
      <4> QED BY <3>1, <4>1, <4>2
    <3> QED BY <3>2, <3>3
  <2>8. Increasing(t)
    BY <2>7 DEF Increasing
  <2> HIDE DEF t
  <2> QED BY <1>3, <2>6, <2>8
<1> QED BY <1>4, <1>5

\* The targets are the active nodes in order, each once.
LEMMA TargetsAre ==
    ASSUME NEW S \in SUBSET Nodes
    PROVE  /\ ByName(S) \in [1..Cardinality(S) -> S] /\ Increasing(ByName(S))
           /\ ByName(S) \in Seq(S) /\ Len(ByName(S)) = Cardinality(S)
           /\ Cardinality(S) \in Nat /\ (S # {} => Cardinality(S) >= 1)
<1>1. IsFiniteSet(S) /\ S \in SUBSET Nat
  BY JobsAssumption, FS_Subset
<1>2. Cardinality(S) \in Nat /\ (S # {} => Cardinality(S) >= 1)
  BY <1>1, FS_CardinalityType, FS_EmptySet
<1>3. ByName(S) \in [1..Cardinality(S) -> S] /\ Increasing(ByName(S))
  BY <1>1, Listable DEF ByName, Increasing
<1> HIDE DEF ByName
<1> QED BY <1>2, <1>3

-----------------------------------------------------------------------------
(* Types *)

\* The steps of the hook.
Hook == \/ HookBlocked \/ HookNodeGone \/ HookNode \/ HookNoTarget \/ HookInit
        \/ HookChanged \/ HookWait \/ HookFailed

\* The steps that apply the job and write the status.
Apply == \/ ApplyWithoutState \/ ApplyCreates \/ ApplyKeeps \/ DeleteStuckJob
         \/ ApplyDeletes \/ WriteStatus

\* The nodes and their versions, which only the environment changes.
EnvOK ==
    /\ kind \in Kinds
    /\ node \in [Nodes -> {"ready", "notReady", "gone"}]
    /\ cr \subseteq Nodes /\ config \in Nat /\ image \in Nat

\* Versions grow.
LEMMA EnvKeeps ==
    ASSUME TypeOK, [Next]_vars
    PROVE  EnvOK' /\ config' >= config /\ image' >= image
<1> USE DEF TypeOK
<1>1. CASE UNCHANGED env
  BY <1>1 DEF env, EnvOK
<1>2. CASE Sync \/ Restart \/ UNCHANGED vars
  <2>1. UNCHANGED env
    BY <1>2 DEF Sync, Restart, vars, env, HookBlocked, HookNodeGone, HookNode, HookNoTarget,
           HookInit, HookChanged, HookWait, HookFailed, ApplyWithoutState, ApplyCreates,
           ApplyKeeps, DeleteStuckJob, ApplyDeletes, WriteStatus, RestartFresh,
           RestartWaits, RestartWaited, RestartDeletes, RestartResets
  <2> QED BY <1>1, <2>1
<1>3. CASE PodSucceeds \/ PodFails \/ BlockedLong \/ FailedLong \/ RequestFails
  BY <1>1, <1>3 DEF PodSucceeds, PodFails, BlockedLong, FailedLong, RequestFails
<1>4. CASE SecretChanged
  BY <1>4 DEF SecretChanged, EnvOK
<1>5. ASSUME NEW n \in Nodes, NodeDown(n) \/ NodeRemoved(n) \/ NodeAdded(n) \/ NodeUp(n)
      PROVE  EnvOK' /\ config' >= config /\ image' >= image
  BY <1>5 DEF NodeDown, NodeRemoved, NodeAdded, NodeUp, EnvOK
<1>6. ASSUME NEW S \in SUBSET Nodes, PacemakerReports(S)
      PROVE  EnvOK' /\ config' >= config /\ image' >= image
  BY <1>6 DEF PacemakerReports, EnvOK
<1>7. ASSUME NEW i \in {image, image + 1}, OperatorRestarts(i)
      PROVE  EnvOK' /\ config' >= config /\ image' >= image
  BY <1>7 DEF OperatorRestarts, EnvOK
<1> QED BY <1>2, <1>3, <1>4, <1>5, <1>6, <1>7 DEF Next, Environment

\* The nodes a cluster job may run on.
LEMMA ActiveIn == TypeOK => Active \in SUBSET Nodes
  BY DEF TypeOK, Active, Ready

\* The first attempt is made on the first target.
LEMMA FirstTryIs ==
    ASSUME TypeOK, Active # {}
    PROVE  FirstTry \in Tries
<1>1. Targets \in Seq(Nodes) /\ Len(Targets) >= 1
  <2>1. Targets \in Seq(Active) /\ Len(Targets) >= 1
    BY ActiveIn, TargetsAre DEF Targets
  <2> QED BY <2>1, ActiveIn
<1>2. Config \in Nat
  BY DEF TypeOK, Config
<1>3. 1 \in 1..MaxRetryAttempts
  BY JobsAssumption
<1> HIDE DEF Targets
<1> QED BY <1>1, <1>2, <1>3 DEF FirstTry, Tries

\* The next attempt is made on a target, also past the last node and the last attempt.
LEMMA NextTryIs ==
    ASSUME TypeOK, retry # NoRetry, ~Changed
    PROVE  NextTry \in Tries
<1>1. /\ retry.att \in 1..MaxRetryAttempts /\ retry.idx \in Nat /\ retry.idx < Len(Targets)
      /\ retry \in [att : 1..MaxRetryAttempts, idx : Nat, targets : Seq(Nodes), cfg : Nat]
      /\ retry.targets = Targets /\ Targets \in Seq(Nodes) /\ Len(Targets) \in Nat
  BY DEF TypeOK, Tries, Changed
<1> DEFINE idx == IF LastNode THEN 0 ELSE retry.idx + 1
           att == IF ~LastNode THEN retry.att ELSE IF LastAttempt THEN 1 ELSE retry.att + 1
<1> HIDE DEF Targets
<1>2. idx \in Nat /\ idx < Len(Targets)
  BY <1>1 DEF LastNode
<1>3. att \in 1..MaxRetryAttempts
  BY <1>1, JobsAssumption DEF LastNode, LastAttempt
<1>4. NextTry = [retry EXCEPT !.idx = idx, !.att = att]
  BY DEF NextTry
<1> HIDE DEF idx, att
<1>5. NextTry = [att |-> att, idx |-> idx, targets |-> retry.targets, cfg |-> retry.cfg]
  BY <1>1, <1>4
<1> QED BY <1>1, <1>2, <1>3, <1>5 DEF Tries

\* The retry state stays on the list of its targets.
LEMMA RetryKeeps ==
    ASSUME TypeOK, [Next]_vars
    PROVE  retry' \in {NoRetry} \cup Tries
<1>1. CASE retry' = retry
  BY <1>1 DEF TypeOK
<1>2. CASE HookInit \/ HookChanged
  BY <1>2, FirstTryIs DEF HookInit, HookChanged
<1>3. CASE HookFailed
  BY <1>3, NextTryIs DEF HookFailed, HookUnchanged
<1>4. CASE RestartFresh \/ RestartResets \/ \E i \in {image, image + 1} : OperatorRestarts(i)
  BY <1>4 DEF RestartFresh, RestartResets, OperatorRestarts
<1>5. CASE \/ HookBlocked \/ HookNodeGone \/ HookNode \/ HookNoTarget \/ HookWait
           \/ Apply \/ RestartWaits \/ RestartWaited \/ RestartDeletes \/ UNCHANGED vars
  BY <1>1, <1>5 DEF HookBlocked, HookNodeGone, HookNode, HookNoTarget, HookWait, Apply, vars,
         ApplyWithoutState, ApplyCreates, ApplyKeeps, DeleteStuckJob, ApplyDeletes,
         WriteStatus, RestartWaits, RestartWaited, RestartDeletes
<1>6. CASE \/ PodSucceeds \/ PodFails \/ BlockedLong \/ FailedLong \/ RequestFails
           \/ SecretChanged
           \/ \E n \in Nodes : NodeDown(n) \/ NodeRemoved(n) \/ NodeAdded(n) \/ NodeUp(n)
           \/ \E S \in SUBSET Nodes : PacemakerReports(S)
  BY <1>1, <1>6 DEF PodSucceeds, PodFails, BlockedLong, FailedLong, RequestFails,
         SecretChanged, NodeDown, NodeRemoved, NodeAdded, NodeUp, PacemakerReports
<1> QED BY <1>2, <1>3, <1>4, <1>5, <1>6 DEF Next, Sync, Restart, Environment, Apply

\* The job that is asked for runs on a target of the retry state.
LEMMA RequiredIs ==
    ASSUME TypeOK, ApplyReady
    PROVE  Required \in JobsOf(config, image)
<1> USE JobsAssumption DEF TypeOK
<1>1. config \in 0..config /\ image \in 0..image
  OBVIOUS
<1>2. CASE kind = "auth"
  BY <1>1, <1>2 DEF Required, JobsOf
<1>3. CASE kind # "auth"
  <2>1. retry \in Tries
    BY <1>3 DEF ApplyReady
  <2>2. /\ retry.att \in 0..MaxRetryAttempts /\ retry.idx \in Nat
        /\ retry.targets[retry.idx + 1] \in Nodes
    BY <2>1 DEF Tries
  <2> QED BY <1>1, <1>3, <2>2 DEF Required, JobsOf
<1> QED BY <1>2, <1>3

\* The job keeps to its type.
LEMMA JobKeeps ==
    ASSUME TypeOK, [Next]_vars
    PROVE  job' \in {NoJob} \cup JobsOf(config', image')
<1>1. /\ config \in Nat /\ image \in Nat /\ config' \in Nat /\ image' \in Nat
      /\ config' >= config /\ image' >= image
  BY EnvKeeps DEF TypeOK, EnvOK
<1>2. JobsOf(config, image) \subseteq JobsOf(config', image')
  BY <1>1 DEF JobsOf
<1>3. job \in {NoJob} \cup JobsOf(config, image) /\ NoJob.st = "none"
  BY DEF TypeOK, NoJob
<1>4. CASE job' = job
  BY <1>2, <1>3, <1>4
<1>5. CASE job' = NoJob
  BY <1>5
<1>6. ASSUME NEW j \in JobsOf(config, image), NEW st \in {"running", "stopped", "failed", "complete"}
      PROVE  [j EXCEPT !.st = st] \in JobsOf(config, image)
  BY DEF JobsOf
<1>7. ASSUME NEW j \in JobsOf(config, image) PROVE [j EXCEPT !.old = TRUE] \in JobsOf(config, image)
  BY DEF JobsOf
<1>8. CASE Hook \/ UNCHANGED vars
  BY <1>4, <1>5, <1>8 DEF Hook, HookBlocked, HookNodeGone, HookNode, HookNoTarget,
         HookInit, HookChanged, HookWait, HookFailed, vars
<1>9. CASE Apply
  <2>1. CASE ApplyCreates
    BY <2>1, <1>2, RequiredIs DEF ApplyCreates
  <2>2. CASE ~ApplyCreates
    BY <2>2, <1>4, <1>5, <1>9 DEF Apply, ApplyWithoutState, ApplyKeeps, DeleteStuckJob,
           ApplyDeletes, WriteStatus
  <2> QED BY <2>1, <2>2
<1>10. CASE Restart
  BY <1>4, <1>5, <1>10 DEF Restart, RestartFresh, RestartWaits, RestartWaited,
         RestartDeletes, RestartResets
<1>11. CASE PodSucceeds
  <2>1. job \in JobsOf(config, image)
    BY <1>3, <1>11 DEF PodSucceeds
  <2> QED BY <2>1, <1>2, <1>6, <1>11 DEF PodSucceeds
<1>12. CASE PodFails
  <2>1. job \in JobsOf(config, image)
    BY <1>3, <1>12 DEF PodFails
  <2> QED BY <2>1, <1>2, <1>6, <1>12 DEF PodFails
<1>13. CASE FailedLong
  <2>1. job \in JobsOf(config, image)
    BY <1>3, <1>13 DEF FailedLong, IsFailed
  <2> QED BY <2>1, <1>2, <1>7, <1>13 DEF FailedLong
<1>14. CASE \/ BlockedLong \/ RequestFails \/ SecretChanged
            \/ \E n \in Nodes : NodeDown(n) \/ NodeRemoved(n) \/ NodeAdded(n) \/ NodeUp(n)
            \/ \E S \in SUBSET Nodes : PacemakerReports(S)
            \/ \E i \in {image, image + 1} : OperatorRestarts(i)
  BY <1>4, <1>14 DEF BlockedLong, RequestFails, SecretChanged, NodeDown, NodeRemoved,
         NodeAdded, NodeUp, PacemakerReports, OperatorRestarts
<1> QED BY <1>8, <1>9, <1>10, <1>11, <1>12, <1>13, <1>14
        DEF Next, Sync, Environment, Apply, Hook

\* The sync under way knows whether the retries were used up when it began.
MaxInv == sync.pc # "idle" => (sync.max <=> degraded = "max")

Syncs == [pc : {"idle", "apply", "status"}, max : BOOLEAN,
          got : {"none", "running", "stopped", "failed", "complete"}]
SyncOK == sync \in Syncs /\ degraded \in {"none", "error", "max"}

\* A sync returns: the message stays when it was there, unless the job is complete.
LEMMA Returns ==
    ASSUME NEW err \in {"none", "error", "max"}, NEW max \in BOOLEAN, Return(err, max)
    PROVE  SyncOK' /\ MaxInv' /\ (max => degraded' = "max")
<1>1. Idle \in Syncs /\ Idle.pc = "idle"
  BY DEF Idle, Syncs
<1> QED BY <1>1 DEF Return, SyncOK, MaxInv

\* A sync begins: it looks at the condition once.
LEMMA Begins ==
    ASSUME SyncOK, Begin("apply"), degraded' = degraded
    PROVE  SyncOK' /\ MaxInv'
<1>1. sync' = [pc |-> "apply", max |-> degraded = "max", got |-> "none"]
  BY DEF Begin
<1>2. sync' \in Syncs
  BY <1>1 DEF Syncs
<1>3. sync'.max = (degraded = "max")
  BY <1>1
<1> QED BY <1>2, <1>3 DEF SyncOK, MaxInv

\* The hook.
LEMMA HookSync ==
    ASSUME SyncOK, Hook
    PROVE  SyncOK' /\ MaxInv' /\ (degraded = "max" => degraded' = "max")
<1>1. ASSUME NEW err \in {"none", "error"}, ReturnNow(err)
      PROVE  SyncOK' /\ MaxInv' /\ (degraded = "max" => degraded' = "max")
  <2>1. (degraded = "max") \in BOOLEAN
    OBVIOUS
  <2> QED BY <1>1, <2>1, Returns DEF ReturnNow
<1>2. ASSUME Begin("apply"), degraded' = degraded
      PROVE  SyncOK' /\ MaxInv' /\ (degraded = "max" => degraded' = "max")
  BY <1>2, Begins
<1>3. CASE HookBlocked
  BY <1>1, <1>2, <1>3 DEF HookBlocked
<1>4. CASE HookNodeGone \/ HookNoTarget
  BY <1>1, <1>4 DEF HookNodeGone, HookNoTarget
<1>5. CASE HookNode \/ HookInit \/ HookChanged \/ HookWait
  BY <1>2, <1>5 DEF HookNode, HookInit, HookChanged, HookWait
<1>6. CASE HookFailed
  <2>1. CASE Return("max", TRUE)
    BY <2>1, Returns
  <2>2. CASE Begin("apply") /\ degraded' = degraded
    BY <2>2, <1>2
  <2> QED BY <1>6, <2>1, <2>2 DEF HookFailed
<1> QED BY <1>3, <1>4, <1>5, <1>6 DEF Hook

\* The rest of a sync, and a request that fails.
LEMMA ApplySync ==
    ASSUME TypeOK, SyncOK, MaxInv, Apply \/ RequestFails
    PROVE  /\ SyncOK' /\ MaxInv'
           /\ degraded = "max" => degraded' = "max" \/ sync.got = "complete"
<1>1. sync.max \in BOOLEAN
  BY DEF SyncOK, Syncs
<1>2. ASSUME sync.pc # "idle", NEW err \in {"none", "error"}, Return(err, sync.max)
      PROVE  SyncOK' /\ MaxInv' /\ (degraded = "max" => degraded' = "max")
  <2>1. degraded = "max" => sync.max
    BY <1>2 DEF MaxInv
  <2> QED BY <1>1, <1>2, <2>1, Returns
<1>3. ASSUME NEW st \in {"running", "stopped", "failed", "complete"}, Applied(st),
             sync.pc = "apply", degraded' = degraded
      PROVE  SyncOK' /\ MaxInv'
  <2>1. sync' = [pc |-> "status", max |-> sync.max, got |-> st]
    BY <1>3 DEF Applied, SyncOK, Syncs
  <2>2. sync' \in Syncs
    BY <1>1, <2>1 DEF Syncs
  <2>3. sync'.max = sync.max
    BY <2>1
  <2> QED BY <1>3, <2>2, <2>3 DEF SyncOK, MaxInv
<1>4. CASE ApplyWithoutState
  BY <1>2, <1>4 DEF ApplyWithoutState
<1>5. CASE ApplyCreates
  BY <1>3, <1>5 DEF ApplyCreates, ApplyReady
<1>6. CASE ApplyKeeps
  <2>1. job.st \in {"running", "stopped", "failed", "complete"}
    BY <1>6 DEF ApplyKeeps, TypeOK, JobsOf
  <2> QED BY <2>1, <1>3, <1>6 DEF ApplyKeeps, ApplyReady
<1>7. CASE DeleteStuckJob
  BY <1>2, <1>7 DEF DeleteStuckJob, ApplyReady
<1>8. CASE ApplyDeletes
  BY <1>2, <1>8 DEF ApplyDeletes, ApplyReady
<1>9. CASE WriteStatus
  <2> DEFINE err == IF sync.got = "failed" THEN "error" ELSE "none"
             max == sync.max /\ sync.got # "complete"
  <2>1. err \in {"none", "error", "max"} /\ max \in BOOLEAN
    OBVIOUS
  <2>2. Return(err, max) /\ sync.pc = "status"
    BY <1>9 DEF WriteStatus
  <2>3. degraded = "max" => max \/ sync.got = "complete"
    BY <2>2 DEF MaxInv
  <2> HIDE DEF err, max
  <2> QED BY <2>1, <2>2, <2>3, Returns
<1>10. CASE RequestFails
  BY <1>2, <1>10 DEF RequestFails
<1> QED BY <1>4, <1>5, <1>6, <1>7, <1>8, <1>9, <1>10 DEF Apply

\* All steps: the message goes only with a job that is complete.
LEMMA SyncKeeps ==
    ASSUME TypeOK, MaxInv, [Next]_vars
    PROVE  /\ SyncOK' /\ MaxInv'
           /\ degraded = "max" => degraded' = "max" \/ sync.got = "complete"
<1>1. SyncOK
  BY DEF TypeOK, SyncOK, Syncs
<1>2. CASE sync' = sync /\ degraded' = degraded
  BY <1>1, <1>2 DEF SyncOK, MaxInv
<1>3. CASE Hook
  BY <1>1, <1>3, HookSync
<1>4. CASE Apply \/ RequestFails
  BY <1>1, <1>4, ApplySync
<1>5. CASE \E i \in {image, image + 1} : OperatorRestarts(i)
  <2>1. sync' = Idle /\ degraded' = degraded
    BY <1>5 DEF OperatorRestarts
  <2> QED BY <1>1, <2>1 DEF SyncOK, MaxInv, Idle, Syncs
<1>6. CASE Restart \/ UNCHANGED vars
  BY <1>2, <1>6 DEF Restart, RestartFresh, RestartWaits, RestartWaited, RestartDeletes,
         RestartResets, vars
<1>7. CASE \/ PodSucceeds \/ PodFails \/ BlockedLong \/ FailedLong \/ SecretChanged
           \/ \E n \in Nodes : NodeDown(n) \/ NodeRemoved(n) \/ NodeAdded(n) \/ NodeUp(n)
           \/ \E S \in SUBSET Nodes : PacemakerReports(S)
  BY <1>2, <1>7 DEF PodSucceeds, PodFails, BlockedLong, FailedLong, SecretChanged,
         NodeDown, NodeRemoved, NodeAdded, NodeUp, PacemakerReports
<1> QED BY <1>3, <1>4, <1>5, <1>6, <1>7 DEF Next, Sync, Environment, Hook, Apply

RestOK ==
    /\ since \in {"none", "recent", "overdue"} /\ recorded \in BOOLEAN
    /\ restart \in {"none", "wait", "delete", "reset"}
    /\ pending \in Nat /\ faults \in 0..MaxFaults

\* The clock of a blocked job, the restarts and the bound on faults.
LEMMA RestKeeps ==
    ASSUME TypeOK, [Next]_vars
    PROVE  RestOK'
<1>1. RestOK
  BY DEF TypeOK, RestOK
<1>2. since' \in {"none", "recent", "overdue"} /\ recorded' \in BOOLEAN
  <2>1. since' = since \/ since' \in {"none", "recent", "overdue"}
    BY DEF Next, Sync, Restart, Environment, HookBlocked, HookNodeGone, HookNode, HookNoTarget,
           HookInit, HookChanged, HookWait, HookFailed, ApplyWithoutState, ApplyCreates,
           ApplyKeeps, DeleteStuckJob, ApplyDeletes, WriteStatus, RequestFails, RestartFresh,
           RestartWaits, RestartWaited, RestartDeletes, RestartResets, PodSucceeds, PodFails,
           BlockedLong, FailedLong, SecretChanged, NodeDown, NodeRemoved, NodeAdded, NodeUp,
           PacemakerReports, OperatorRestarts, ClearBlocked, vars
  <2>2. recorded' = recorded \/ recorded' = TRUE
    BY DEF Next, Sync, Restart, Environment, HookBlocked, HookNodeGone, HookNode, HookNoTarget,
           HookInit, HookChanged, HookWait, HookFailed, ApplyWithoutState, ApplyCreates,
           ApplyKeeps, DeleteStuckJob, ApplyDeletes, WriteStatus, RequestFails, RestartFresh,
           RestartWaits, RestartWaited, RestartDeletes, RestartResets, PodSucceeds, PodFails,
           BlockedLong, FailedLong, SecretChanged, NodeDown, NodeRemoved, NodeAdded, NodeUp,
           PacemakerReports, OperatorRestarts, vars
  <2> QED BY <1>1, <2>1, <2>2 DEF RestOK
<1>3. restart' \in {"none", "wait", "delete", "reset"} /\ pending' \in Nat
  <2>1. CASE Sync \/ UNCHANGED vars
    BY <1>1, <2>1 DEF RestOK, Sync, HookBlocked, HookNodeGone, HookNode, HookNoTarget,
           HookInit, HookChanged, HookWait, HookFailed, ApplyWithoutState, ApplyCreates,
           ApplyKeeps, DeleteStuckJob, ApplyDeletes, WriteStatus, vars
  <2>2. CASE Restart
    BY <1>1, <2>2 DEF RestOK, Restart, RestartFresh, RestartWaits, RestartWaited,
           RestartDeletes, RestartResets
  <2>3. CASE \E n \in Nodes : NodeUp(n)
    BY <1>1, <2>3 DEF RestOK, NodeUp
  <2>4. CASE \/ PodSucceeds \/ PodFails \/ BlockedLong \/ FailedLong \/ RequestFails
             \/ SecretChanged
             \/ \E n \in Nodes : NodeDown(n) \/ NodeRemoved(n) \/ NodeAdded(n)
             \/ \E S \in SUBSET Nodes : PacemakerReports(S)
             \/ \E i \in {image, image + 1} : OperatorRestarts(i)
    BY <1>1, <2>4 DEF RestOK, PodSucceeds, PodFails, BlockedLong, FailedLong, RequestFails,
           SecretChanged, NodeDown, NodeRemoved, NodeAdded, PacemakerReports, OperatorRestarts
  <2> QED BY <2>1, <2>2, <2>3, <2>4 DEF Next, Environment
<1>4. faults' \in 0..MaxFaults
  <2>1. faults' = faults \/ (faults < MaxFaults /\ faults' = faults + 1)
    BY DEF Next, Sync, Restart, Environment, HookBlocked, HookNodeGone, HookNode, HookNoTarget,
           HookInit, HookChanged, HookWait, HookFailed, ApplyWithoutState, ApplyCreates,
           ApplyKeeps, DeleteStuckJob, ApplyDeletes, WriteStatus, RequestFails, RestartFresh,
           RestartWaits, RestartWaited, RestartDeletes, RestartResets, PodSucceeds, PodFails,
           BlockedLong, FailedLong, SecretChanged, NodeDown, NodeRemoved, NodeAdded, NodeUp,
           PacemakerReports, OperatorRestarts, Fault, vars
  <2> QED BY <1>1, <2>1, JobsAssumption DEF RestOK
<1> QED BY <1>2, <1>3, <1>4 DEF RestOK

JobsInv == TypeOK /\ MaxInv

\* JobsInv is an invariant.
THEOREM JobsInvariant == Spec => []JobsInv
<1>1. Init => JobsInv
  <2> SUFFICES ASSUME Init PROVE JobsInv
    OBVIOUS
  <2>1. faults \in 0..MaxFaults /\ pending \in Nat /\ config \in Nat /\ image \in Nat
    BY JobsAssumption DEF Init
  <2>2. Idle \in Syncs /\ Idle.pc = "idle"
    BY DEF Idle, Syncs
  <2>3. recorded \in BOOLEAN
    BY DEF Init
  <2>4. TypeOK
    BY <2>1, <2>2, <2>3 DEF Init, TypeOK, Syncs
  <2> QED BY <2>2, <2>4 DEF JobsInv, MaxInv, Init
<1>2. JobsInv /\ [Next]_vars => JobsInv'
  <2> SUFFICES ASSUME JobsInv, [Next]_vars PROVE JobsInv'
    OBVIOUS
  <2>1. EnvOK' /\ RestOK'
    BY EnvKeeps, RestKeeps DEF JobsInv
  <2>2. retry' \in {NoRetry} \cup Tries /\ job' \in {NoJob} \cup JobsOf(config', image')
    BY RetryKeeps, JobKeeps DEF JobsInv
  <2>3. SyncOK' /\ MaxInv'
    BY SyncKeeps DEF JobsInv
  <2> QED BY <2>1, <2>2, <2>3 DEF JobsInv, TypeOK, EnvOK, RestOK, SyncOK, Syncs
<1> QED BY <1>1, <1>2, PTL DEF Spec

\* The state keeps to its type: the round-robin of syncMultiNodeJobState never points past
\* its list of nodes nor past the last attempt, whatever nodes come and go.
THEOREM TypeCorrect == Spec => []TypeOK
  BY JobsInvariant, PTL DEF JobsInv

\* Once every node was tried in every attempt, the operator reports it until the job is
\* complete, whatever syncs skip, fail or are cut short (preserveMaxRetriesOnReturn).
THEOREM MessageKept == Spec => MaxRetriesKept
<1>1. JobsInv /\ [Next]_vars =>
        [degraded = "max" /\ degraded' # "max" => sync.got = "complete"]_vars
  BY SyncKeeps DEF JobsInv
<1> QED BY <1>1, JobsInvariant, PTL DEF Spec, MaxRetriesKept
=============================================================================
