----------------------- MODULE PacemakerHealthProofs -----------------------
(***************************************************************************)
(* Proofs about PacemakerHealth, for any number of nodes, any thresholds   *)
(* and whatever set of states Pacemaker may be in: every part of the state *)
(* keeps to its type, and a report never goes back in time.                *)
(***************************************************************************)
EXTENDS PacemakerHealth, FiniteSetTheorems, TLAPS

Reports == [kind : {"set"}, st : Clusters, age : 0..Old]
Previous == [kind : {"Error", "Warning", "Healthy"}, age : 0..Old]
Empty == [kind |-> "empty"]
Events == [msg : Messages, age : 0..EventDeduplicationWindow]

-----------------------------------------------------------------------------
(* Types and ages *)

\* The thresholds bound the ages.
LEMMA OldIs == Old \in Nat /\ Old >= 1
  BY HealthAssumption DEF Old, MaxOf

\* An age stays an age as a minute passes.
LEMMA OlderIs ==
    ASSUME NEW a \in 0..Old
    PROVE  Older(a) \in 0..Old
  BY OldIs DEF Older

\* The kinds of records are apart.
LEMMA Kinds ==
    /\ Nothing.kind = "none" /\ Empty.kind = "empty"
    /\ \A r \in Reports : r.kind = "set" /\ r.age \in 0..Old /\ r.st \in Clusters
    /\ \A j \in Collectors : j.kind \in {"built", "got"} /\ j.age \in 0..Old /\ j.st \in Clusters
  BY DEF Nothing, Empty, Reports, Collectors

\* A minute makes a collector's report older, and nothing else of it.
LEMMA AgedCollector ==
    ASSUME NEW j \in {Nothing} \cup Collectors
    PROVE  Aged(j) \in {Nothing} \cup Collectors
<1>1. CASE j = Nothing
  BY <1>1 DEF Aged, Nothing
<1>2. CASE j \in Collectors
  <2>1. Older(j.age) \in 0..Old
    BY <1>2, OlderIs DEF Collectors
  <2>2. Aged(j) = [j EXCEPT !.age = Older(j.age)]
    BY <1>2 DEF Aged, Collectors
  <2> QED BY <1>2, <2>1, <2>2 DEF Collectors
<1> QED BY <1>1, <1>2

\* So with the PacemakerCluster.
LEMMA AgedReport ==
    ASSUME NEW r \in {Nothing, Empty} \cup Reports
    PROVE  Aged(r) \in {Nothing, Empty} \cup Reports
<1>1. CASE r \in {Nothing, Empty}
  BY <1>1 DEF Aged, Nothing, Empty
<1>2. CASE r \in Reports
  <2>1. Older(r.age) \in 0..Old
    BY <1>2, OlderIs DEF Reports
  <2>2. Aged(r) = [r EXCEPT !.age = Older(r.age)]
    BY <1>2 DEF Aged, Reports
  <2> QED BY <1>2, <2>1, <2>2 DEF Reports
<1> QED BY <1>1, <1>2

\* So with the status the health check remembers.
LEMMA AgedPrevious ==
    ASSUME NEW r \in {Nothing} \cup Previous
    PROVE  Aged(r) \in {Nothing} \cup Previous
<1>1. CASE r = Nothing
  BY <1>1 DEF Aged, Nothing
<1>2. CASE r \in Previous
  <2>1. Older(r.age) \in 0..Old
    BY <1>2, OlderIs DEF Previous
  <2>2. Aged(r) = [r EXCEPT !.age = Older(r.age)]
    BY <1>2 DEF Aged, Previous
  <2> QED BY <1>2, <2>1, <2>2 DEF Previous
<1> QED BY <1>1, <1>2

\* A collector that has read the resource.
LEMMA GotCollector ==
    ASSUME NEW j \in Collectors
    PROVE  [j EXCEPT !.kind = "got", !.fresh = TRUE] \in Collectors
<1>1. [j EXCEPT !.kind = "got"] \in Collectors
  BY DEF Collectors
<1>2. \A k \in Collectors : [k EXCEPT !.fresh = TRUE] \in Collectors
  BY DEF Collectors
<1> QED BY <1>1, <1>2

\* A collector that has been overtaken.
LEMMA StaleCollector ==
    ASSUME NEW k \in {Nothing} \cup Collectors
    PROVE  (IF k = Nothing THEN k ELSE [k EXCEPT !.fresh = FALSE]) \in {Nothing} \cup Collectors
  BY DEF Collectors

\* The types of what a collector touches; the parts of TypeOK the last theorem needs.
AgesOK ==
    /\ cluster \in Clusters
    /\ job \in {Nothing} \cup Collectors
    /\ late \in {Nothing} \cup Collectors
    /\ cr \in {Nothing, Empty} \cup Reports

\* The collector reads and writes.
LEMMA CollectorTypes ==
    ASSUME AgesOK, Collector
    PROVE  AgesOK'
<1> USE DEF AgesOK
<1>1. cluster' = cluster
  BY DEF Collector, JobGets, JobPuts, LateGets, LatePuts, LateDies
<1>2. ASSUME NEW j \in Collectors
      PROVE  [kind |-> "set", st |-> j.st, age |-> j.age] \in Reports
  BY Kinds DEF Reports
<1>3. ASSUME job.kind \in {"built", "got"} PROVE job \in Collectors
  BY <1>3, Kinds
<1>4. ASSUME late.kind \in {"built", "got"} PROVE late \in Collectors
  BY <1>4, Kinds
<1>5. CASE JobGets
  <2>1. job \in Collectors /\ job' \in Collectors
    BY <1>3, <1>5, GotCollector DEF JobGets
  <2>2. cr' \in {Nothing, Empty} \cup Reports /\ late' \in {Nothing} \cup Collectors
    BY <1>5, StaleCollector DEF JobGets, Get, Empty
  <2> QED BY <1>1, <2>1, <2>2
<1>6. CASE LateGets
  <2>1. late \in Collectors /\ late' \in Collectors
    BY <1>4, <1>6, GotCollector DEF LateGets
  <2>2. cr' \in {Nothing, Empty} \cup Reports /\ job' \in {Nothing} \cup Collectors
    BY <1>6, StaleCollector DEF LateGets, Get, Empty
  <2> QED BY <1>1, <2>1, <2>2
<1>7. CASE JobPuts
  <2>1. job \in Collectors /\ job' = Nothing
    BY <1>3, <1>7 DEF JobPuts
  <2>2. [kind |-> "set", st |-> job.st, age |-> job.age] \in Reports
    BY <1>2, <2>1
  <2>3. cr' \in {Nothing, Empty} \cup Reports /\ late' \in {Nothing} \cup Collectors
    BY <1>7, <2>2, StaleCollector DEF JobPuts, Put
  <2> QED BY <1>1, <2>1, <2>3
<1>8. CASE LatePuts
  <2>1. late \in Collectors /\ late' = Nothing
    BY <1>4, <1>8 DEF LatePuts
  <2>2. [kind |-> "set", st |-> late.st, age |-> late.age] \in Reports
    BY <1>2, <2>1
  <2>3. cr' \in {Nothing, Empty} \cup Reports /\ job' \in {Nothing} \cup Collectors
    BY <1>8, <2>2, StaleCollector DEF LatePuts, Put
  <2> QED BY <1>1, <2>1, <2>3
<1>9. CASE LateDies
  BY <1>9 DEF LateDies
<1> QED BY <1>5, <1>6, <1>7, <1>8, <1>9 DEF Collector

\* The controller of the notifications only writes them.
LEMMA ConsoleKeeps ==
    ASSUME Console
    PROVE  /\ UNCHANGED <<cluster, collector, pin, job, last, late, ran, cr>>
           /\ UNCHANGED <<prev, recorded, said, degraded>>
           /\ faults' = faults \/ Fault
  BY DEF Console, SyncConsole, SyncConsoleSecond, SyncConsoleFails, GivesUp,
         cronVars, jobVars, checkVars

\* What every step but the collector's does to it.
LEMMA AgesKeep ==
    ASSUME AgesOK, [Next]_vars
    PROVE  AgesOK'
<1> USE DEF AgesOK
<1>1. CASE Collector
  BY <1>1, CollectorTypes
<1>2. CASE UNCHANGED <<cluster, job, late, cr>>
  BY <1>2
<1>3. CASE Tick
  <2>1. job' \in {Nothing} \cup Collectors /\ late' \in {Nothing} \cup Collectors
    BY <1>3, AgedCollector DEF Tick
  <2>2. cr' \in {Nothing, Empty} \cup Reports /\ cluster' = cluster
    BY <1>3, AgedReport DEF Tick
  <2> QED BY <2>1, <2>2
<1>4. ASSUME NEW n \in Nodes, JobStarts(n) PROVE AgesOK'
  <2>1. [kind |-> "built", st |-> cluster, age |-> 0, fresh |-> FALSE] \in Collectors
    BY OldIs DEF Collectors
  <2>2. job' \in {Nothing} \cup Collectors
    BY <1>4, <2>1 DEF JobStarts
  <2> QED BY <1>4, <2>2 DEF JobStarts
<1>5. CASE JobDeadline
  BY <1>5 DEF JobDeadline
<1>6. CASE ClusterChanges
  BY <1>6 DEF ClusterChanges, jobVars
<1>7. CASE SyncCronJob \/ SyncHealth \/ Console \/ OperatorRestarts \/ UNCHANGED vars
  BY <1>2, <1>7, ConsoleKeeps DEF SyncCronJob, SyncHealth, OperatorRestarts, jobVars, vars
<1> QED BY <1>1, <1>3, <1>4, <1>5, <1>6, <1>7 DEF Next

\* At the start no collector has run.
LEMMA AgesStart ==
    ASSUME Init
    PROVE  AgesOK
  BY DEF Init, AgesOK

\* A collector that was overtaken never puts an older report in the place of a newer one,
\* however many collectors are given up and live on (updatePacemakerStatusCR).
THEOREM ReportsGoForward == Spec => ReportNeverGoesBack
<1> DEFINE Forward == cr' = Aged(cr) \/ (cr'.kind = "set" /\ cr'.age <= cr.age)
<1>1. ASSUME AgesOK, [Next]_vars, cr.kind = "set" PROVE Forward
  <2>1. cr \in Reports /\ cr.age \in Nat /\ cr # Nothing
    BY <1>1, Kinds, OldIs DEF AgesOK
  <2>2. CASE cr' = cr
    BY <2>1, <2>2, <1>1
  <2>3. ASSUME NEW j \in Collectors, ~(j.age >= cr.age),
               cr' = [kind |-> "set", st |-> j.st, age |-> j.age]
        PROVE  Forward
    <3>1. j.age \in Nat
      BY Kinds, OldIs
    <3> QED BY <2>1, <2>3, <3>1
  <2>4. CASE JobPuts
    <3>1. job \in Collectors
      BY <1>1, <2>4, Kinds DEF AgesOK, JobPuts
    <3> QED BY <3>1, <2>2, <2>3, <2>4, <1>1 DEF JobPuts, Put
  <2>5. CASE LatePuts
    <3>1. late \in Collectors
      BY <1>1, <2>5, Kinds DEF AgesOK, LatePuts
    <3> QED BY <3>1, <2>2, <2>3, <2>5, <1>1 DEF LatePuts, Put
  <2>6. CASE JobGets \/ LateGets \/ LateDies
    BY <2>1, <2>2, <2>6 DEF JobGets, LateGets, LateDies, Get
  <2>7. CASE Tick
    BY <2>7 DEF Tick
  <2>8. CASE \/ SyncCronJob \/ SyncHealth \/ Console \/ JobDeadline \/ ClusterChanges
             \/ OperatorRestarts \/ UNCHANGED vars \/ \E n \in Nodes : JobStarts(n)
    BY <2>2, <2>8, ConsoleKeeps DEF SyncCronJob, SyncHealth, JobDeadline, ClusterChanges,
                      OperatorRestarts, vars, JobStarts
  <2> QED BY <1>1, <2>4, <2>5, <2>6, <2>7, <2>8 DEF Next, Collector
<1>2. Spec => []AgesOK
  BY AgesStart, AgesKeep, PTL DEF Spec
<1>3. AgesOK /\ [Next]_vars =>
        [cr.kind = "set" => cr' = Aged(cr) \/ (cr'.kind = "set" /\ cr'.age <= cr.age)]_vars
  BY <1>1
<1> QED BY <1>2, <1>3, PTL DEF Spec, ReportNeverGoesBack

-----------------------------------------------------------------------------
(* The other types *)

\* There is a node.
LEMMA SomeNode ==
    /\ Cardinality(Nodes) \in Nat /\ Cardinality(Nodes) >= 1
    /\ Nodes = 1..Cardinality(Nodes)
<1>1. IsFiniteSet(Nodes) /\ Nodes = 1..Cardinality(Nodes) /\ Nodes # {}
  BY HealthAssumption
<1>2. Cardinality(Nodes) \in Nat
  BY <1>1, FS_CardinalityType
<1> QED BY <1>1, <1>2

\* The list the collector goes round.
LEMMA NodeListIs ==
    /\ NodeList \in Seq(Nodes) /\ Len(NodeList) = Cardinality(Nodes)
    /\ \A i \in 1..Cardinality(Nodes) : NodeList[i] \in Nodes
  BY SomeNode DEF NodeList

CollectorOK ==
    /\ collector.idx \in 0..(MaxOf(1, Len(collector.targets)) - 1)
    /\ collector.targets \in Seq(Nodes)

\* The collector stays on the list, also when it moves on from the last node to the first.
LEMMA NextIndexIn ==
    ASSUME CollectorOK
    PROVE  NextIndex \in 0..(Cardinality(Nodes) - 1)
<1> DEFINE L == Cardinality(Nodes)
<1>1. L \in Nat /\ L >= 1 /\ Len(NodeList) = L
  BY SomeNode, NodeListIs
<1>2. CASE collector.targets # NodeList
  BY <1>1, <1>2 DEF NextIndex
<1>3. CASE collector.targets = NodeList
  <2>1. collector.idx \in 0..(L - 1)
    BY <1>1, <1>3 DEF CollectorOK, MaxOf
  <2>2. (collector.idx + 1) % L \in 0..(L - 1)
    BY <1>1, <2>1
  <2> QED BY <1>1, <1>3, <2>1, <2>2 DEF NextIndex
<1> QED BY <1>2, <1>3

\* What the health check makes of a report.
LEMMA HealthStatusIs ==
    ASSUME AgesOK
    PROVE  /\ HealthStatus.errors \subseteq Messages
           /\ HealthStatus.overall \in {"Unknown", "Error", "Warning", "Healthy"}
           /\ HealthStatus.overall # "Unknown" => cr \in Reports
<1>1. CASE IsStale
  BY <1>1 DEF HealthStatus, Unknown, Messages
<1>2. CASE ~IsStale
  <2>1. cr \in Reports
    BY <1>2, Kinds DEF AgesOK, IsStale
  <2>2. cr.st \in Clusters
    BY <2>1, Kinds
  <2>3. Errors(cr.st) \subseteq Messages
    BY <2>2 DEF Errors, Messages
  <2> QED BY <1>2, <2>1, <2>3 DEF HealthStatus
<1> QED BY <1>1, <1>2

ConsoleOK ==
    /\ banner \in [degraded : BOOLEAN, troubleshooting : BOOLEAN]
    /\ second \in BOOLEAN /\ consoleUnavailable \in BOOLEAN

CheckOK ==
    /\ prev \in {Nothing} \cup Previous
    /\ recorded \subseteq Events
    /\ said \in {"none", "error", "healthy"} /\ degraded \in {"none", "False", "True"}

CronOK ==
    /\ pin \in Nodes \cup {0} /\ last \in {"none", "ok", "failed"} /\ ran \in BOOLEAN
    /\ faults \in 0..MaxFaults

\* TypeOK, by its parts.
LEMMA Parts == TypeOK <=> AgesOK /\ CollectorOK /\ CronOK /\ CheckOK /\ ConsoleOK
  BY DEF TypeOK, AgesOK, CollectorOK, CronOK, CheckOK, ConsoleOK, Empty, Reports, Previous, Events

\* A sync of the health check.
LEMMA SyncHealthTypes ==
    ASSUME AgesOK, CheckOK, SyncHealth
    PROVE  CheckOK'
<1> DEFINE h == HealthStatus
<1>1. /\ h.errors \subseteq Messages
      /\ h.overall \in {"Unknown", "Error", "Warning", "Healthy"}
      /\ h.overall # "Unknown" => cr \in Reports
  BY HealthStatusIs
<1>2. /\ degraded' = DegradedAfter(h) /\ recorded' = RecordedAfter(h)
      /\ said' = SaidAfter(h) /\ prev' = PreviousAfter(h)
  BY DEF SyncHealth
<1> HIDE DEF h
<1>3. degraded' \in {"none", "False", "True"}
  BY <1>1, <1>2 DEF DegradedAfter, CheckOK
<1>4. said' \in {"none", "error", "healthy"}
  BY <1>1, <1>2 DEF SaidAfter, CheckOK
<1>5. prev' \in {Nothing} \cup Previous
  <2>1. CASE h.overall = "Unknown"
    BY <1>2, <2>1 DEF PreviousAfter, CheckOK
  <2>2. CASE h.overall # "Unknown"
    <3>1. cr.age \in 0..Old
      BY <1>1, <2>2, Kinds
    <3> QED BY <1>1, <1>2, <2>2, <3>1 DEF PreviousAfter, Previous
  <2> QED BY <2>1, <2>2
<1>6. recorded' \subseteq Events
  <2>1. Remembered \subseteq Events
    BY DEF Remembered, CheckOK
  <2>2. \A m \in Announced(h) : [msg |-> m, age |-> 0] \in Events
    BY <1>1, HealthAssumption DEF Announced, Events
  <2> QED BY <1>2, <2>1, <2>2 DEF RecordedAfter
<1> QED BY <1>3, <1>4, <1>5, <1>6 DEF CheckOK

\* The hook of the CronJob pins a node.
LEMMA SyncCronJobTypes ==
    ASSUME CollectorOK, CronOK, SyncCronJob
    PROVE  CollectorOK' /\ CronOK'
<1>1. NextIndex \in 0..(Cardinality(Nodes) - 1)
  BY NextIndexIn
<1>2. NodeList[NextIndex + 1] \in Nodes
  BY <1>1, SomeNode, NodeListIs
<1>3. CollectorOK'
  BY <1>1, SomeNode, NodeListIs DEF SyncCronJob, CollectorOK, MaxOf
<1>4. ran' = ran /\ pin' \in Nodes \cup {0} /\ last' \in {"none", "ok", "failed"}
  BY <1>2 DEF SyncCronJob, EnsureCronJob, CronOK
<1>5. faults' \in 0..MaxFaults
  BY HealthAssumption DEF SyncCronJob, CronOK, Fault
<1> QED BY <1>3, <1>4, <1>5 DEF CronOK

\* The steps of the others, one part of the state at a time.
LEMMA OtherTypes ==
    ASSUME TypeOK, [Next]_vars, ~SyncCronJob
    PROVE  CollectorOK' /\ CronOK'
<1> USE Parts
<1>1. CollectorOK'
  <2>1. CASE OperatorRestarts
    BY <2>1 DEF OperatorRestarts, NoMemory, CollectorOK, MaxOf
  <2>2. CASE ~OperatorRestarts
    <3>1. collector' = collector
      BY <2>2, ConsoleKeeps DEF Next, vars, cronVars, Collector, JobGets, JobPuts, LateGets, LatePuts, LateDies,
             SyncHealth, Tick, JobStarts, JobDeadline, ClusterChanges
    <3> QED BY <3>1 DEF CollectorOK
  <2> QED BY <2>1, <2>2
<1>2. faults' \in 0..MaxFaults
  <2>1. faults' = faults \/ Fault
    BY ConsoleKeeps DEF Next, vars, Collector, JobGets, JobPuts, LateGets, LatePuts, LateDies, SyncHealth,
           Tick, JobStarts, JobDeadline, ClusterChanges, OperatorRestarts
  <2> QED BY <2>1, HealthAssumption DEF CronOK, Fault
<1>3. pin' = pin
  BY ConsoleKeeps DEF Next, vars, cronVars, Collector, JobGets, JobPuts, LateGets, LatePuts, LateDies,
         SyncHealth, Tick, JobStarts, JobDeadline, ClusterChanges, OperatorRestarts
<1>4. last' \in {"none", "ok", "failed"} /\ ran' \in BOOLEAN
  <2>1. last' = last \/ last' \in {"ok", "failed"}
    BY ConsoleKeeps DEF Next, vars, jobVars, Collector, JobGets, JobPuts, LateGets, LatePuts, LateDies,
           SyncHealth, Tick, JobStarts, JobDeadline, ClusterChanges, OperatorRestarts
  <2>2. ran' = ran \/ ran' \in BOOLEAN
    BY ConsoleKeeps DEF Next, vars, jobVars, Collector, JobGets, JobPuts, LateGets, LatePuts, LateDies,
           SyncHealth, Tick, JobStarts, JobDeadline, ClusterChanges, OperatorRestarts
  <2> QED BY <2>1, <2>2 DEF CronOK
<1> QED BY <1>1, <1>2, <1>3, <1>4 DEF CronOK

\* The steps that touch what the health check remembers.
LEMMA CheckTypes ==
    ASSUME TypeOK, [Next]_vars
    PROVE  CheckOK'
<1> USE Parts
<1>1. CASE SyncHealth
  BY <1>1, SyncHealthTypes
<1>2. CASE Tick
  <2>1. prev' \in {Nothing} \cup Previous
    BY <1>2, AgedPrevious DEF Tick, CheckOK
  <2>2. recorded' \subseteq Events
    <3>1. ASSUME NEW e \in recorded, e.age < EventDeduplicationWindow
          PROVE  [e EXCEPT !.age = @ + 1] \in Events
      BY <3>1, HealthAssumption DEF CheckOK, Events
    <3> QED BY <1>2, <3>1 DEF Tick
  <2> QED BY <1>2, <2>1, <2>2 DEF Tick, CheckOK
<1>3. CASE OperatorRestarts
  BY <1>3 DEF OperatorRestarts, CheckOK
<1>4. CASE UNCHANGED checkVars
  BY <1>4 DEF checkVars, CheckOK
<1>5. ASSUME ~SyncHealth, ~Tick, ~OperatorRestarts PROVE UNCHANGED checkVars
  BY <1>5, ConsoleKeeps DEF checkVars, Next, vars, Collector, JobGets, JobPuts, LateGets, LatePuts, LateDies,
         SyncCronJob, JobStarts, JobDeadline, ClusterChanges
<1> QED BY <1>1, <1>2, <1>3, <1>4, <1>5

\* The steps that touch the notifications.
LEMMA ConsoleTypes ==
    ASSUME TypeOK, [Next]_vars
    PROVE  ConsoleOK'
<1> USE Parts
<1>1. ASSUME NEW category \in {"degraded", "troubleshooting"}, NEW wanted \in BOOLEAN,
             Write(category, wanted)
      PROVE  banner' \in [degraded : BOOLEAN, troubleshooting : BOOLEAN]
  BY <1>1 DEF Write, ConsoleOK
<1>2. CASE SyncConsole
  <2>1. BannersWanted.degraded \in BOOLEAN
    BY DEF BannersWanted
  <2>2. banner' \in [degraded : BOOLEAN, troubleshooting : BOOLEAN]
    BY <1>1, <1>2, <2>1 DEF SyncConsole, GivesUp, ConsoleOK
  <2>3. consoleUnavailable' \in BOOLEAN /\ second' \in BOOLEAN
    BY <1>2 DEF SyncConsole, GivesUp, ConsoleOK
  <2> QED BY <2>2, <2>3 DEF ConsoleOK
<1>3. CASE SyncConsoleSecond
  <2>1. banner' \in [degraded : BOOLEAN, troubleshooting : BOOLEAN]
    BY <1>1, <1>3 DEF SyncConsoleSecond, GivesUp, ConsoleOK
  <2>2. consoleUnavailable' \in BOOLEAN /\ second' \in BOOLEAN
    BY <1>3 DEF SyncConsoleSecond, GivesUp, ConsoleOK
  <2> QED BY <2>1, <2>2 DEF ConsoleOK
<1>4. CASE OperatorRestarts \/ SyncConsoleFails
  BY <1>4 DEF OperatorRestarts, SyncConsoleFails, ConsoleOK
<1>5. CASE UNCHANGED consoleVars
  BY <1>5 DEF consoleVars, ConsoleOK
<1>6. ASSUME ~Console, ~OperatorRestarts PROVE UNCHANGED consoleVars
  BY <1>6 DEF consoleVars, Next, vars, Collector, JobGets, JobPuts, LateGets, LatePuts,
         LateDies, SyncCronJob, SyncHealth, Tick, JobStarts, JobDeadline, ClusterChanges
<1> QED BY <1>2, <1>3, <1>4, <1>5, <1>6 DEF Console

\* The state keeps to its type: no age passes Old, the collector stays on the list of nodes
\* whatever fails, and the events remembered are errors the health check can raise.
THEOREM TypeCorrect == Spec => []TypeOK
<1>1. Init => TypeOK
  <2> SUFFICES ASSUME Init PROVE TypeOK
    OBVIOUS
  <2>1. AgesOK
    BY AgesStart
  <2>2. CollectorOK
    BY DEF Init, CollectorOK, NoMemory, MaxOf
  <2>3. CronOK
    <3>1. MaxFaults \in Nat
      BY HealthAssumption
    <3>2. faults \in 0..MaxFaults
      BY <3>1 DEF Init
    <3> QED BY <3>2 DEF Init, CronOK
  <2>4. CheckOK
    BY DEF Init, CheckOK
  <2>5. ConsoleOK
    BY DEF Init, ConsoleOK
  <2> QED BY <2>1, <2>2, <2>3, <2>4, <2>5, Parts
<1>2. TypeOK /\ [Next]_vars => TypeOK'
  <2> SUFFICES ASSUME TypeOK, [Next]_vars PROVE TypeOK'
    OBVIOUS
  <2>1. AgesOK'
    BY Parts, AgesKeep
  <2>2. CheckOK' /\ ConsoleOK'
    BY CheckTypes, ConsoleTypes
  <2>3. CollectorOK' /\ CronOK'
    BY Parts, SyncCronJobTypes, OtherTypes
  <2> QED BY <2>1, <2>2, <2>3
          DEF TypeOK, AgesOK, CollectorOK, CronOK, CheckOK, ConsoleOK, Empty, Reports, Previous, Events
<1> QED BY <1>1, <1>2, PTL DEF Spec
=============================================================================
