--------------------------- MODULE PacemakerHealth ---------------------------
(***************************************************************************)
(* How the operator learns of the health of Pacemaker (pkg/tnf/pkg/        *)
(* pacemaker and the status collector of pkg/tnf/operator).                *)
(*                                                                         *)
(* A CronJob runs the collector every minute on one node, and moves on to  *)
(* the next node after a failure. The collector writes what Pacemaker says *)
(* into the PacemakerCluster resource. The health check and the console    *)
(* notifications follow that resource. Time is counted in minutes, and a   *)
(* time stamp is kept as its age, up to Old.                               *)
(***************************************************************************)
EXTENDS Integers, Sequences, FiniteSets

CONSTANTS Nodes,      \* the control plane nodes
          Works,      \* the nodes where the collector can do its work
          Clusters,   \* states of Pacemaker
          StatusStalenessThreshold, StatusUnknownDegradedThreshold,
          EventDeduplicationWindow,
          MaxFaults   \* bound: jobs killed, restarts, failed writes

(* A node is a set of what is wrong with it, its two resources and its agents; a
   resource or fencing agent is a set of what is wrong with it. *)
NodeFlaws == {"offline", "maintenance", "standby", "pending", "unclean", "foreign"}
Flaws == {"unmanaged", "disabled", "failed", "inactive", "stopped", "blocked"}

ASSUME HealthAssumption ==
    /\ IsFiniteSet(Nodes) /\ Nodes = 1..Cardinality(Nodes)
    /\ Works \subseteq Nodes /\ Works # {}
    /\ \A c \in Clusters : \A n \in DOMAIN c.nodes :
         /\ c.nodes[n].flaws \subseteq NodeFlaws /\ c.nodes[n].agents \subseteq SUBSET Flaws
         /\ c.nodes[n].kubelet \subseteq Flaws /\ c.nodes[n].etcd \subseteq Flaws
    /\ StatusStalenessThreshold \in Nat /\ StatusUnknownDegradedThreshold \in Nat
    /\ EventDeduplicationWindow \in Nat /\ MaxFaults \in Nat

VARIABLES cluster,   \* what Pacemaker would say of itself
          collector, \* statusCollectorState: idx and targets, in the operator's memory
          pin,       \* node the CronJob is pinned to; 0: none
          job,       \* the job that runs
          last,      \* the last job that is over: "none", "ok", "failed"
          late,      \* a collector that outlives its job
          ran,       \* has the CronJob fired this minute?
          cr,        \* the PacemakerCluster
          prev,      \* HealthCheck.previous
          recorded,  \* recordedEvents: the errors announced, and how long ago
          said,      \* what the last event said: "none", "error", "healthy"
          degraded,  \* PacemakerHealthCheckDegraded: "none", "False", "True"
          banner,    \* the console notifications: degraded, troubleshooting
          second,    \* does a sync have the other notification still to change?
          consoleUnavailable, \* the controller of the notifications has given up
          faults

vars == <<cluster, collector, pin, job, last, late, ran, cr, prev, recorded,
          said, degraded, banner, second, consoleUnavailable, faults>>
cronVars == <<collector, pin>>
jobVars == <<job, last, late, ran>>
checkVars == <<prev, recorded, said, degraded>>
consoleVars == <<banner, second, consoleUnavailable>>

MaxOf(a, b) == IF a >= b THEN a ELSE b
Old == 1 + MaxOf(StatusStalenessThreshold, StatusUnknownDegradedThreshold)
Older(a) == IF a < Old THEN a + 1 ELSE Old
Nothing == [kind |-> "none"]

-----------------------------------------------------------------------------
(* What the collector makes of "pcs status xml". *)

(* buildResourceConditions *)
ResourceHealthy(r) == r = {}

(* processResourcesForState *)
ResourceRunning(r) == r \cap {"stopped", "inactive"} = {}

(* isAgentAvailable *)
AgentAvailable(a) == a \cap {"stopped", "inactive", "failed"} = {}

(* calculateFencingHealth, over the agents of a node. *)
FencingAvailable(x) == \E a \in x.agents : AgentAvailable(a)
FencingHealthy(x) == x.agents # {} /\ \A a \in x.agents : ResourceHealthy(a)

(* buildNodeConditions *)
NodeHealthy(x) ==
    /\ x.flaws = {} /\ FencingAvailable(x)
    /\ ResourceRunning(x.kubelet) /\ ResourceRunning(x.etcd)

(* isClusterInMaintenance *)
InMaintenance(c) ==
    \/ c.maintenance
    \/ /\ DOMAIN c.nodes # {}
       /\ \A n \in DOMAIN c.nodes : "maintenance" \in c.nodes[n].flaws

(* buildNodeCountCondition *)
NodeCountAsExpected(c) == Cardinality(DOMAIN c.nodes) = 2

-----------------------------------------------------------------------------
(* What the health check makes of the PacemakerCluster. *)

(* getFencingWarnings *)
NodeWarns(x) == FencingAvailable(x) /\ ~FencingHealthy(x)

(* getNodeConditionErrors, getNodeResourceSummaries *)
NodeFaulted(x) ==
    \/ x.flaws \cap {"maintenance", "standby", "unclean", "foreign"} # {}
    \/ ~FencingAvailable(x)
    \/ ~ResourceHealthy(x.kubelet) \/ ~ResourceHealthy(x.etcd)

(* checkNodeConditions: an offline node is only that; a node that is not healthy is
   an error, unless all there is to say of it is a warning. *)
NodeError(x) ==
    \/ "offline" \in x.flaws
    \/ ~NodeHealthy(x) /\ (NodeFaulted(x) \/ ~NodeWarns(x))

(* checkClusterConditions, checkNodeStatuses *)
Errors(c) ==
    (IF NodeCountAsExpected(c) /\ ~InMaintenance(c) THEN {} ELSE {<<"cluster", 0>>})
    \cup (IF DOMAIN c.nodes = {} THEN {<<"no nodes", 0>>} ELSE {})
    \cup {<<"node", n>> : n \in {m \in DOMAIN c.nodes : NodeError(c.nodes[m])}}

Warnings(c) ==
    {n \in DOMAIN c.nodes : NodeWarns(c.nodes[n]) /\ "offline" \notin c.nodes[n].flaws}

(* BuildHealthStatusFromCR *)
IsStale == cr.kind # "set" \/ cr.age > StatusStalenessThreshold
Unknown == [overall |-> "Unknown", errors |-> {<<"unknown", 0>>}, warnings |-> {}]
HealthStatus ==
    IF IsStale THEN Unknown
    ELSE LET errors == Errors(cr.st)
             warnings == Warnings(cr.st)
         IN  [overall |-> CASE errors # {} -> "Error"
                            [] errors = {} /\ warnings # {} -> "Warning"
                            [] OTHER -> "Healthy",
              errors |-> errors, warnings |-> warnings]

-----------------------------------------------------------------------------
Collectors == [kind : {"built", "got"}, st : Clusters, age : 0..Old, fresh : BOOLEAN]
Messages ==
    {<<"unknown", 0>>, <<"cluster", 0>>, <<"no nodes", 0>>}
    \cup {<<"node", n>> : n \in UNION {DOMAIN c.nodes : c \in Clusters}}

(* Every part of the state keeps to its type, and no age passes Old. *)
TypeOK ==
    /\ cluster \in Clusters
    /\ collector.idx \in 0..(MaxOf(1, Len(collector.targets)) - 1)
    /\ collector.targets \in Seq(Nodes) /\ pin \in Nodes \cup {0}
    /\ job \in {Nothing} \cup Collectors
    /\ late \in {Nothing} \cup Collectors
    /\ last \in {"none", "ok", "failed"} /\ ran \in BOOLEAN
    /\ cr \in {Nothing, [kind |-> "empty"]}
             \cup [kind : {"set"}, st : Clusters, age : 0..Old]
    /\ prev \in {Nothing} \cup [kind : {"Error", "Warning", "Healthy"}, age : 0..Old]
    /\ recorded \subseteq [msg : Messages, age : 0..EventDeduplicationWindow]
    /\ said \in {"none", "error", "healthy"} /\ degraded \in {"none", "False", "True"}
    /\ banner \in [degraded : BOOLEAN, troubleshooting : BOOLEAN]
    /\ second \in BOOLEAN /\ consoleUnavailable \in BOOLEAN
    /\ faults \in 0..MaxFaults

NoMemory == [idx |-> 0, targets |-> <<>>]

Init ==
    /\ cluster \in Clusters
    /\ collector = NoMemory /\ pin = 0
    /\ job = Nothing /\ last = "none" /\ late = Nothing /\ ran = FALSE
    /\ cr = Nothing
    /\ prev = Nothing /\ recorded = {} /\ said = "none" /\ degraded = "none"
    /\ banner = [degraded |-> FALSE, troubleshooting |-> FALSE]
    /\ second = FALSE /\ consoleUnavailable = FALSE
    /\ faults = 0

Fault == faults < MaxFaults /\ faults' = faults + 1

-----------------------------------------------------------------------------
(* The hook of the CronJob. *)

(* getActivePacemakerNodes, in the order of their names; the nodes stay what they are. *)
NodeList == [i \in 1..Cardinality(Nodes) |-> i]

(* Mutant: the collector stays where it is. *)
NextIndexSticky ==
    IF collector.targets # NodeList THEN 0 ELSE collector.idx

(* nextStatusCollectorNodeIndex *)
NextIndex ==
    CASE collector.targets # NodeList -> 0
      [] collector.targets = NodeList /\ last = "failed"
           -> (collector.idx + 1) % Len(NodeList)
      [] OTHER -> collector.idx

(* ensureCronJob: the CronJob is created, or updated when it differs. *)
EnsureCronJob(n) == pin' = n

(* The failed job is deleted once the next node is chosen. When that fails it is
   found again; when the update fails the CronJob keeps its node. *)
SyncCronJob ==
    /\ collector' = [idx |-> NextIndex, targets |-> NodeList]
    /\ \/ /\ EnsureCronJob(NodeList[NextIndex + 1])
          /\ last' = IF last = "failed" THEN "none" ELSE last
          /\ UNCHANGED faults
       \/ /\ Fault
          /\ \/ EnsureCronJob(NodeList[NextIndex + 1]) /\ UNCHANGED last
             \/ last' = (IF last = "failed" THEN "none" ELSE last) /\ UNCHANGED pin
    /\ UNCHANGED <<cluster, job, late, ran, cr, checkVars, consoleVars>>

-----------------------------------------------------------------------------
(* The collector, runCollector. *)

(* The CronJob fires once a minute, and not while a job runs; where pcs does not
   answer the job fails. collectPacemakerStatus, buildClusterStatus. *)
JobStarts(n) ==
    /\ job = Nothing /\ ~ran /\ pin \in {0, n}
    /\ ran' = TRUE
    /\ \/ /\ n \in Works
          /\ job' = [kind |-> "built", st |-> cluster, age |-> 0, fresh |-> FALSE]
          /\ UNCHANGED last
       \/ /\ n \notin Works
          /\ last' = "failed"
          /\ UNCHANGED job
    /\ UNCHANGED <<cluster, cronVars, late, cr, checkVars, consoleVars, faults>>

(* activeDeadlineSeconds: the job is given up, its process may live on for a while. *)
JobDeadline ==
    /\ job # Nothing /\ Fault
    /\ job' = Nothing /\ last' = "failed"
    /\ late' = IF late = Nothing THEN job ELSE late
    /\ UNCHANGED <<cluster, cronVars, ran, cr, checkVars, consoleVars>>

(* Mutant: whoever comes last wins. *)
PutAlways(j, k) ==
    IF ~j.fresh
      THEN cr' = cr /\ k' = k
      ELSE /\ cr' = [kind |-> "set", st |-> j.st, age |-> j.age]
           /\ k' = IF k = Nothing THEN k ELSE [k EXCEPT !.fresh = FALSE]

(* updatePacemakerStatusCR by j, while k may be at work: a write with an old
   resourceVersion fails, a report that is not newer is dropped. *)
Put(j, k) ==
    IF ~j.fresh \/ (cr.kind = "set" /\ j.age >= cr.age)
      THEN cr' = cr /\ k' = k
      ELSE /\ cr' = [kind |-> "set", st |-> j.st, age |-> j.age]
           /\ k' = IF k = Nothing THEN k ELSE [k EXCEPT !.fresh = FALSE]

(* restClient.Get; a missing resource is created first, without status. *)
Get(j, k) ==
    IF cr = Nothing
      THEN /\ cr' = [kind |-> "empty"]
           /\ k' = IF k = Nothing THEN k ELSE [k EXCEPT !.fresh = FALSE]
      ELSE cr' = cr /\ k' = k

JobGets ==
    /\ job.kind = "built" /\ Get(job, late)
    /\ job' = [job EXCEPT !.kind = "got", !.fresh = TRUE]
    /\ UNCHANGED <<cluster, cronVars, last, ran, checkVars, consoleVars, faults>>

JobPuts ==
    /\ job.kind = "got" /\ Put(job, late)
    /\ job' = Nothing /\ last' = IF job.fresh THEN "ok" ELSE "failed"
    /\ UNCHANGED <<cluster, cronVars, ran, checkVars, consoleVars, faults>>

LateGets ==
    /\ late.kind = "built" /\ Get(late, job)
    /\ late' = [late EXCEPT !.kind = "got", !.fresh = TRUE]
    /\ UNCHANGED <<cluster, cronVars, last, ran, checkVars, consoleVars, faults>>

LatePuts ==
    /\ late.kind = "got" /\ Put(late, job)
    /\ late' = Nothing
    /\ UNCHANGED <<cluster, cronVars, last, ran, checkVars, consoleVars, faults>>

LateDies ==
    /\ late # Nothing /\ late' = Nothing
    /\ UNCHANGED <<cluster, cronVars, job, last, ran, cr, checkVars, consoleVars, faults>>

-----------------------------------------------------------------------------
(* HealthCheck.sync *)

(* getPacemakerStatus: a report that was dealt with is skipped, unless it is stale. *)
Skipped == ~IsStale /\ prev # Nothing /\ prev.age = cr.age

(* updateOperatorStatus: without a valid status the operator waits, from the last
   one it had; before the first one it waits for ever. *)
DegradedAfter(h) ==
    CASE h.overall = "Error" -> "True"
      [] h.overall \in {"Healthy", "Warning"} -> "False"
      [] h.overall = "Unknown" /\ prev # Nothing
           /\ prev.age > StatusUnknownDegradedThreshold -> "True"
      [] OTHER -> degraded

(* cleanupExpiredEvents, shouldRecordEvent: an error is not announced twice within
   the window. The message of a stale status holds its time and is never the same. *)
Remembered == {e \in recorded : e.age <= EventDeduplicationWindow}
Announced(h) == {m \in h.errors : ~\E e \in Remembered :
                                    e.msg = m /\ e.age < EventDeduplicationWindow}

(* Mutant: an error that is seen again counts as announced again. *)
RecordedAfterRefreshed(h) ==
    {e \in Remembered : e.msg \notin h.errors}
    \cup {[msg |-> m, age |-> 0] : m \in h.errors \ Unknown.errors}

RecordedAfter(h) ==
    {e \in Remembered : e.msg \notin Announced(h)}
    \cup {[msg |-> m, age |-> 0] : m \in Announced(h) \ Unknown.errors}

(* recordHealthCheckEvents, recordHealthTransitionEvents: the last word. *)
SaidAfter(h) ==
    CASE h.overall \in {"Healthy", "Warning"}
           /\ (prev = Nothing \/ prev.kind = "Error") -> "healthy"
      [] h.overall \notin {"Healthy", "Warning"} /\ Announced(h) # {} -> "error"
      [] OTHER -> said

(* sync: only a valid status is remembered. *)
PreviousAfter(h) ==
    IF h.overall = "Unknown" THEN prev ELSE [kind |-> h.overall, age |-> cr.age]

SyncHealth ==
    LET h == HealthStatus IN
    /\ ~Skipped
    /\ degraded' = DegradedAfter(h)
    /\ recorded' = RecordedAfter(h)
    /\ said' = SaidAfter(h)
    /\ prev' = PreviousAfter(h)
    /\ UNCHANGED <<cluster, cronVars, jobVars, cr, consoleVars, faults>>

-----------------------------------------------------------------------------
(* consoleNotificationController.sync *)

(* classifyProblems, isDegradedProblem: all but a stale status and a cluster
   without nodes. *)
Troubles(h) == h.errors \cap {<<"unknown", 0>>, <<"no nodes", 0>>}
BannersWanted ==
    LET h == HealthStatus IN
    IF cr.kind # "set" THEN [degraded |-> FALSE, troubleshooting |-> FALSE]
    ELSE [degraded |-> h.errors \ Troubles(h) # {} \/ h.warnings # {},
          troubleshooting |-> Troubles(h) # {}]

(* Mutant: a notification that has no problems is left alone. *)
WriteKeeps(category, wanted) == banner' = [banner EXCEPT ![category] = @ \/ wanted]

(* manageNotification *)
Write(category, wanted) == banner' = [banner EXCEPT ![category] = wanted]

(* filterConsoleError: when the cluster does not know of notifications the controller
   gives up, until the operator is restarted. *)
GivesUp == Fault /\ consoleUnavailable' = TRUE /\ UNCHANGED banner

(* The degraded notification comes first; when that write fails nothing has changed. The
   other one is to follow, for the status that was read before; a write that leaves the
   other one as it is counts as done. *)
SyncConsole ==
    /\ ~consoleUnavailable /\ ~second
    /\ \/ /\ Write("degraded", BannersWanted.degraded)
          /\ UNCHANGED <<consoleUnavailable, faults>>
       \/ GivesUp
    /\ second' = (BannersWanted.troubleshooting # banner.troubleshooting)
    /\ UNCHANGED <<cluster, cronVars, jobVars, cr, checkVars>>

(* The second write, to make the notification or to delete it. *)
SyncConsoleSecond ==
    /\ second
    /\ \/ /\ Write("troubleshooting", ~banner.troubleshooting)
          /\ UNCHANGED <<consoleUnavailable, faults>>
       \/ GivesUp
    /\ second' = FALSE
    /\ UNCHANGED <<cluster, cronVars, jobVars, cr, checkVars>>

SyncConsoleFails ==
    /\ second /\ second' = FALSE
    /\ UNCHANGED <<cluster, cronVars, jobVars, cr, checkVars, banner, consoleUnavailable, faults>>

-----------------------------------------------------------------------------
(* The environment. *)

Aged(r) == IF "age" \in DOMAIN r THEN [r EXCEPT !.age = Older(@)] ELSE r

(* A minute passes. A collector is over within half a minute (collectorTimeout). An
   event that leaves the window is as good as forgotten. *)
Tick ==
    /\ \A j \in {job, late} : j.kind \in {"built", "got"} => j.age = 0
    /\ job' = Aged(job) /\ late' = Aged(late) /\ cr' = Aged(cr) /\ prev' = Aged(prev)
    /\ recorded' = {[e EXCEPT !.age = @ + 1] :
                      e \in {x \in recorded : x.age < EventDeduplicationWindow}}
    /\ ran' = FALSE
    /\ UNCHANGED <<cluster, cronVars, last, said, degraded, consoleVars, faults>>

ClusterChanges ==
    /\ cluster' \in Clusters \ {cluster}
    /\ UNCHANGED <<cronVars, jobVars, cr, checkVars, consoleVars, faults>>

(* The operator forgets what it keeps in memory. *)
OperatorRestarts ==
    /\ Fault
    /\ collector' = NoMemory /\ prev' = Nothing /\ recorded' = {}
    /\ second' = FALSE /\ consoleUnavailable' = FALSE
    /\ UNCHANGED <<cluster, pin, jobVars, cr, said, degraded, banner>>

Collector == JobGets \/ JobPuts \/ LateGets \/ LatePuts \/ LateDies
Console == SyncConsole \/ SyncConsoleSecond \/ SyncConsoleFails
Next == \/ Collector \/ SyncCronJob \/ SyncHealth \/ Console \/ Tick
        \/ (\E n \in Nodes : JobStarts(n))
        \/ JobDeadline \/ ClusterChanges \/ OperatorRestarts

Spec == Init /\ [][Next]_vars

(* Time passes, the kubelet runs the collector, the CronJob fires, and the
   controllers are synced: twice a minute and by the informer, so that the health check
   does not only ever look at a report that has become stale. The second write of the
   notifications succeeds now and then, if it is tried again and again. *)
Fairness ==
    /\ WF_vars(Tick) /\ WF_vars(Collector) /\ WF_vars(SyncHealth)
    /\ SF_vars(SyncHealth /\ ~IsStale) /\ WF_vars(SyncCronJob)
    /\ WF_vars(\E n \in Nodes : JobStarts(n))
    /\ WF_vars(Console) /\ SF_vars(SyncConsoleSecond)

FairSpec == Spec /\ Fairness

-----------------------------------------------------------------------------
(* updatePacemakerStatusCR: a collector that was overtaken never puts an older
   report in the place of a newer one: time alone makes the report older. *)
ReportNeverGoesBack ==
    [][cr.kind = "set" => cr' = Aged(cr) \/ (cr'.kind = "set" /\ cr'.age <= cr.age)]_vars

(* What the health check is to report as an error: a node offline, in maintenance, in
   standby, unclean or not a member, no fencing, kubelet or etcd not running, the wrong
   number of nodes, a cluster in maintenance. A kubelet or etcd that runs and is failed,
   blocked, disabled or not managed is not among them: NodeHealthy does not see it. *)
Broken(c) ==
    \/ Cardinality(DOMAIN c.nodes) # 2 \/ c.maintenance
    \/ \E n \in DOMAIN c.nodes :
         \/ c.nodes[n].flaws \ {"pending"} # {}
         \/ \A a \in c.nodes[n].agents : a \cap {"stopped", "inactive", "failed"} # {}
         \/ \E r \in {c.nodes[n].kubelet, c.nodes[n].etcd} :
              r \cap {"stopped", "inactive"} # {}

(* Nothing at all is wrong, or no more than with one of several agents. *)
Fine(c) ==
    /\ ~Broken(c)
    /\ \A n \in DOMAIN c.nodes : c.nodes[n].flaws = {} /\ c.nodes[n].kubelet = {}
                                 /\ c.nodes[n].etcd = {}

(* The whole way from Pacemaker to the operator, whatever the collector, a restart or
   a late write did before: once the cluster is broken for good, the operator is
   degraded for good; once it is fine, the operator says so again and again (when the
   collector is late the status is stale, and the operator is degraded for that). *)
OperatorLearns ==
    /\ <>[]Broken(cluster) => <>[](degraded = "True")
    /\ <>[]Fine(cluster) => []<>(degraded = "False")

(* recordHealthCheckEvents: an error that stays is announced in the end, though it may
   come back within the window in which its event is held back. *)
ErrorAnnounced == <>[]Broken(cluster) => <>[](said = "error")

(* consoleNotificationController: while the cluster is broken there is again and again a
   notification, of the error or of a stale status, though one is deleted before the other
   is made and either write may fail; once nothing is wrong and the reports keep coming in
   time, both are gone for good. Unless the controller has given up. *)
BannerFollows ==
    /\ <>[]Broken(cluster)
         => []<>(banner.degraded \/ banner.troubleshooting \/ consoleUnavailable)
    /\ <>[](Fine(cluster) /\ Warnings(cluster) = {} /\ ~IsStale)
         => <>[](~(banner.degraded \/ banner.troubleshooting) \/ consoleUnavailable)
=============================================================================
