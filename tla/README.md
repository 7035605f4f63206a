# cluster-etcd-operator in TLA+

The cluster-etcd-operator installs, resizes, repairs and hands over the etcd
cluster below an OpenShift control plane. It is one process that runs some thirty
controllers, each with a single worker, against three systems that change under
its hands: the Kubernetes API (nodes, machines, config maps, static pod
revisions), etcd's own membership API, and the hosts. Nothing in it is locked
across those systems. Every sync reads, decides and writes with other controllers,
crashes and late replies in between, and a wrong decision costs etcd its quorum.
On clusters of two nodes it also hands etcd to Pacemaker, through jobs on the hosts.
This directory models those decisions step by step, checks them with TLC on small
clusters, and proves the central ones with TLAPS for clusters of any size.

Paths below are relative to `src/`.

## 1. Inventory

### Components, their state and operations

| component | state it keeps or shares | operations |
|---|---|---|
| ClusterMemberController (`pkg/operator/clustermembercontroller`) | none of its own; etcd membership | health gate, add a waiting node as learner, promote learners |
| ClusterMemberRemovalController (`pkg/operator/clustermemberremovalcontroller`) | none; etcd membership | remove members without machine, learners on deleted machines, scale down |
| MachineDeletionHooksController (`pkg/operator/machinedeletionhooks`) | PreDrain hook of every control plane machine | add hooks, release them once no member is left on the machine |
| EtcdEndpointsController (`pkg/operator/etcdendpointscontroller`) | `etcd-endpoints` config map, with the bootstrap annotation | publish the voters |
| static pod rollout (library-go, vendored) | revisions, node statuses | create a revision, install it node by node |
| etcd client, health, client pool (`pkg/etcdcli`) | idle clients, tokens, health cache | membership calls, health checks, Get and Return of clients |
| scaling safety, quorum check (`pkg/operator/ceohelpers`) | none | may the cluster be scaled, may a revision start |
| bootstrap teardown (`pkg/operator/bootstrapteardown`) | `EtcdBootstrapMemberRemoved`, `EtcdRunningInCluster` conditions | remove the bootstrap member |
| certificate signer, cleaner (`pkg/operator/etcdcertsigner`, `etcdcertcleaner`, `pkg/tlshelpers`) | signer, CA bundle and leaf secrets with their revision annotations | rotate signer, then bundle, then leafs, one rollout apart |
| env vars and target config (`pkg/etcdenvvar`, `pkg/operator/targetconfigcontroller`) | env var map, pod config map | what a revision is made from |
| defragmentation (`pkg/operator/defragcontroller`) | backoff, failure counter | defragment one member at a time, the leader last |
| backups (`pkg/operator/backupcontroller`, `periodicbackupcontroller`, `pkg/cmd/*backup*`) | EtcdBackup, Job, CronJob, files | one job at a time, status propagation, pruning |
| two-node jobs (`pkg/tnf/pkg/jobs`, `pkg/tnf/operator`) | one Job each for auth, setup, after-setup, fencing, update-setup; retry state and blocked-since times in memory; Degraded conditions | create, retry on the next node, recreate when the nodes or the configuration change |
| two-node runners (`pkg/tnf/setup`, `auth`, `after-setup`, `fencing`, `update-setup`) | corosync and Pacemaker configuration, external etcd conditions | set up Pacemaker, hand etcd over, take a node out and in again |
| Pacemaker health (`pkg/tnf/pkg/pacemaker`) | PacemakerCluster resource, previous status, recorded events, console notifications | collect the status from a node, judge it, degrade, announce |
| members status, metrics, config observation, scripts, resource sync, aliveness checker | conditions, copies | reporting and copying |
| command line tools (`pkg/cmd`) | files | render, backup, restore, verify, monitor |

`PROJECT.json` lists each with its sources and whether it is modelled.

### How they interact

    Machine API --- machines, hooks ---+--------------------+
                                       |                    |
    nodes ---> ClusterMember ---> etcd membership <--- ClusterMemberRemoval
                                       |                    ^
                                       v                    | gate: voters = config map,
                               EtcdEndpoints                |       every node at the
                                       |                    |       latest revision
                                       v                    |
                               etcd-endpoints --> revision --> installer --> static pods
                                                     ^
                              quorum checker (cached health)

    certificate signer --> signers, bundles, leaves --> etcd-all-bundles, etcd-all-certs --> revision
    job controllers --> setup, update-setup, ... on a host --> Pacemaker --> etcd
                                      ^                            |
    health check <-- PacemakerCluster <-- status collector <-------+
    Backup --> CronJob --> prune, request --> EtcdBackup --> Job --> folder on a volume

All of it is shared state; there are no messages between controllers. A
controller is called again when something it watches changes, after an error with
back-off, and periodically.

### What is hard

- A sync holds nothing while it works: the member list it read may be stale when
  it writes (promote against release of a hook, publish against remove and add).
- Membership requests time out on the client and may be applied later.
- Several health checks within one sync may disagree.
- Replacing one machine takes four controllers and a rollout that wait for each
  other: a circular wait leaves the machine for ever.
- A rollout takes members down on purpose while others may be down by accident.
- The operator may restart between any two calls.
- A rotation of certificates is a chain of writes with rollouts in between; a node that
  joins or leaves, or a sync that fails, meets it at any point.
- A job that changes the cluster it runs on may be lost between any two commands, or be
  deleted by its controller for the change it makes.
- Reports of Pacemaker's health come through a pod that may fail, be late or be overtaken.
- The end of a backup is recorded by three writes to two objects.
- The client pool is shared by all controllers, a health check needs clients
  while it holds one, and clients are closed on several error paths.

### What makes each part correct

Members: one unstarted member at a time; a removal only of what is condemned, and
never below one less than desired by scaling down; no membership change that loses
quorum; a voter's host is held by its hook; published endpoints are voters; deleted
machines leave and new machines vote. Pool: tokens conserved, clients exclusive,
clients in the pool aim at the whole cluster, calls end. Bootstrap: the bootstrap
member leaves only when the rest can carry the cluster, and it does leave.
Certificates: the first leaf by a new signer is issued when every running etcd trusts that
signer, and a rotation ends. Backups: one job at a time, a request is served once and ends,
what is reported as completed is there, pruning keeps the newest. Two-node: Pacemaker can
run and fence before the static etcd goes, the handover ends, a node that was down or
replaced comes back, the operator learns of a broken cluster. Defragmentation: never two
members at once, never without fault tolerance.

The hazards behind these, each at its line, are in `PROJECT.json`.

## 2. What is modelled

| module | what |
|---|---|
| `EtcdHealth` | quorum arithmetic of the operator (`health.go`) and of the etcd server's reconfiguration checks |
| `EtcdMembership` | the etcd cluster as the operator sees it: members, who has started, who serves, requests in flight; the effect and the server-side guard of MemberAddAsLearner, MemberPromote, MemberRemove |
| `MemberManagement` | the four membership controllers and the rollout, composed over `EtcdMembership` and the Machine API |
| `MCMembers` | instances of it for TLC |
| `MemberManagementProofs` | theorems about it |
| `ClusterBootstrap` | the installation, from the bootstrap member to the static pods: certificates, rendered pods, revisions, membership, endpoints, bootstrap teardown and the bootstrap host, composed over `EtcdMembership` |
| `MCBootstrap`, `ClusterBootstrapProofs` | its instances and theorems |
| `ClientLease` | what a pool promises: at most N exclusive leases |
| `EtcdClientPool` | `etcdcli_pool.go` and its callers, down to the channel operations |
| `MCClientPool`, `EtcdClientPoolProofs` | its instances and theorems |
| `CertRotation` | signers, bundles, leaves and their aggregates, the cleaner, and the revisions that carry them |
| `CertRotationProofs` | theorems about it |
| `TwoNodeJobs`, `TwoNodeJobsProofs` | one job controller of a two-node cluster with its job, retries, drift detection and restarts; theorems |
| `TwoNodeCluster`, `TwoNodeClusterProofs` | the handover to Pacemaker and the return of a node, command by command; theorems |
| `PacemakerHealth` | the way of a status from Pacemaker to the operator's conditions, events and console |
| `MCPacemaker`, `PacemakerHealthProofs` | its instance and theorems |
| `Backups` | requests, jobs, folders and pruning |
| `MCBackups`, `BackupsProofs` | its instance and theorems |

### MemberManagement

One identity stands for a control plane node: its Machine, its Node object, its
internal IP and the member at that address (the code joins them by IP:
`FindMachineByNodeInternalIP`, `MemberToNodeInternalIP`). A node has a `machine`
state, a `hook`, a `member` status ("none", "learner", "voter"), whether the member
has `started` (a name in the member list) and what its container does (`proc`: "off",
"waiting" for its membership with the container running and not ready, "serving").

Each controller has a program counter and the locals it carries between calls; a
step is one call or one pass over a local list.

| variables | code |
|---|---|
| `cmcPc`, `cmcCand`, `cmcTodo` | `reconcileMembers`: health gate ("idle"), `getEtcdPeerURLToAdd` ("pick"), MemberAddAsLearner ("add"), the listing of learners ("list"), `shouldPromote` ("promote"), MemberPromote ("rpc") |
| `rmPc`, `rmTodo`, `rmLive`, `rmMachines`, `rmHealthy`, `rmFirst` | `clusterMemberRemovalController.sync`: revision and Machine API gate, `isEtcdEndpointsUpdated` ("gate"), `removeMemberWithoutMachine` ("orphans"), `attemptToRemoveLearningMember` ("learners", "rmLearner"), `attemptToScaleDown` ("scale", "healthy", "unhealthy", "remove") with its live voters, machines pending deletion, healthy voters and unhealthy-first list |
| `hkPc`, `hkTodo` | add hooks, list members, release hooks |
| `epPc`, `epSnap` | read voters, write the config map |
| `endpoints`, `revised`, `stale`, `installing`, `superseded`, `cachedSafe` | config map, latest revision, nodes behind it, the node being installed, whether a newer revision has come up meanwhile (the installer then starts over on that node), the verdict of the last cached health report |
| `late` | membership requests whose caller has timed out |

Bootstrap is complete and etcd is not handed over to Pacemaker, the two guards at
the head of these syncs.

Abstractions, each of which keeps the control of the code:

- `RmScale` reads the voters once where the code lists them twice in a row, and
  `RmLearners` once where `attemptToRemoveLearningMember` lists learners and then
  members; nothing is decided between the two.
- A member is found by address; a request that carries the ID of a member that has
  since been removed has no effect (`Forget`). A *late* removal is dropped when its
  member has been removed meanwhile.
- The cached health report is kept as the verdict `CheckSafeToScaleCluster` gives on it.
- The quorum guard pod that the hooks controller deletes for a gone machine is left out.
- The rollout is modelled by its effect: one node at a time, unready nodes first, the
  etcd process restarts, the node is current once it serves.
- Events, logs and conditions are left out.

### ClusterBootstrap

The cluster starts as one member on the bootstrap host, `Boot`. Control plane nodes
register (`nodes`), get certificates (`certified`), and go into the rendered pod
(`pod`: the addresses in ALL_ETCD_ENDPOINTS and the nodes with NODE_ variables). A
revision (`rev`) is made of pod, endpoints and certificates, compared by data only; the
annotation with the bootstrap address (`annotated`) is not part of it and reaches the
nodes only through the pod. The installer puts the latest revision on one node at a
time (`running`). A new pod joins when its node is a member and one of the addresses *it
was rendered with* serves: this is what ties the teardown of the bootstrap member to
the rollout.

| variables | code |
|---|---|
| `strategy` | `GetBootstrapScalingStrategy`: HA, delayed HA, two nodes, delayed two nodes, unsafe (single node) |
| `btPc`, `inCluster`, `removed` | `BootstrapTeardownController.sync`: MemberList and count, UnhealthyMembers, status updates, MemberRemove; the two conditions |
| `epPc`, `epKeep`, `epSnap` | `syncConfigMap`: keep or drop the annotation, the voters, the write |
| `bootkube` | `wait-for-ceo` on the bootstrap host waits for `EtcdRunningInCluster`; afterwards the installer marks `kube-system/bootstrap` as complete |
| `faults` | crashes and removals that time out, bounded by `MaxFaults` |

What lies outside the repository follows how the code uses it: `bootkube` completes after
wait-for-ceo returns; the host of an HA cluster is torn down "as soon as the configmap
is created" and others wait for the removal (library-go `bootstrap.go:21-23`); with a
delayed strategy the last node arrives when the host is gone.

Abstractions: `RenderPod` is checkEnvVars and the TargetConfigController sync it
triggers in one step (the latter only copies the former's result); `EpRead` merges the
two member listings of `syncConfigMap`, and `BtReport` the two status updates of a gone
member; ClusterMemberController, whose steps are in `MemberManagement`, acts as one
addition or promotion per step; certificates are what nodes have them, not their
contents; every API call needs etcd's quorum. The handover of two-node clusters to
Pacemaker comes after `removed` and is not part of this module. ClusterMemberRemovalController
does nothing before bootstrap is complete and has no machine to remove here.

### EtcdClientPool

A job is one goroutine that calls the operator's client: `Parent` says that a job is
a probe spawned by `GetMemberHealth`, which holds a client of its own while it waits.
A job goes through Get (read endpoints, take an idle client or a token, create, check,
close an unhealthy one and retry), the request, and Return (put back or close). The
cached clients are a set, the channel's order being irrelevant to every property.

### CertRotation

A signer is the number of its generation; a leaf is known by the signer that made it and
by what it was made for. The signer controller's sync goes through signers, bundles,
`etcd-all-bundles` with the mark of the current revision, leaves one by one, and
`etcd-all-certs` (`sync`); it may end after any write. A revision (`latest`) is made of the
two aggregates and the other content; a node (`at`, `files`) runs what its revision held,
and its certificate files follow the secrets live (`WithUnrevisionedCerts`,
`starter.go:684-709`). A sync during bootstrap, or one that finds `etcd-all-bundles` missing, is
forced: it goes past the gate between bundles and leaves and marks the bundles it writes with
revision 0 (`etcdcertsignercontroller.go:253`, `:272`). A sync that finds a node without leaves
goes straight to them. The cleaner lists, waits out its grace period and deletes.

Assumed: the peer and serving certificates of a node, made alike, are one; a signer expires
only when nothing made by it is in use; an installation does not complete between the read
of the operator status and the write of the bundles in one sync (`Install`), as it takes
minutes and a sync seconds. A conflict on a signer, on which library-go returns a nil
signer, ends the sync (`SyncFails`).

### TwoNodeJobs

One controller with its one Job, of each kind in turn. `sync` goes through the hook that
decides on retries, `ApplyJob` and the status write; `retry` and `since` are the maps
`retryState` and `jobBlockedSince`, lost on restart; `restart` and `pending` are the
goroutines of `RestartClusterJobOrRunController`. `SpecsFilledIn` says whether the API server
fills in the spec of a Job it stores: a real one does, so the hash of a stored spec never
equals that of the required one and `isDriftOnlyInRetryFields` is never true; the fake
client of the unit tests does not.

Assumed: the operator is Managed, its status cache is fresh, no schedulable node is an
error, ten minutes do not pass within one sync.

### TwoNodeCluster

Machines (on, kubelet running or disabled, Pacemaker configured, generation), the static
pods with or without the etcd container, the Pacemaker configuration, the members of
corosync and those online, and the setup and update-setup jobs. `cond` is the pair of
external-etcd transition conditions. Jobs start on a ready node and are retried as
`TwoNodeJobs` has it.

A job may be lost between any two steps, and a step is a command or a group of commands
between which nothing is decided. In the setup job `pcs cluster setup --force`, `cluster start
--all`, the creation of the kubelet resource, `cluster enable --all`, the order and the
colocation are steps of their own; so are, in update-setup, stop, remove, add, enable and start.
The first of them runs over whatever is there: a rerun on a node where the cluster is down
destroys the cluster of the other. `cluster start --all` starts the nodes it reaches and fails if it
does not reach one. The fence devices of both nodes are one step, `property set` belongs to
`cluster start` and `cluster sync` and `reload` to `cluster enable`; whether a cluster is enabled
is one flag for all its nodes. `UpdateResource` stands for the new address map of
the etcd resource; the `force_new_cluster` attribute and the removal of an unstarted etcd member
next to it (`update-setup/runner.go:276`, `:286-300`) act on etcd inside Pacemaker, which has no
state here.

Assumed: the PacemakerCluster resource is up to date when active nodes are looked up; the
replacement of a machine takes longer than a sync; one machine is down at a time, and once
etcd has been handed over a machine fails only while the other is online (`PowerOff`): the loss of
the last member is the end of the cluster, whatever the operator does.

### PacemakerHealth

Time passes in minutes (`Tick`), by one clock for both nodes; a time stamp is its age, up to
the largest threshold, and an event is forgotten when it leaves the deduplication window. A
state of Pacemaker is the set of flaws of each node, resource and fencing agent; what the
collector and the health check make of it is computed as they do, each by its own rules. A
collector reads, then puts; one that outlived its job (`late`) may put after the next. A sync
of the console controller writes the degraded notification and then the troubleshooting one
(`second`: the other is still to be written, for the status read before), and the second write may
fail any number of times; a first write that fails changes nothing.

`Get` is the GET and, when there is nothing, the POST in one step, so that it never meets
AlreadyExists: the collector would fail and be run again, as after a lost write.

Assumed: the operator syncs the CronJob between two failures of the collector, so that one
failed Job is remembered where the CronJob keeps three, and its list of Jobs does not fail
(`status_collector.go:93-96`); the set of active nodes is fixed. Metrics, the disruption
tracker and the collector's own events are left out.

### Backups

A number is an EtcdBackup, its Job, its folder, and the Job of the CronJob that asked for
it. `sync` is BackupController's, one step per API call, `SyncStops` any call that fails and
any restart. A folder is empty, partial or full; `written` orders those with files. The
pruning container lists and removes in two steps, beside a backup that may be writing; the
listing shows one moment, where the code walks from folder to folder (`prune.go:188-219`).

Assumed: a claim is not deleted between `validateBackup` and the start of the pod;
BackupRemovalController's two lists show the same moment. The history limits of the CronJob
(5 and 10) are one `HistoryLimit`.

## 3. Runs

Every passing run was chosen for the interleavings it contains; the bounds are in
the cfg and named in the modules (`MaxDown`, `MaxLate`, `MaxFaults`, ...).

| run | instance | checks |
|---|---|---|
| `MembersLostReplies` | three installed, one spare, every fault: failing calls, restarts, a crash, one request applied late | `TypeOK`, `VoterKeepsHook`, `RemovesOnlyCondemned` |
| `MembersRegrow` | two survivors, three desired, two spares, both survivors deletable, one may be lost | `AtMostOneUnstarted`, `QuorumKept`, `ScaleDownFloor` |
| `MembersReplace` | three installed, one deleted and one spare, with rollouts, under fairness | `EndpointsExcludeLearners`, `DeletedMachinesLeave`, `NewMachinesVote` |
| `BootstrapEnds` | a single node; two nodes, of which the second registers before or (delayed) after the host leaves; a crash or a lost reply with single node and delayed two nodes | `TypeOK`, `BootstrapForgottenLast`, `RemovedMeansGone`, `EnoughMembersRemain`, `InstallationCompletes` |
| `ClientPool` | a health check with a probe, a second caller, two tokens, one cached client | `TypeOK`, `TokensConserved`, `ClientsOwned`, `PooledAimAtCluster`, `ImplementsLease`, `CallsEnd` |
| `Certs` | two nodes, one rotation of the etcd signer, two changes among joining and leaving nodes, due leaves and other revisions, one failure (457 000 states) | `NoLeafTooEarly`, `RotationCompletes`, `SecretsMatchNodes` |
| `TwoNodeJobs` | each kind of job on two nodes of which the second can run it, two events (157 000 states) | `TypeOK`, `MaxRetriesKept`, `JobCompletes`, `BlockedJobsDegrade` |
| `TwoNodeCluster` | installation and after, two faults among lost pods, failing or replaced machines, restarts (71 000 states) | `PacemakerReadyFirst`, `ClusterSurvives`, `HandoverCompletes`, `NodesReturn` |
| `PacemakerHealth` | the only fencing agent of a node fails and recovers, the collector works on one of two nodes, one fault (188 000 states) | `ReportNeverGoesBack`, `OperatorLearns`, `ErrorAnnounced`, `BannerFollows` |
| `Backups` | three scheduled backups and one of a user, by number and by size, one fault (584 000 states) | `OneJobAtATime`, `OncePerRequest`, `RetentionExact`, `RequestsEnd` |
| `FindScaleUpDistrust` (violation) | a node joins while new bundles are on their way | the forced sync signs leaves the running etcds do not trust |
| `FindBackupMissing` (violation) | one failing snapshot | an EtcdBackup is reported as completed and has no backup |

Why the bounds are enough to be interesting: three members is the smallest cluster
that tolerates a failure and four nodes the smallest that replaces one; the
controllers act on one node per step, so two nodes in transition at once already give
every pair of conflicting decisions. A second crash (`MaxDown` = 2) of three loses
quorum and no controller acts. The proofs drop the bounds on nodes altogether. A rotation
needs two nodes to be half done, and two generations; with both signers (`Kinds = {1, 2}`)
and one change it also passes (1.5 million states, four minutes). Two is the number of nodes
of the two-node modules by definition, and two faults are what it takes for a retry to
fail in its turn. Four backups are one that runs, one that waits, one that is skipped and one
that prunes.

The two violations are what the code does against what it says; the lines are quoted in
`PROJECT.json`. `PeersTrust` fails through the forced syncs: that of a scale-up, as the run shows,
and that for lost bundles, which is meant to let a stuck rollout go on. With
`CompletedMeansSaved`, `backupOptions.Run` logs the error of the backup and returns nil.

Three-node installations have too many states for a run with liveness. Without
faults the delayed HA strategy has 436 000 states and satisfies every property of
`BootstrapEnds` (about three minutes); the HA strategy has several million. Their
safety is proved instead. `Certs` and `TwoNodeCluster` set CHECK_DEADLOCK FALSE: when
nothing is due and all faults are used, nothing is left to do.

Behaviours seen while modelling, without a run of their own. Of the membership
controllers, the installation and the pool:

- A healthy member can be removed at the desired size, against the comment at
  `clustermemberremovalcontroller.go:298`: a member that is unhealthy at the first check of
  `attemptToScaleDown` and healthy at the second makes the comparison fail with an empty
  list of unhealthy machines.
- Two members can be removed before a revision without the first exists, against `:155`:
  the gate wants the config map and the latest revision that there is, not that of the config map.
- A learner whose machine is deleted and has lost its hook is never removed, against `:389`:
  only machines with the hook are looked at. Unhealthy, it stops every later addition.
- With the HA strategy the bootstrap member can leave one voter and two learners behind:
  `canRemoveEtcdBootstrap` counts learners (`bootstrap_teardown_controller.go:198`).
- More clients can be open than there are tokens: the token goes back before the client is
  closed (`etcdcli_pool.go:96`).
- With a late MemberAddAsLearner two members can be unstarted at once, which
  `getEtcdPeerURLToAdd`'s comment (`clustermembercontroller.go:245`) wants to avoid.
- With a late MemberRemove, scaling down can take a second member in one sync: the
  loop goes on to the next candidate after an error (`clustermemberremovalcontroller.go:316`).
- The hook of a machine that hosts a *learner* can be released
  (`machinedeletionhooks.go:112`): the list is read before the learner is added.
- `QuorumKept` holds for the membership controllers alone. A rollout that takes a
  member down while another has crashed, or a late removal, can turn a legal
  membership change into a loss of quorum.
- With the HA strategy, three healthy *learners* next to the bootstrap member make
  `EtcdRunningInCluster` true (`bootstrap_teardown_controller.go:198`). If the host is
  torn down before one of them is promoted, the only voter is gone, and with it quorum:
  TLC reports the deadlock.
- During installation a rollout may restart one of two voters: any revision is "safe"
  while the previous one is still rolling out (`ceohelpers/bootstrap.go:147-150`), whereas
  the comment on `TwoNodeScalingStrategy` (`bootstrap.go:39-41`) says "quorum is maintained at
  all times". The pod comes back and the installation goes on.
- A goroutine that waits for a token does not see a client that is returned to the
  pool meanwhile (`etcdcli_pool.go:62`); it waits for a token until its timeout.
- A comment at `clustermemberremovalcontroller.go:135-144` says the endpoints controller
  pauses during a rollout; it does not.

Of certificates:

- When `etcd-all-bundles` is deleted in the middle of a sync it is written again under the
  mark of the current revision, with the content the revision has already: no revision
  follows, and the leaves are not renewed until another change makes one.
- The sync that replaces a lost `etcd-all-bundles` marks the bundles with revision 0, against the
  comment at `etcdcertsignercontroller.go:518`. It makes leaves at once, as it is meant to; when it
  ends before them, the next sync, which is not forced, finds every node past the mark, and
  makes leaves by a signer that no running etcd trusts yet. The proof of `NoLeafTooEarly` found
  this: the property held in the run with one failure and was not inductive, because two
  failures break it. It now leaves out the mark 0, as it leaves out the forced syncs.

Of two-node clusters:

- With the specs as the API server stores them, a cluster job that runs or is complete on a node
  other than the first is deleted by the first sync after an operator restart, against the
  comment at `pkg/tnf/pkg/jobs/batch.go:60`. With `SpecsFilledIn = FALSE` TLC finds no such
  deletion.
- A blocked cluster job that has a retry state is applied all the same; a node that becomes
  ready while update-setup has run for more than ten seconds does not bring a rerun; a secret
  that changes while the operator is down is taken for the one the job was made with
  (`lifecycle.go:235`).
- A node whose kubelet stopped with Pacemaker, because update-setup was lost after
  `node add` and before `cluster start`, cannot install a new revision, and the next update-setup
  waits for a stable revision (`update-setup/runner.go:171-177`): each waits for the other.
  The comment at `job_controllers.go:273-276` wants to prevent such a deadlock. `NodesReturn`
  therefore assumes that revisions settle.
- A setup job lost between the creation of the kubelet resource and `cluster enable --all` finds
  "all done" the next time (`pcs/cluster.go:22-25`), and the cluster does not start at boot. A node
  that restarts in such a cluster, or before the enabling, stays out of it; a setup job that is
  run again on that node sees no kubelet resource there and runs `cluster setup --force` (`:31`) over the
  cluster of the other node, with its etcd resource, even after the operator was told to take
  etcd out of the static pods. `HandoverCompletes` and `NodesReturn` are about the clusters
  that start with their machines (`ClusterStartsAtBoot`).
- A setup job lost between the two constraints is not told from one that made both: the next run
  finds "etcd" in the output of `pcs constraint` (`pcs/etcd.go:57-59`), and etcd is handed over
  without the colocation, under the event "Pacemaker ordering and colocation constraints
  configured" (`setup/runner.go:161-162`). `PacemakerReadyFirst` asks for the order only.
- When `cluster setup --force` has stopped the kubelets of an earlier cluster and the job is lost
  before it makes the kubelet resource again, no node is ready and no job can start:
  `HandoverCompletes` assumes that both nodes are ready again and again.
- The handover is reported on a stable revision, which may be the one before
  (`etcd.go:53`, `:95`). With three faults the address map of the etcd resource may stay behind.
- An etcd or kubelet that runs and is failed, blocked, disabled or unmanaged leaves its node
  healthy in the collector's conditions (`statuscollector.go:327`), and a healthy node is no error of
  the health check; the comment at `healthcheck.go:98` gives "etcd/kubelet unhealthy" as an example of
  an error. `Broken` therefore says "not running".
- From an error to a stale status the console passes through a state without notifications, for
  as long as the second write fails (`consolenotification.go:154-157`): `BannerFollows` says
  "again and again", not "from then on".
- A pending node is an error although a comment says otherwise; an operator that restarts while the status is stale never degrades for it
  (`healthcheck.go:593`); the console controller gives up until a restart.

Of backups:

- A failure after the label of a backup is written and before its status (`backupcontroller.go:337`,
  `:368`) leaves it processed and Pending; the next sync deletes its Job as dangling.
- A request that was marked as skipped without its label is run later.
- A failed backup leaves a folder with files that counts for retention: as many of them as are kept
  drive out every good backup.
- A folder that is still empty counts as the oldest and can be pruned while it is being written.
- Up to three backups more than `MaxNumberOfBackups` can be on the volume, where the test
  (`test/e2e/backup.go`) expects one: those that run, wait and are asked for while the pod goes
  from pruning to its request.
- A claim deleted between `validateBackup` and the start of the pod leaves a Job that never ends,
  and no later request is looked at (`backupcontroller.go:92`).

## 4. Fairness

`MembersReplace` assumes weak fairness of each controller (the factory requeues a
failed sync with back-off and resyncs periodically, a queue serves the next key), of
the rollout, of the machine controller's creation and drain, and of each etcd
container's start (kubelet restarts it). Within `Cmc`, `Rm`, `Hk` and `Ep` a sync that has
begun goes on. Deletions, losses, crashes and failing calls are never required, nor
that a late request is ever applied.

`BootstrapEnds` assumes the same of its controllers, of
the installer, of the bootstrap host's shutdown and of the registration of every node.
`ClientPool` assumes that goroutines are scheduled and that requests end, by their
context's timeout if not otherwise.

`Certs`: the controllers are resynced, revisions are created, and an installation that
can go on again and again does (strong, since a new revision takes over from an unfinished
one). `TwoNodeJobs`: syncs, the restart goroutine and failing pods are weakly fair; the two
clocks and a pod that can succeed are strongly fair, since failures and restarts interrupt
them, each of which the model bounds or the node list ends. `TwoNodeCluster`: weak fairness
of the operator, the jobs and the repair of machines; strong fairness of the start of
update-setup and of its steps from fencing to validation, since the controller may delete it for
the change of nodes it makes, but not every time at the same step. `PacemakerHealth`: time passes, the collector and the controllers
run; the health check, which runs twice a minute and on every change, does not only ever
look at a report that has just become stale; the second write of the console controller, if it is
tried again and again, succeeds now and then (strong). `Backups`: the operator syncs and a Job ends.

## 5. Proofs

The theorems hold for every set of nodes, jobs, clients or backups and every value of the bounds
that the modules' assumptions admit, with every failure, restart, late reply and crash the models
have; what a theorem leaves out is in its statement.

| theorem | says | rests on |
|---|---|---|
| `MemberManagementProofs!TypeCorrect` | `TypeOK` | each action keeps it |
| `MemberManagementProofs!CondemnedInvariant` | what the removal controller holds for removal, and every late removal, belongs to a machine that is deleting or gone | machines never go back to running |
| `MemberManagementProofs!RemovesCondemnedOnly` | `RemovesOnlyCondemned` | `CondemnedInvariant` |
| `MemberManagementProofs!VotersKeepHook` | `VoterKeepsHook` | `HookInv`: whatever votes, or can still come to vote without another look at its machine, has its hook, and what the hooks controller is about to release is neither |
| `MemberManagementProofs!OneUnstartedAtATime` | `AtMostOneUnstarted`, with `MaxLate = 0` | between the health gate and the add, nobody else can add |
| `MemberManagementProofs!EndpointsNameNoLearner` | `EndpointsExcludeLearners`, with `MaxLate = 0` | a published or about-to-be-published node that left cannot be added again: its machine is condemned |
| `MemberManagementProofs!ScaleDownStops` | `ScaleDownFloor`, with `MaxLate = 0` | only the removal controller removes, so the voters it counted are still there |
| `MemberManagementProofs!ChangesKeepQuorum` | `QuorumKept`, in a `Calm` cluster | `QuorumInv`, below |
| `ClusterBootstrapProofs!TypeCorrect` | `TypeOK` | each action keeps it |
| `ClusterBootstrapProofs!InstallInvariant` | what the teardown and the endpoints controller have read of the bootstrap member and act on later is still true | only the bootstrap member ever leaves, and it never comes back (`BootstrapLeavesOnly`) |
| `ClusterBootstrapProofs!RemovalReportedTruly`, `AddressOutlivesMember`, `TeardownLeavesEnough` | `RemovedMeansGone`, `BootstrapForgottenLast`, `EnoughMembersRemain`, for every strategy | `InstallInvariant`, whose part `Counted` says that from the count on, and as long as a removal may be applied, the list is long enough |
| `EtcdClientPoolProofs!OwnInvariant` and its corollaries `ClientsHaveOneOwner`, `TypeCorrect`, `PooledClientsAimAtCluster` | `ClientsOwned`, `TypeOK`, `PooledAimAtCluster` | a client that a probe aimed at one member has an owner, who aims it back before Return |
| `EtcdClientPoolProofs!TokensAddUp` | `TokensConserved` | tokens + idle clients + clients in use = `MaxOpen` |
| `EtcdClientPoolProofs!PoolImplementsLease` | the pool implements `ClientLease` | `OwnInvariant`, `TokensConserved` |
| `CertRotationProofs!CertInvariant`, `TypeCorrect` | the types: no empty bundle is published, and neither `etcd-all-certs` nor an etcd lacks a leaf | each action keeps them, with `SignersInv`: what a sync has made is there in its later steps |
| `CertRotationProofs!LeavesWaitForTrust` | `NoLeafTooEarly` | `MarkInv`, below |
| `TwoNodeJobsProofs!JobsInvariant`, `TypeCorrect` | `TypeOK`: the round-robin stays in its list of nodes, for any list and any number of attempts | `Listable`: a finite set of nodes can be listed by name |
| `TwoNodeJobsProofs!MessageKept` | `MaxRetriesKept` | `MaxInv`: the sync under way knows whether the retries were used up when it began |
| `TwoNodeClusterProofs!TypeCorrect`, `ClusterInvariant` | the types, and the three parts below | |
| `TwoNodeClusterProofs!HandoverIsPrepared` | `PacemakerReadyFirst` | `PreparedInv`: what each step of the setup job has behind it, on a node that is online; `TurnsInv`: setup works before the handover is over, update-setup after it |
| `TwoNodeClusterProofs!OneMemberStays` | `ClusterSurvives` | `SurviveInv`: update-setup runs on a member that is online and is not one it stops or removes, and who is online has the configuration of the cluster, so that a start that reaches only some keeps it |
| `PacemakerHealthProofs!ReportsGoForward` | `ReportNeverGoesBack` | `AgesOK`: the types of what a collector holds; the check of the time stamp in `updatePacemakerStatusCR` does the rest |
| `PacemakerHealthProofs!TypeCorrect` | `TypeOK` | each action keeps it |
| `BackupsProofs!BackupInvariant` | the invariant below | |
| `BackupsProofs!OneAtATime`, `ServedOnce` | `OneJobAtATime`, `OncePerRequest` | `BackupInvariant` |

**Quorum.** `QuorumKept` says that no change of the membership turns a cluster with quorum into
one without. It rests on the other invariants of the controllers (`CondemnedInv`, `HookInv`,
`FloorInv`) and on `QuorumInv`: no request is on its way, a machine that is gone runs nothing,
every voter has started, at most one member that votes or may come to vote is down
(`OneFallen`), and two voters stay (`TwoVoters`), also if the learners about to be removed
have been promoted meanwhile. Adding a learner changes no quorum; a promotion can only add a voter
that does not serve if that is the one fallen; a removal by scaling down leaves the counted
voters, by hook and floor. The hypothesis `Calm` says that the Machine API is there, that no
rollout takes a member down, no request is applied late, at most one member is down, three
members are desired and there are two voters to begin with. These
limits are real ones: TLC finds a counterexample with `MaxDown = 2`, with one voter (the learner
that crashes between the health check and its promotion takes the quorum with it), and those
with a rollout or a late removal that section 3 tells.

**The gate in front of the leaves.** `MarkInv` says that a node past the mark on
`etcd-all-bundles`, if a forced sync did not make it, runs with those bundles (`MarkHolds`); that
what a sync has read when it starts is true until it writes them (`ReadHolds`: the running nodes
are still at that revision, which is where the assumption on `Install` of section 2 is needed);
and that, once a sync that is not forced is at the leaves, every running etcd has the bundles and
the signers are in them (`GateHolds`). It takes all three: revisions are made for other reasons
too, and the same sync that writes the bundles may be cut short at any write.

**The handover.** `PacemakerReadyFirst` is about the two moments at which the operator is told. What
Pacemaker has been given does not stay: a rerun of the setup job may start from an empty
configuration, and a machine may fail. `PreparedInv` therefore follows the job: each step knows what
the steps before it have made, either now or in an earlier run whose trace it found, and `TurnsInv`
says that nobody takes it away while the job runs. The colocation is not among it, because a trace of
the order is taken for both.

**One backup at a time.** `BackupInv` says that a Job is labelled only once it has finished
(`JobsInv`), that a request with a Job was made and cannot be made again, and is done or has a
Job whose missing label brings the next sync to it (`RequestInv`), and that what a sync has read
still holds when it is used (`SyncInv`): when it has found no Job running none is, and the
requests it holds for a new Job have had none. `OneJobAtATime` needs only the first part of
`SyncInv`; `OncePerRequest` all of it.

Assumptions on constants: the sets of nodes of `TwoNodeCluster` and `PacemakerHealth` are finite (two
nodes in the first), the flaws of the clusters of `PacemakerHealth` are those the code tells apart.
The hypothesis `MaxLate = 0` is named in the theorems that need it and is necessary: TLC
finds the counterexamples without it. Each inductive invariant also holds on the instances of the runs under
TLC, `CertInv` with both signers and two failures as well.

Only model-checked:

- the liveness properties (`DeletedMachinesLeave`, `NewMachinesVote`, `InstallationCompletes`,
  `CallsEnd`, `RotationCompletes`, `SecretsMatchNodes`, `JobCompletes`, `BlockedJobsDegrade`,
  `HandoverCompletes`, `NodesReturn`, `OperatorLearns`, `ErrorAnnounced`, `BannerFollows`,
  `RequestsEnd`): the provers handle neither fairness nor ENABLED;
- `RetentionExact`, whose pruning sorts the folders and adds up their sizes: what a fold computes
  takes an induction over data, which the provers cannot apply. `Listable`, the one lemma of that
  kind, goes by the least counterexample among the numbers instead.

The modules have no RECURSIVE operator.

## 6. Not modelled

- Defragmentation: one loop over one status report, with a backoff and a counter of its own.
- The static pod installer step by step (retries, fallback, installer pods, the guard on
  unready nodes): the modules have its effect on members and files.
- The two-node certificate watch, the external etcd pod, the disruption tracker: they copy a
  file or a condition.
- Members status, metrics, config observation, scripts, resource sync, the aliveness
  checker: they report or copy, and no decision modelled here depends on them.
- Render, restore, the backup server and the other command line tools: files and processes.
- Bootstrap in place: there is no bootstrap member.

## 7. Plan

1. `RetentionExact`, with a definition of the pruned folders by count instead of by sorting, and
   the lemmas about it; `TypeOK` of `Backups`.
2. A stronger `QuorumKept`: what of it is left with rollouts, when the static pod installer's
   guard on unready nodes is modelled.
3. `StaticPodRollout`: an abstract rollout, one node at a time to a newer revision, that the
   rollouts of `MemberManagement`, `ClusterBootstrap` and `CertRotation` implement.
4. `Defrag`: one member at a time, leader last, failures counted.
