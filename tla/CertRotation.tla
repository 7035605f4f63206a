---------------------------- MODULE CertRotation ----------------------------
(***************************************************************************)
(* How the certificates of etcd are made, replaced and thrown away:        *)
(* EtcdCertSignerController (pkg/operator/etcdcertsigner, pkg/tlshelpers)  *)
(* and EtcdCertCleanerController (pkg/operator/etcdcertcleaner), with the  *)
(* revisions of the static pods that bring them to the nodes.              *)
(*                                                                         *)
(* A signer is the number of its generation. A leaf certificate is known   *)
(* by the signer that made it and by what it was made for: the number of   *)
(* times its addresses changed or its refresh time passed. The peer and    *)
(* the serving certificate of a node are made alike and are one.           *)
(***************************************************************************)
EXTENDS Integers, FiniteSets

CONSTANTS Nodes,       \* all control plane nodes there may be, 1, 2, ...
          Masters,     \* the ones there are at the start
          Kinds,       \* etcd's signer is 1, the one for metrics is 2
          MaxSigner,   \* bound: generations of a signer
          MaxChanges,  \* bound: nodes that join or leave, leaves that come due, other
                       \* reasons for a revision
          MaxFaults    \* bound: failed syncs, lost configmaps

ASSUME CertAssumption ==
    /\ Nodes \subseteq Nat \ {0} /\ Masters \subseteq Nodes /\ IsFiniteSet(Nodes)
    /\ Kinds \subseteq Nat \ {0} /\ Kinds # {} /\ IsFiniteSet(Kinds)
    /\ MaxSigner \in Nat \ {0} /\ MaxChanges \in Nat /\ MaxFaults \in Nat

VARIABLES
    nodes,      \* the control plane nodes
    bootstrap,  \* has bootstrapping not ended yet?
    wanted,     \* generation the signer of a kind should be, by its age
    expired,    \* generations that are no longer valid
    signer,     \* secrets etcd-signer and etcd-metric-signer; 0: missing
    bundle,     \* configmaps etcd-ca-bundle and etcd-metrics-ca-bundle
    allBundles, \* configmap etcd-all-bundles, and the revision it is marked with
    need,       \* what the leaves of a node are to be made for; 0 is the clients
    leaf,       \* secrets of the leaves
    allCerts,   \* secret etcd-all-certs
    sync,       \* where a sync of the signer controller is
    tag,        \* grace period of a node's secrets: "none", "tagged", "ripe"
    doomed,     \* secrets the cleaner is about to delete
    latest,     \* the latest revision and what it holds
    at,         \* revision each node is at
    files,      \* what etcd runs with on a node
    other,      \* the rest of what makes a revision
    faults, changes

vars == <<nodes, bootstrap, wanted, expired, signer, bundle, allBundles, need, leaf,
          allCerts, sync, tag, doomed, latest, at, files, other, faults, changes>>
caVars == <<signer, bundle, allBundles>>
leafVars == <<leaf, allCerts>>
cleanVars == <<tag, doomed>>
rollVars == <<latest, at, files>>
timeVars == <<nodes, bootstrap, wanted, expired, need, other>>
bounds == <<faults, changes>>

Missing == [kind |-> "missing"]
NoLeaf == [by |-> 0, for |-> 0]
Owners == Nodes \cup {0}
Leaves == [by : 0..MaxSigner, for : 0..MaxChanges]
Running == {n \in nodes : files[n] # Missing}

Idle == [pc |-> "idle", force |-> FALSE]

Trusted == [Kinds -> SUBSET (1..MaxSigner)]
Issued == [Kinds -> Leaves \ {NoLeaf}]
Syncs == {Idle}
    \cup [pc : {"signers", "bundles", "all bundles"}, force : BOOLEAN,
          cur : 0..latest.rev, rot : 0..latest.rev]
    \cup [pc : {"leaves"}, force : BOOLEAN, list : SUBSET Nodes,
          done : SUBSET (Owners \X Kinds)]

(* Every part of the state keeps to its type: no bundle of etcd-all-bundles is empty, no
   revision is ahead of the latest, and etcd-all-certs and what etcd runs with lack no leaf. *)
TypeOK ==
    /\ nodes \subseteq Nodes /\ bootstrap \in BOOLEAN
    /\ wanted \in [Kinds -> 1..MaxSigner] /\ signer \in [Kinds -> 0..MaxSigner]
    /\ expired \in Trusted /\ bundle \in Trusted
    /\ allBundles \in {Missing}
         \cup [kind : {"set"}, of : [Kinds -> (SUBSET (1..MaxSigner)) \ {{}}], rev : 0..latest.rev]
    /\ need \in [Owners -> 0..MaxChanges] /\ leaf \in [Owners -> [Kinds -> Leaves]]
    /\ \/ allCerts = Missing
       \/ \A n \in DOMAIN allCerts.of : n \in Nodes /\ allCerts.of[n] \in Issued
    /\ sync \in Syncs
    /\ tag \in [Nodes -> {"none", "tagged", "ripe"}] /\ doomed \subseteq Nodes
    /\ latest = [rev |-> latest.rev, of |-> latest.of] /\ latest.rev \in Nat
    /\ at \in [Nodes -> 0..latest.rev]
    /\ files \in [Nodes -> {Missing} \cup [kind : {"set"}, bundles : Trusted, certs : Issued]]
    /\ other \in 0..MaxChanges /\ faults \in 0..MaxFaults /\ changes \in 0..MaxChanges

(* A new cluster: the static pods do not run yet. *)
Init ==
    /\ nodes = Masters /\ bootstrap = TRUE
    /\ wanted = [k \in Kinds |-> 1] /\ expired = [k \in Kinds |-> {}]
    /\ signer = [k \in Kinds |-> 0] /\ bundle = [k \in Kinds |-> {}]
    /\ allBundles = Missing
    /\ need = [n \in Owners |-> 0]
    /\ leaf = [n \in Owners |-> [k \in Kinds |-> NoLeaf]]
    /\ allCerts = Missing /\ sync = Idle
    /\ tag = [n \in Nodes |-> "none"] /\ doomed = {}
    /\ latest = [rev |-> 0, of |-> Missing]
    /\ at = [n \in Nodes |-> 0] /\ files = [n \in Nodes |-> Missing]
    /\ other = 0 /\ faults = 0 /\ changes = 0

-----------------------------------------------------------------------------
(* EtcdCertSignerController.sync *)

(* While bootstrapping, or to bring etcd-all-bundles back, nothing is waited for. *)
Unguarded == bootstrap \/ allBundles = Missing

(* hasNodeCertDiff *)
NodeDiff == allCerts = Missing \/ ~(nodes \subseteq DOMAIN allCerts.of)

(* CurrentRevision: there is one when all nodes are at the latest. *)
AtLatest == nodes # {} /\ \A n \in nodes : at[n] = latest.rev

(* getCertRotationRevision *)
RotationRevision == IF allBundles = Missing THEN 0 ELSE allBundles.rev

SyncStarts ==
    /\ sync = Idle
    /\ \/ /\ Unguarded
          /\ sync' = [pc |-> "signers", force |-> TRUE, cur |-> 0, rot |-> 0]
       \/ /\ ~Unguarded /\ NodeDiff
          /\ sync' = [pc |-> "leaves", force |-> TRUE, list |-> nodes, done |-> {}]
       \/ /\ ~Unguarded /\ ~NodeDiff /\ AtLatest
          /\ sync' = [pc |-> "signers", force |-> FALSE,
                      cur |-> latest.rev, rot |-> RotationRevision]
    /\ UNCHANGED <<timeVars, caVars, leafVars, cleanVars, rollVars, bounds>>

First(S) == CHOOSE x \in S : \A y \in S : x <= y

(* EnsureSigningCertKeyPair for etcd, then for metrics. *)
EnsureSigners ==
    LET due == {k \in Kinds : signer[k] < wanted[k]} IN
    /\ sync.pc = "signers"
    /\ \/ /\ due # {}
          /\ signer' = [signer EXCEPT ![First(due)] = wanted[First(due)]]
          /\ UNCHANGED sync
       \/ /\ due = {}
          /\ sync' = [sync EXCEPT !.pc = "bundles"]
          /\ UNCHANGED signer
    /\ UNCHANGED <<timeVars, bundle, allBundles, leafVars, cleanVars, rollVars, bounds>>

(* EnsureConfigMapCABundle: the signer is added, what has expired is left out. *)
Bundled(k) == (bundle[k] \cup {signer[k]}) \ expired[k]

EnsureBundles ==
    LET due == {k \in Kinds : bundle[k] # Bundled(k)} IN
    /\ sync.pc = "bundles"
    /\ \/ /\ due # {}
          /\ bundle' = [bundle EXCEPT ![First(due)] = Bundled(First(due))]
          /\ UNCHANGED sync
       \/ /\ due = {}
          /\ sync' = [sync EXCEPT !.pc = "all bundles"]
          /\ UNCHANGED bundle
    /\ UNCHANGED <<timeVars, signer, allBundles, leafVars, cleanVars, rollVars, bounds>>

(* Mutant: the leaves follow the bundles at once. *)
MayGoOnAtOnce(changed) == TRUE

(* syncAllMasterCertificates: when the bundles have just changed, or the nodes are
   not past the revision at which they did, the leaves wait. *)
MayGoOn(changed) == sync.force \/ (~changed /\ sync.cur > sync.rot)

(* ensureBundles: the mark on etcd-all-bundles. *)
Marked == sync.cur

EnsureAllBundles ==
    LET changed == allBundles = Missing \/ allBundles.of # bundle IN
    /\ sync.pc = "all bundles"
    /\ allBundles' = IF changed THEN [kind |-> "set", of |-> bundle, rev |-> Marked]
                     ELSE allBundles
    /\ sync' = IF MayGoOn(changed)
                 THEN [pc |-> "leaves", force |-> sync.force, list |-> nodes, done |-> {}]
                 ELSE Idle
    /\ UNCHANGED <<timeVars, signer, bundle, leafVars, cleanVars, rollVars, bounds>>

-----------------------------------------------------------------------------
(* syncLeafCertificates *)

Fresh(n, k) == [by |-> signer[k], for |-> need[n]]

(* Mutant: a leaf is kept as long as its signer is in the bundle. *)
NeedNewWhileTrusted(n, k) ==
    \/ leaf[n][k] = NoLeaf \/ leaf[n][k].for # need[n]
    \/ leaf[n][k].by \notin bundle[k]

(* NeedNewTargetCertKeyPair: missing, too old or for other addresses, by a signer that
   is no longer in the bundle, or by one that is not the latest. *)
NeedNewTargetCertKeyPair(n, k) ==
    \/ leaf[n][k] = NoLeaf \/ leaf[n][k].for # need[n]
    \/ leaf[n][k].by \notin bundle[k] \/ leaf[n][k].by # signer[k]

(* The clients first, then node after node. *)
Todo == {t \in (sync.list \cup {0}) \X Kinds :
           t \notin sync.done /\ NeedNewTargetCertKeyPair(t[1], t[2])}
NextLeaf == CHOOSE t \in Todo : \A u \in Todo : t[1] < u[1] \/ (t[1] = u[1] /\ t[2] <= u[2])

(* EnsureTargetCertKeyPair *)
EnsureLeaf ==
    /\ sync.pc = "leaves" /\ Todo # {}
    /\ LET n == NextLeaf[1]
           k == NextLeaf[2]
       IN  /\ leaf' = [leaf EXCEPT ![n][k] = Fresh(n, k)]
           /\ sync' = [sync EXCEPT !.done = @ \cup {<<n, k>>}]
    /\ UNCHANGED <<timeVars, caVars, allCerts, cleanVars, rollVars, bounds>>

(* etcd-all-certs is written last, from what was seen on the way. *)
WriteAllCerts ==
    /\ sync.pc = "leaves" /\ Todo = {}
    /\ allCerts' = [kind |-> "set",
                    of |-> [n \in sync.list |->
                              [k \in Kinds |-> IF leaf[n][k] = NoLeaf THEN Fresh(n, k)
                                               ELSE leaf[n][k]]]]
    /\ sync' = Idle
    /\ UNCHANGED <<timeVars, caVars, leaf, cleanVars, rollVars, bounds>>

(* A write fails, the operator stops: what was written stays. *)
SyncFails ==
    /\ sync # Idle /\ faults < MaxFaults
    /\ sync' = Idle /\ faults' = faults + 1
    /\ UNCHANGED <<timeVars, caVars, leafVars, cleanVars, rollVars, changes>>

-----------------------------------------------------------------------------
(* EtcdCertCleanerController *)

HasSecret(n) == \E k \in Kinds : leaf[n][k] # NoLeaf

(* Mutant: the mark is never saved. *)
TagAfterUnsaved(n) == IF ~HasSecret(n) \/ n \in nodes THEN "none" ELSE tag[n]

(* findUnusedNodeBasedSecrets: the secrets of a node that is there lose their mark,
   the others get one, or have had it for long enough. *)
TagAfter(n) ==
    CASE ~HasSecret(n) \/ n \in nodes -> "none"
      [] HasSecret(n) /\ n \notin nodes /\ tag[n] = "none" -> "tagged"
      [] OTHER -> tag[n]

CleanerLists ==
    /\ doomed = {}
    /\ tag' = [n \in Nodes |-> TagAfter(n)]
    /\ doomed' = {n \in Nodes \ nodes : HasSecret(n) /\ tag[n] = "ripe"}
    /\ <<tag', doomed'>> # <<tag, doomed>>
    /\ UNCHANGED <<timeVars, caVars, leafVars, sync, rollVars, bounds>>

(* sync: the secrets are deleted, though the node may have come back meanwhile. *)
CleanerDeletes ==
    /\ doomed # {}
    /\ leaf' = [n \in Owners |-> IF n = First(doomed) THEN [k \in Kinds |-> NoLeaf]
                                 ELSE leaf[n]]
    /\ tag' = [tag EXCEPT ![First(doomed)] = "none"]
    /\ doomed' = doomed \ {First(doomed)}
    /\ UNCHANGED <<timeVars, caVars, allCerts, sync, rollVars, bounds>>

(* A secret cannot be deleted: the sync ends there. *)
CleanerFails ==
    /\ doomed # {} /\ faults < MaxFaults
    /\ doomed' = {} /\ faults' = faults + 1
    /\ UNCHANGED <<timeVars, caVars, leafVars, sync, tag, rollVars, changes>>

(* DeletionGracePeriod is over. *)
GracePasses ==
    /\ \E n \in Nodes : tag[n] = "tagged" /\ tag' = [tag EXCEPT ![n] = "ripe"]
    /\ UNCHANGED <<timeVars, caVars, leafVars, sync, doomed, rollVars, bounds>>

-----------------------------------------------------------------------------
(* The revision and installer controllers of the static pods (library-go). *)

Content == [bundles |-> allBundles.of, certs |-> allCerts.of, other |-> other]

(* A revision is made when the content differs from that of the latest. *)
NewRevision ==
    /\ allBundles # Missing /\ allCerts # Missing
    /\ latest.of # Content
    /\ latest' = [rev |-> latest.rev + 1, of |-> Content]
    /\ UNCHANGED <<timeVars, caVars, leafVars, sync, cleanVars, at, files, bounds>>

(* One node after the other is brought to the latest revision. The files of the
   certificates are copied as they are now (WithUnrevisionedCerts). An installation
   takes longer than the signer controller needs for its signers and bundles. *)
Install(n) ==
    /\ n \in nodes /\ at[n] < latest.rev
    /\ allBundles # Missing /\ allCerts # Missing /\ n \in DOMAIN allCerts.of
    /\ sync.pc \in {"idle", "leaves"} \/ sync.force
    /\ at' = [at EXCEPT ![n] = latest.rev]
    /\ files' = [files EXCEPT ![n] = [kind |-> "set", bundles |-> allBundles.of,
                                      certs |-> allCerts.of[n]]]
    /\ UNCHANGED <<timeVars, caVars, leafVars, sync, cleanVars, latest, bounds>>

-----------------------------------------------------------------------------
(* Time, nodes and other changes. *)

BootstrapEnds ==
    /\ bootstrap /\ Running = nodes
    /\ bootstrap' = FALSE
    /\ UNCHANGED <<nodes, wanted, expired, need, other, caVars, leafVars, sync, cleanVars,
                   rollVars, bounds>>

(* The refresh time of a signer: it is far longer than bootstrapping or a rollout. *)
SignerDue(k) ==
    /\ ~bootstrap /\ ~sync.force /\ wanted[k] < MaxSigner /\ wanted[k] = signer[k]
    /\ wanted' = [wanted EXCEPT ![k] = @ + 1]
    /\ UNCHANGED <<nodes, bootstrap, expired, need, other, caVars, leafVars, sync, cleanVars,
                   rollVars, bounds>>

(* A signer expires long after it was replaced, when nothing by it is in use. *)
SignerExpires(k) ==
    /\ \E g \in 1..(signer[k] - 1) \ expired[k] :
         /\ \A n \in Owners : leaf[n][k].by # g
         /\ \A n \in Running : files[n].certs[k].by # g
         /\ expired' = [expired EXCEPT ![k] = @ \cup {g}]
    /\ UNCHANGED <<nodes, bootstrap, wanted, need, other, caVars, leafVars, sync, cleanVars,
                   rollVars, bounds>>

LeafDue(n) ==
    /\ n \in nodes \cup {0} /\ \A k \in Kinds : leaf[n][k].for = need[n]
    /\ ~bootstrap /\ changes < MaxChanges
    /\ need' = [need EXCEPT ![n] = @ + 1] /\ changes' = changes + 1
    /\ UNCHANGED <<nodes, bootstrap, wanted, expired, other, caVars, leafVars, sync, cleanVars,
                   rollVars, faults>>

NodeJoins(n) ==
    /\ n \notin nodes /\ changes < MaxChanges /\ ~bootstrap
    /\ nodes' = nodes \cup {n} /\ changes' = changes + 1
    /\ UNCHANGED <<bootstrap, wanted, expired, need, other, caVars, leafVars, sync, cleanVars,
                   rollVars, faults>>

(* What ran on the node is gone with it. *)
NodeLeaves(n) ==
    /\ n \in nodes /\ nodes # {n} /\ changes < MaxChanges /\ ~bootstrap
    /\ nodes' = nodes \ {n} /\ changes' = changes + 1
    /\ at' = [at EXCEPT ![n] = 0] /\ files' = [files EXCEPT ![n] = Missing]
    /\ UNCHANGED <<bootstrap, wanted, expired, need, other, caVars, leafVars, sync, cleanVars,
                   latest, faults>>

(* Not in the middle of a sync: the sync would bring it back under the mark of the
   current revision, which no revision follows as the content is the same. *)
BundlesLost ==
    /\ allBundles # Missing /\ sync = Idle /\ faults < MaxFaults /\ ~bootstrap
    /\ allBundles' = Missing /\ faults' = faults + 1
    /\ UNCHANGED <<timeVars, signer, bundle, leafVars, sync, cleanVars, rollVars, changes>>

OtherChange ==
    /\ ~bootstrap /\ changes < MaxChanges
    /\ other' = other + 1 /\ changes' = changes + 1
    /\ UNCHANGED <<nodes, bootstrap, wanted, expired, need, caVars, leafVars, sync, cleanVars,
                   rollVars, faults>>

Signer == SyncStarts \/ EnsureSigners \/ EnsureBundles \/ EnsureAllBundles \/ EnsureLeaf
          \/ WriteAllCerts
Cleaner == CleanerLists \/ CleanerDeletes
Environment ==
    \/ (\E k \in Kinds : SignerDue(k) \/ SignerExpires(k))
    \/ (\E n \in Owners : LeafDue(n))
    \/ (\E n \in Nodes : NodeJoins(n) \/ NodeLeaves(n))
    \/ BundlesLost \/ OtherChange \/ SyncFails \/ CleanerFails

Next == \/ Signer \/ Cleaner \/ GracePasses \/ NewRevision \/ BootstrapEnds
        \/ (\E n \in Nodes : Install(n))
        \/ Environment

Spec == Init /\ [][Next]_vars

(* The controllers are synced again and again, and a rollout goes on. *)
Fairness ==
    /\ WF_vars(Signer) /\ WF_vars(Cleaner) /\ WF_vars(GracePasses)
    /\ WF_vars(NewRevision) /\ WF_vars(BootstrapEnds)
    /\ \A n \in Nodes : SF_vars(Install(n))

FairSpec == Spec /\ Fairness

-----------------------------------------------------------------------------
(* syncAllMasterCertificates: the first leaf by a new signer is made, unless it is forced
   or the bundles bear the mark 0 of a forced sync, only when each running etcd trusts
   that signer already, whatever revisions other changes have made on the way. *)
NoLeafTooEarly ==
    [][\A k \in Kinds :
         (/\ leaf' # leaf /\ sync.pc = "leaves" /\ ~sync.force /\ allBundles.rev # 0
          /\ \A n \in Owners : leaf[n][k].by # signer[k]
          /\ \E n \in Owners : leaf'[n][k].by = signer[k])
           => \A m \in Running : signer[k] \in files[m].bundles[k]]_vars

(* Each running etcd trusts what its peers and the clients show. *)
PeersTrust ==
    \A m \in Running, k \in Kinds :
      /\ \A n \in Running : files[n].certs[k].by \in files[m].bundles[k]
      /\ bootstrap \/ leaf[0][k].by \in files[m].bundles[k]

(* Whatever request failed, whatever node joined or left on the way, and though all bundles
   were lost between two syncs: in the end each node runs with leaves by the latest signer,
   made for what they should be, and all trust all. *)
RotationCompletes ==
    <>[](/\ Running = nodes /\ PeersTrust
         /\ \A n \in nodes, k \in Kinds :
              files[n].certs[k] = [by |-> wanted[k], for |-> need[n]]
         /\ \A k \in Kinds : leaf[0][k] = [by |-> wanted[k], for |-> need[0]])

(* The cleaner: in the end there are secrets for the nodes that are there, the ones it
   deleted under a node that came back included, and for no other. *)
SecretsMatchNodes == <>[](\A n \in Nodes : HasSecret(n) <=> n \in nodes)
=============================================================================
