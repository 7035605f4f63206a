------------------------- MODULE CertRotationProofs -------------------------
(***************************************************************************)
(* Proofs about CertRotation, for any nodes, any number of signers, of     *)
(* changes and of faults: the types, and that outside forced syncs no leaf *)
(* is made by a signer that a running etcd does not trust yet.             *)
(***************************************************************************)
EXTENDS CertRotation, WellFoundedInduction, TLAPS

(* What the signer has made is what later steps of its sync find. *)
SignersInv ==
    /\ \A k \in Kinds : signer[k] <= wanted[k]
    /\ \A k \in Kinds : \A g \in expired[k] : g < signer[k]
    /\ sync.pc \in {"bundles", "all bundles", "leaves"} \/ allBundles # Missing
         => \A k \in Kinds : signer[k] >= 1
    /\ sync.pc = "all bundles" => \A k \in Kinds : signer[k] \in bundle[k]

(* The bounded counters go together. *)
ChangesInv == (\A n \in Owners : need[n] <= changes) /\ other <= changes

(* A node that is not there runs nothing. *)
GoneRunsNothing == \A n \in Nodes \ nodes : files[n] = Missing

(* The mark, unless a forced sync made it: a node past it has the bundles. *)
MarkHolds ==
    allBundles # Missing /\ allBundles.rev # 0 =>
      \A m \in Running : at[m] > allBundles.rev => files[m].bundles = allBundles.of

Early == {"signers", "bundles", "all bundles"}

(* What a sync has read when it starts is true until it writes the bundles: the nodes
   that run are at that revision, and no bundles were written under another mark. *)
ReadHolds ==
    sync.pc \in Early =>
      IF sync.force THEN sync.cur = 0
      ELSE /\ allBundles # Missing /\ sync.rot = allBundles.rev
           /\ \A m \in Running : at[m] = sync.cur

(* When a sync that is not forced comes to the leaves, each node has the bundles, and
   the signers are in them. *)
GateHolds ==
    sync.pc = "leaves" /\ ~sync.force =>
      /\ allBundles # Missing
      /\ allBundles.rev # 0 =>
           /\ \A k \in Kinds : signer[k] \in allBundles.of[k]
           /\ \A m \in Running : files[m].bundles = allBundles.of

MarkInv == GoneRunsNothing /\ MarkHolds /\ ReadHolds /\ GateHolds
CertInv == TypeOK /\ SignersInv /\ ChangesInv /\ MarkInv

-----------------------------------------------------------------------------
(* First things *)

\* A set of numbers that is not empty has a least one.
LEMMA HasLeast ==
    ASSUME NEW T \in SUBSET Nat, T # {}
    PROVE  \E x \in T : \A y \in T : x <= y
<1> DEFINE R == {ss \in Nat \X Nat : ss[1] < ss[2]}
<1>1. IsWellFoundedOn(R, Nat)
  BY NatLessThanWellFounded DEF OpToRel
<1>2. \E x \in T : \A y \in T : ~(<<y, x>> \in R)
  <2> HIDE DEF R
  <2> QED BY <1>1, WFMin
<1>3. PICK x \in T : \A y \in T : ~(<<y, x>> \in R)
  BY <1>2
<1>4. ASSUME NEW y \in T PROVE x <= y
  <2>1. ~(<<y, x>> \in R) /\ x \in Nat /\ y \in Nat
    BY <1>3
  <2>2. ~(y < x)
    BY <2>1
  <2> QED BY <2>1, <2>2
<1> QED BY <1>4

\* First, by which signers, bundles and secrets are taken up, picks one of them.
LEMMA FirstIn ==
    ASSUME NEW T \in SUBSET Nat, T # {}
    PROVE  First(T) \in T
  BY HasLeast DEF First

\* A sync is idle, before its leaves or at them, and has the fields that go with it.
LEMMA SyncIs ==
    ASSUME TypeOK
    PROVE  \/ sync = Idle /\ sync.pc = "idle" /\ sync.force = FALSE
           \/ /\ sync.pc \in Early /\ sync.force \in BOOLEAN
              /\ sync.cur \in 0..latest.rev /\ sync.rot \in 0..latest.rev
              /\ sync = [pc |-> sync.pc, force |-> sync.force, cur |-> sync.cur,
                         rot |-> sync.rot]
           \/ /\ sync.pc = "leaves" /\ sync.force \in BOOLEAN
              /\ sync.list \subseteq Nodes /\ sync.done \subseteq Owners \X Kinds
              /\ sync = [pc |-> "leaves", force |-> sync.force, list |-> sync.list,
                         done |-> sync.done]
<1>1. sync \in Syncs
  BY DEF TypeOK
<1>2. CASE sync = Idle
  BY <1>2 DEF Idle
<1>3. CASE sync \in [pc : Early, force : BOOLEAN, cur : 0..latest.rev, rot : 0..latest.rev]
  BY <1>3
<1>4. CASE sync \in [pc : {"leaves"}, force : BOOLEAN, list : SUBSET Nodes,
                     done : SUBSET (Owners \X Kinds)]
  BY <1>4
<1> QED BY <1>1, <1>2, <1>3, <1>4 DEF Syncs, Early

\* NextLeaf is one of the leaves to be made.
LEMMA NextLeafIn ==
    ASSUME TypeOK, sync.pc = "leaves", Todo # {}
    PROVE  /\ NextLeaf \in Todo
           /\ NextLeaf = <<NextLeaf[1], NextLeaf[2]>>
           /\ NextLeaf[1] \in Owners /\ NextLeaf[2] \in Kinds
<1>1. sync.list \subseteq Nodes
  BY SyncIs DEF Early
<1>2. ASSUME NEW t \in Todo
      PROVE  t = <<t[1], t[2]>> /\ t[1] \in Owners /\ t[2] \in Kinds
                /\ t[1] \in Nat /\ t[2] \in Nat
  <2>1. t \in (sync.list \cup {0}) \X Kinds
    BY DEF Todo
  <2>2. t = <<t[1], t[2]>> /\ t[1] \in sync.list \cup {0} /\ t[2] \in Kinds
    BY <2>1
  <2> QED BY <1>1, <2>2, CertAssumption DEF Owners
<1> DEFINE A == {t[1] : t \in Todo}
<1>3. A \in SUBSET Nat /\ A # {}
  BY <1>2
<1>4. PICK a \in A : \A b \in A : a <= b
  <2> HIDE DEF A
  <2> QED BY <1>3, HasLeast
<1> DEFINE B == {t[2] : t \in {u \in Todo : u[1] = a}}
<1>5. B \in SUBSET Nat /\ B # {}
  BY <1>2, <1>4
<1>6. PICK b \in B : \A c \in B : b <= c
  <2> HIDE DEF B
  <2> QED BY <1>5, HasLeast
<1>7. PICK t \in Todo : t[1] = a /\ t[2] = b
  BY <1>6
<1>8. ASSUME NEW u \in Todo PROVE t[1] < u[1] \/ (t[1] = u[1] /\ t[2] <= u[2])
  <2>1. u[1] \in A /\ u[1] \in Nat /\ t[1] \in Nat
    BY <1>2
  <2>2. t[1] <= u[1]
    BY <2>1, <1>4, <1>7
  <2>3. CASE t[1] = u[1]
    <3>1. u[2] \in B
      BY <2>3, <1>7
    <3> QED BY <3>1, <2>3, <1>6, <1>7
  <2>4. CASE t[1] # u[1]
    BY <2>1, <2>2, <2>4
  <2> QED BY <2>3, <2>4
<1>9. NextLeaf \in Todo
  BY <1>7, <1>8 DEF NextLeaf
<1> QED BY <1>9, <1>2

-----------------------------------------------------------------------------
(* The types *)

\* The sets of values do not change; those of revisions grow with the latest one.
LEMMA StartsRight == Init => TypeOK
<1> SUFFICES ASSUME Init PROVE TypeOK
  OBVIOUS
<1> USE CertAssumption DEF Init
<1>1. sync \in Syncs
  BY DEF Syncs
<1>2. leaf \in [Owners -> [Kinds -> Leaves]]
  <2>1. NoLeaf \in Leaves
    BY DEF NoLeaf, Leaves
  <2> QED BY <2>1
<1>3. need \in [Owners -> 0..MaxChanges] /\ wanted \in [Kinds -> 1..MaxSigner]
      /\ signer \in [Kinds -> 0..MaxSigner]
  OBVIOUS
<1>4. expired \in Trusted /\ bundle \in Trusted
  BY DEF Trusted
<1>5. latest = [rev |-> latest.rev, of |-> latest.of] /\ latest.rev = 0
  OBVIOUS
<1>6. at \in [Nodes -> 0..latest.rev]
  BY <1>5
<1>7. tag \in [Nodes -> {"none", "tagged", "ripe"}] /\ doomed \subseteq Nodes
  OBVIOUS
<1>8. files \in [Nodes -> {Missing} \cup [kind : {"set"}, bundles : Trusted, certs : Issued]]
  OBVIOUS
<1> QED BY <1>1, <1>2, <1>3, <1>4, <1>5, <1>6, <1>7, <1>8 DEF TypeOK

\* etcd-all-bundles, when it is there, has its content and its mark.
LEMMA BundlesAre ==
    ASSUME TypeOK, allBundles # Missing
    PROVE  /\ allBundles.of \in [Kinds -> (SUBSET (1..MaxSigner)) \ {{}}]
           /\ allBundles.of \in Trusted
           /\ allBundles.rev \in 0..latest.rev /\ allBundles.rev \in Nat
<1>1. allBundles \in [kind : {"set"}, of : [Kinds -> (SUBSET (1..MaxSigner)) \ {{}}],
                      rev : 0..latest.rev]
  BY DEF TypeOK
<1>2. latest.rev \in Nat
  BY DEF TypeOK
<1> QED BY <1>1, <1>2 DEF Trusted

\* A signer that was made is one of the generations.
LEMMA SignerThere ==
    ASSUME TypeOK, NEW k \in Kinds, signer[k] >= 1
    PROVE  signer[k] \in 1..MaxSigner
  BY CertAssumption DEF TypeOK

\* What a step leaves alone of the revisions keeps its type with the latest revision.
LEMMA RevisionsKeep ==
    ASSUME TypeOK, latest' = latest
    PROVE  /\ latest' = [rev |-> latest'.rev, of |-> latest'.of] /\ latest'.rev \in Nat
           /\ UNCHANGED at => at' \in [Nodes -> 0..latest'.rev]
           /\ UNCHANGED sync => sync' \in Syncs'
           /\ UNCHANGED allBundles =>
                allBundles' \in {Missing} \cup [kind : {"set"},
                                  of : [Kinds -> (SUBSET (1..MaxSigner)) \ {{}}],
                                  rev : 0..latest'.rev]
  BY DEF TypeOK, Syncs

\* SyncStarts finds its revisions in range.
LEMMA TypeStarts == ASSUME TypeOK, SyncStarts PROVE TypeOK'
<1> USE DEF SyncStarts, timeVars, caVars, leafVars, cleanVars, rollVars, bounds
<1>1. latest' = latest /\ UNCHANGED at /\ UNCHANGED allBundles /\ latest.rev \in Nat
  BY DEF TypeOK
<1>2. sync' \in Syncs
  <2>1. RotationRevision \in 0..latest.rev
    BY <1>1, BundlesAre DEF RotationRevision
  <2>2. nodes \subseteq Nodes
    BY DEF TypeOK
  <2>3. CASE sync' = [pc |-> "signers", force |-> TRUE, cur |-> 0, rot |-> 0]
    BY <1>1, <2>3 DEF Syncs
  <2>4. CASE sync' = [pc |-> "leaves", force |-> TRUE, list |-> nodes, done |-> {}]
    BY <2>2, <2>4 DEF Syncs
  <2>5. CASE sync' = [pc |-> "signers", force |-> FALSE, cur |-> latest.rev,
                      rot |-> RotationRevision]
    <3>1. latest.rev \in 0..latest.rev
      BY <1>1
    <3> QED BY <2>1, <2>5, <3>1 DEF Syncs
  <2> QED BY <2>3, <2>4, <2>5
<1>3. sync' \in Syncs'
  BY <1>1, <1>2 DEF Syncs
<1> QED BY <1>1, <1>3, RevisionsKeep DEF TypeOK

\* EnsureSigners makes a signer of the generation that is wanted.
LEMMA TypeSigners == ASSUME TypeOK, EnsureSigners PROVE TypeOK'
<1> USE DEF EnsureSigners, timeVars, caVars, leafVars, cleanVars, rollVars, bounds
<1>1. latest' = latest /\ UNCHANGED at /\ UNCHANGED allBundles
  OBVIOUS
<1> DEFINE due == {k \in Kinds : signer[k] < wanted[k]}
<1>2. CASE /\ due # {} /\ signer' = [signer EXCEPT ![First(due)] = wanted[First(due)]]
           /\ UNCHANGED sync
  <2>1. First(due) \in Kinds
    <3>1. due \in SUBSET Nat /\ due \subseteq Kinds
      BY CertAssumption
    <3> HIDE DEF due
    <3> QED BY <1>2, <3>1, FirstIn
  <2>2. signer' \in [Kinds -> 0..MaxSigner]
    <3> HIDE DEF due
    <3> QED BY <1>2, <2>1, CertAssumption DEF TypeOK
  <2> HIDE DEF due
  <2> QED BY <1>1, <1>2, <2>2, RevisionsKeep DEF TypeOK
<1>3. CASE sync' = [sync EXCEPT !.pc = "bundles"] /\ UNCHANGED signer
  <2>1. sync' \in Syncs
    BY <1>3, SyncIs DEF Syncs, Early, Idle
  <2>2. sync' \in Syncs'
    BY <1>1, <2>1 DEF Syncs
  <2> QED BY <1>1, <1>3, <2>2, RevisionsKeep DEF TypeOK
<1> QED BY <1>2, <1>3

\* EnsureBundles leaves out what has expired and adds a signer there is.
LEMMA TypeBundles == ASSUME TypeOK, SignersInv, EnsureBundles PROVE TypeOK'
<1> USE DEF EnsureBundles, timeVars, caVars, leafVars, cleanVars, rollVars, bounds
<1>1. latest' = latest /\ UNCHANGED at /\ UNCHANGED allBundles
  OBVIOUS
<1> DEFINE due == {k \in Kinds : bundle[k] # Bundled(k)}
<1>2. CASE /\ due # {} /\ bundle' = [bundle EXCEPT ![First(due)] = Bundled(First(due))]
           /\ UNCHANGED sync
  <2>1. First(due) \in Kinds
    <3>1. due \in SUBSET Nat /\ due \subseteq Kinds
      BY CertAssumption
    <3> HIDE DEF due
    <3> QED BY <1>2, <3>1, FirstIn
  <2>2. ASSUME NEW k \in Kinds PROVE Bundled(k) \in SUBSET (1..MaxSigner)
    <3>1. signer[k] \in 1..MaxSigner
      <4>1. signer[k] >= 1
        BY DEF SignersInv
      <4> HIDE DEF EnsureBundles
      <4> QED BY <4>1, SignerThere
    <3>2. bundle[k] \subseteq 1..MaxSigner
      BY DEF TypeOK, Trusted
    <3> QED BY <3>1, <3>2 DEF Bundled
  <2>3. bundle' \in Trusted
    <3> HIDE DEF due
    <3> QED BY <1>2, <2>1, <2>2 DEF TypeOK, Trusted
  <2> HIDE DEF due
  <2> QED BY <1>1, <1>2, <2>3, RevisionsKeep DEF TypeOK
<1>3. CASE sync' = [sync EXCEPT !.pc = "all bundles"] /\ UNCHANGED bundle
  <2>1. sync' \in Syncs
    BY <1>3, SyncIs DEF Syncs, Early, Idle
  <2>2. sync' \in Syncs'
    BY <1>1, <2>1 DEF Syncs
  <2> QED BY <1>1, <1>3, <2>2, RevisionsKeep DEF TypeOK
<1> QED BY <1>2, <1>3

\* EnsureAllBundles writes no empty bundle, under a mark that is no revision to come.
LEMMA TypeAllBundles == ASSUME TypeOK, SignersInv, EnsureAllBundles PROVE TypeOK'
<1> DEFINE changed == allBundles = Missing \/ allBundles.of # bundle
<1>1. /\ sync.pc = "all bundles"
      /\ allBundles' = IF changed THEN [kind |-> "set", of |-> bundle, rev |-> Marked]
                       ELSE allBundles
      /\ sync' = IF MayGoOn(changed)
                   THEN [pc |-> "leaves", force |-> sync.force, list |-> nodes, done |-> {}]
                   ELSE Idle
      /\ UNCHANGED <<timeVars, signer, bundle, leafVars, cleanVars, rollVars, bounds>>
  BY DEF EnsureAllBundles
<1> HIDE DEF changed
<1>2. latest' = latest /\ UNCHANGED at
  BY <1>1 DEF rollVars
<1>3. sync.cur \in 0..latest.rev /\ sync.force \in BOOLEAN
  BY <1>1, SyncIs DEF Early
<1>4. bundle \in [Kinds -> (SUBSET (1..MaxSigner)) \ {{}}]
  <2>1. bundle \in [Kinds -> SUBSET (1..MaxSigner)]
    BY DEF TypeOK, Trusted
  <2>2. \A k \in Kinds : bundle[k] # {}
    BY <1>1 DEF SignersInv
  <2> QED BY <2>1, <2>2
<1>5. allBundles' \in {Missing} \cup [kind : {"set"},
                        of : [Kinds -> (SUBSET (1..MaxSigner)) \ {{}}], rev : 0..latest.rev]
  <2>1. [kind |-> "set", of |-> bundle, rev |-> Marked]
          \in [kind : {"set"}, of : [Kinds -> (SUBSET (1..MaxSigner)) \ {{}}], rev : 0..latest.rev]
    BY <1>3, <1>4 DEF Marked
  <2>2. allBundles \in {Missing} \cup [kind : {"set"},
                        of : [Kinds -> (SUBSET (1..MaxSigner)) \ {{}}], rev : 0..latest.rev]
    BY DEF TypeOK
  <2> QED BY <1>1, <2>1, <2>2
<1>6. sync' \in Syncs
  <2>1. [pc |-> "leaves", force |-> sync.force, list |-> nodes, done |-> {}] \in Syncs
    BY <1>3 DEF Syncs, TypeOK
  <2>2. Idle \in Syncs
    BY DEF Syncs
  <2> QED BY <1>1, <2>1, <2>2
<1>7. sync' \in Syncs'
  BY <1>2, <1>6 DEF Syncs
<1> QED
  BY <1>1, <1>2, <1>5, <1>7, RevisionsKeep
  DEF TypeOK, timeVars, leafVars, cleanVars, rollVars, bounds

\* What EnsureTargetCertKeyPair makes is a leaf.
LEMMA FreshIs ==
    ASSUME TypeOK, NEW n \in Owners, NEW k \in Kinds
    PROVE  Fresh(n, k) \in Leaves /\ (signer[k] >= 1 => Fresh(n, k) # NoLeaf)
<1>1. signer[k] \in 0..MaxSigner /\ need[n] \in 0..MaxChanges
  BY DEF TypeOK
<1>2. Fresh(n, k) \in Leaves
  BY <1>1 DEF Fresh, Leaves
<1>3. Fresh(n, k).by = signer[k] /\ NoLeaf.by = 0
  BY DEF Fresh, NoLeaf
<1> QED BY <1>1, <1>2, <1>3

\* EnsureLeaf makes one leaf.
LEMMA TypeLeaf == ASSUME TypeOK, EnsureLeaf PROVE TypeOK'
<1> DEFINE n == NextLeaf[1]
           k == NextLeaf[2]
<1>1. /\ sync.pc = "leaves" /\ Todo # {}
      /\ leaf' = [leaf EXCEPT ![n][k] = Fresh(n, k)]
      /\ sync' = [sync EXCEPT !.done = @ \cup {<<n, k>>}]
      /\ UNCHANGED <<timeVars, caVars, allCerts, cleanVars, rollVars, bounds>>
  BY DEF EnsureLeaf
<1>2. n \in Owners /\ k \in Kinds
  BY <1>1, NextLeafIn
<1> HIDE DEF n, k
<1>3. leaf' \in [Owners -> [Kinds -> Leaves]]
  <2>1. leaf[n] \in [Kinds -> Leaves] /\ leaf \in [Owners -> [Kinds -> Leaves]]
    BY <1>2 DEF TypeOK
  <2>2. [leaf[n] EXCEPT ![k] = Fresh(n, k)] \in [Kinds -> Leaves]
    BY <1>2, <2>1, FreshIs
  <2> QED BY <1>1, <1>2, <2>1, <2>2
<1>4. sync' \in Syncs
  <2>1. /\ sync = [pc |-> "leaves", force |-> sync.force, list |-> sync.list,
                   done |-> sync.done]
        /\ sync.force \in BOOLEAN /\ sync.list \subseteq Nodes
        /\ sync.done \subseteq Owners \X Kinds
    BY <1>1, SyncIs DEF Early
  <2>2. sync' = [pc |-> "leaves", force |-> sync.force, list |-> sync.list,
                 done |-> sync.done \cup {<<n, k>>}]
    BY <1>1, <2>1
  <2>3. sync.done \cup {<<n, k>>} \subseteq Owners \X Kinds
    BY <1>2, <2>1
  <2> QED BY <2>1, <2>2, <2>3 DEF Syncs
<1>5. latest' = latest /\ UNCHANGED at /\ UNCHANGED allBundles
  BY <1>1 DEF rollVars, caVars
<1>6. sync' \in Syncs'
  BY <1>4, <1>5 DEF Syncs
<1> QED
  BY <1>1, <1>3, <1>5, <1>6, RevisionsKeep
  DEF TypeOK, timeVars, caVars, cleanVars, rollVars, bounds

\* WriteAllCerts writes a leaf for each node of the list, though the cleaner may have
\* deleted its secret on the way.
LEMMA TypeAllCerts == ASSUME TypeOK, SignersInv, WriteAllCerts PROVE TypeOK'
<1> DEFINE all == [n \in sync.list |->
                     [k \in Kinds |-> IF leaf[n][k] = NoLeaf THEN Fresh(n, k) ELSE leaf[n][k]]]
<1>1. /\ sync.pc = "leaves" /\ allCerts' = [kind |-> "set", of |-> all] /\ sync' = Idle
      /\ UNCHANGED <<timeVars, caVars, leaf, cleanVars, rollVars, bounds>>
  BY DEF WriteAllCerts
<1>2. sync.list \subseteq Nodes
  BY <1>1, SyncIs DEF Early
<1>3. ASSUME NEW n \in sync.list PROVE all[n] \in Issued
  <2>1. ASSUME NEW k \in Kinds
        PROVE  (IF leaf[n][k] = NoLeaf THEN Fresh(n, k) ELSE leaf[n][k]) \in Leaves \ {NoLeaf}
    <3>1. n \in Owners
      BY <1>2 DEF Owners
    <3>2. signer[k] >= 1
      BY <1>1 DEF SignersInv
    <3>3. leaf[n][k] \in Leaves
      BY <3>1 DEF TypeOK
    <3> QED BY <3>1, <3>2, <3>3, FreshIs
  <2> QED BY <2>1 DEF Issued
<1>4. allCerts'.of = all /\ DOMAIN all = sync.list
  BY <1>1
<1> HIDE DEF all
<1>5. \A n \in DOMAIN allCerts'.of : n \in Nodes /\ allCerts'.of[n] \in Issued
  BY <1>2, <1>3, <1>4
<1>6. latest' = latest /\ UNCHANGED at /\ UNCHANGED allBundles /\ sync' \in Syncs'
  BY <1>1 DEF rollVars, caVars, Syncs
<1> QED
  BY <1>1, <1>5, <1>6, RevisionsKeep
  DEF TypeOK, timeVars, caVars, cleanVars, rollVars, bounds, Issued, Leaves, NoLeaf

\* A failing sync or cleaner, and the steps of the cleaner.
LEMMA TypeCleaner ==
    ASSUME TypeOK, CleanerLists \/ CleanerDeletes \/ CleanerFails \/ GracePasses \/ SyncFails
    PROVE  TypeOK'
<1>1. latest' = latest /\ UNCHANGED at /\ UNCHANGED allBundles
  BY DEF CleanerLists, CleanerDeletes, CleanerFails, GracePasses, SyncFails, rollVars, caVars
<1>2. CASE CleanerLists
  <2>1. tag' \in [Nodes -> {"none", "tagged", "ripe"}]
    <3>1. ASSUME NEW n \in Nodes PROVE TagAfter(n) \in {"none", "tagged", "ripe"}
      BY DEF TagAfter, TypeOK
    <3> QED BY <1>2, <3>1 DEF CleanerLists
  <2>2. doomed' \subseteq Nodes
    BY <1>2 DEF CleanerLists
  <2> QED
    BY <1>1, <1>2, <2>1, <2>2, RevisionsKeep
    DEF CleanerLists, TypeOK, timeVars, caVars, leafVars, rollVars, bounds
<1>3. CASE CleanerDeletes
  <2>1. First(doomed) \in doomed
    <3>1. doomed \in SUBSET Nat
      BY CertAssumption DEF TypeOK
    <3> QED BY <1>3, <3>1, FirstIn DEF CleanerDeletes
  <2>2. leaf' \in [Owners -> [Kinds -> Leaves]]
    <3>1. NoLeaf \in Leaves
      BY CertAssumption DEF NoLeaf, Leaves
    <3>2. [k \in Kinds |-> NoLeaf] \in [Kinds -> Leaves]
      BY <3>1
    <3>3. leaf \in [Owners -> [Kinds -> Leaves]]
      BY DEF TypeOK
    <3>4. leaf' = [n \in Owners |-> IF n = First(doomed) THEN [k \in Kinds |-> NoLeaf]
                                    ELSE leaf[n]]
      BY <1>3 DEF CleanerDeletes
    <3> QED BY <3>2, <3>3, <3>4
  <2>3. tag' \in [Nodes -> {"none", "tagged", "ripe"}] /\ doomed' \subseteq Nodes
    BY <1>3, <2>1 DEF CleanerDeletes, TypeOK
  <2> QED
    BY <1>1, <1>3, <2>2, <2>3, RevisionsKeep
    DEF CleanerDeletes, TypeOK, timeVars, caVars, rollVars, bounds
<1>4. CASE CleanerFails
  <2>1. faults' \in 0..MaxFaults
    BY <1>4, CertAssumption DEF CleanerFails, TypeOK
  <2> QED
    BY <1>1, <1>4, <2>1, RevisionsKeep
    DEF CleanerFails, TypeOK, timeVars, caVars, leafVars, rollVars
<1>5. CASE GracePasses
  BY <1>1, <1>5, RevisionsKeep
  DEF GracePasses, TypeOK, timeVars, caVars, leafVars, rollVars, bounds
<1>6. CASE SyncFails
  <2>1. faults' \in 0..MaxFaults
    BY <1>6, CertAssumption DEF SyncFails, TypeOK
  <2>2. sync' \in Syncs'
    BY <1>6 DEF SyncFails, Syncs
  <2> QED
    BY <1>1, <1>6, <2>1, <2>2, RevisionsKeep
    DEF SyncFails, TypeOK, timeVars, caVars, leafVars, cleanVars, rollVars
<1> QED BY <1>2, <1>3, <1>4, <1>5, <1>6

\* A new revision leaves what was in range in range.
LEMMA TypeRevision == ASSUME TypeOK, NewRevision PROVE TypeOK'
<1>1. /\ latest' = [rev |-> latest.rev + 1, of |-> Content]
      /\ UNCHANGED <<timeVars, caVars, leafVars, sync, cleanVars, at, files, bounds>>
  BY DEF NewRevision
<1>2. latest'.rev = latest.rev + 1 /\ latest.rev \in Nat /\ latest'.rev \in Nat
      /\ latest' = [rev |-> latest'.rev, of |-> latest'.of]
  BY <1>1 DEF TypeOK
<1>3. \A x \in 0..latest.rev : x \in 0..latest'.rev
  BY <1>2
<1>4. at' \in [Nodes -> 0..latest'.rev]
  BY <1>1, <1>3 DEF TypeOK
<1>5. allBundles' \in {Missing} \cup [kind : {"set"},
                        of : [Kinds -> (SUBSET (1..MaxSigner)) \ {{}}], rev : 0..latest'.rev]
  BY <1>1, <1>3 DEF TypeOK, caVars
<1>6. sync' \in Syncs'
  BY <1>1, <1>3 DEF TypeOK, Syncs
<1> QED
  BY <1>1, <1>2, <1>4, <1>5, <1>6
  DEF TypeOK, timeVars, caVars, leafVars, cleanVars, bounds

\* An installed node runs with bundles and leaves that were there.
LEMMA TypeInstall == ASSUME TypeOK, NEW n \in Nodes, Install(n) PROVE TypeOK'
<1> DEFINE f == [kind |-> "set", bundles |-> allBundles.of, certs |-> allCerts.of[n]]
<1>1. /\ n \in nodes /\ allBundles # Missing /\ allCerts # Missing /\ n \in DOMAIN allCerts.of
      /\ at' = [at EXCEPT ![n] = latest.rev]
      /\ files' = [files EXCEPT ![n] = f]
      /\ UNCHANGED <<timeVars, caVars, leafVars, sync, cleanVars, latest, bounds>>
  BY DEF Install
<1>2. f \in [kind : {"set"}, bundles : Trusted, certs : Issued]
  <2>1. allBundles.of \in Trusted
    BY <1>1, BundlesAre
  <2>2. allCerts.of[n] \in Issued
    BY <1>1 DEF TypeOK
  <2> QED BY <2>1, <2>2
<1> HIDE DEF f
<1>3. files' \in [Nodes -> {Missing} \cup [kind : {"set"}, bundles : Trusted, certs : Issued]]
  BY <1>1, <1>2 DEF TypeOK
<1>4. latest' = latest /\ UNCHANGED sync /\ UNCHANGED allBundles
  BY <1>1 DEF caVars
<1>5. at' \in [Nodes -> 0..latest'.rev]
  <2>1. latest.rev \in 0..latest.rev
    BY DEF TypeOK
  <2> QED BY <1>1, <1>4, <2>1 DEF TypeOK
<1> QED
  BY <1>1, <1>3, <1>4, <1>5, RevisionsKeep
  DEF TypeOK, timeVars, caVars, leafVars, cleanVars, bounds

\* Time, nodes and other changes.
LEMMA TypeEnvironment ==
    ASSUME TypeOK, ChangesInv,
           \/ BootstrapEnds \/ BundlesLost \/ OtherChange
           \/ \E k \in Kinds : SignerDue(k) \/ SignerExpires(k)
           \/ \E n \in Owners : LeafDue(n)
           \/ \E n \in Nodes : NodeJoins(n) \/ NodeLeaves(n)
    PROVE  TypeOK'
<1>1. latest' = latest /\ UNCHANGED sync
  BY DEF BootstrapEnds, BundlesLost, OtherChange, SignerDue, SignerExpires, LeafDue,
         NodeJoins, NodeLeaves, rollVars
<1> USE RevisionsKeep DEF timeVars, caVars, leafVars, cleanVars, rollVars, bounds
<1>2. CASE BootstrapEnds
  BY <1>1, <1>2 DEF BootstrapEnds, TypeOK
<1>3. CASE BundlesLost
  <2>1. faults' \in 0..MaxFaults
    BY <1>3, CertAssumption DEF BundlesLost, TypeOK
  <2> QED BY <1>1, <1>3, <2>1 DEF BundlesLost, TypeOK
<1>4. CASE OtherChange
  <2>1. changes' \in 0..MaxChanges /\ other' \in 0..MaxChanges
    BY <1>4, CertAssumption DEF OtherChange, TypeOK, ChangesInv
  <2> QED BY <1>1, <1>4, <2>1 DEF OtherChange, TypeOK
<1>5. ASSUME NEW k \in Kinds, SignerDue(k) PROVE TypeOK'
  <2>1. wanted' \in [Kinds -> 1..MaxSigner]
    BY <1>5, CertAssumption DEF SignerDue, TypeOK
  <2> QED BY <1>1, <1>5, <2>1 DEF SignerDue, TypeOK
<1>6. ASSUME NEW k \in Kinds, SignerExpires(k) PROVE TypeOK'
  <2>1. PICK g \in 1..(signer[k] - 1) \ expired[k] :
             expired' = [expired EXCEPT ![k] = @ \cup {g}]
    BY <1>6 DEF SignerExpires
  <2>2. g \in 1..MaxSigner
    BY <2>1, CertAssumption DEF TypeOK
  <2>3. expired' \in Trusted
    BY <2>1, <2>2 DEF TypeOK, Trusted
  <2> QED BY <1>1, <1>6, <2>3 DEF SignerExpires, TypeOK
<1>7. ASSUME NEW n \in Owners, LeafDue(n) PROVE TypeOK'
  <2>1. changes' \in 0..MaxChanges
    BY <1>7, CertAssumption DEF LeafDue, TypeOK
  <2>2. need[n] + 1 \in 0..MaxChanges
    BY <1>7, CertAssumption DEF LeafDue, TypeOK, ChangesInv
  <2>3. need' \in [Owners -> 0..MaxChanges]
    BY <1>7, <2>2 DEF LeafDue, TypeOK
  <2> QED BY <1>1, <1>7, <2>1, <2>3 DEF LeafDue, TypeOK
<1>8. ASSUME NEW n \in Nodes, NodeJoins(n) PROVE TypeOK'
  <2>1. changes' \in 0..MaxChanges
    BY <1>8, CertAssumption DEF NodeJoins, TypeOK
  <2> QED BY <1>1, <1>8, <2>1 DEF NodeJoins, TypeOK
<1>9. ASSUME NEW n \in Nodes, NodeLeaves(n) PROVE TypeOK'
  <2>1. changes' \in 0..MaxChanges
    BY <1>9, CertAssumption DEF NodeLeaves, TypeOK
  <2>2. at' \in [Nodes -> 0..latest'.rev]
    BY <1>1, <1>9 DEF NodeLeaves, TypeOK
  <2>3. files' \in [Nodes -> {Missing} \cup [kind : {"set"}, bundles : Trusted, certs : Issued]]
    BY <1>9 DEF NodeLeaves, TypeOK
  <2> QED BY <1>1, <1>9, <2>1, <2>2, <2>3 DEF NodeLeaves, TypeOK
<1> QED BY <1>2, <1>3, <1>4, <1>5, <1>6, <1>7, <1>8, <1>9

-----------------------------------------------------------------------------
(* Signers and bounded counters *)

\* Outside the signer controller and the clock of the signers nothing is changed.
LEMMA SignersKeep ==
    ASSUME SignersInv, UNCHANGED <<signer, wanted, expired, bundle>>,
           UNCHANGED sync \/ sync' = Idle,
           UNCHANGED allBundles \/ allBundles' = Missing
    PROVE  SignersInv'
<1>1. sync' = Idle => sync'.pc = "idle"
  BY DEF Idle
<1> QED BY <1>1 DEF SignersInv

\* The steps of a sync: a signer only gets newer, and before the bundles are put
\* together each signer is there and in its bundle.
LEMMA SignersOfSync == ASSUME TypeOK, SignersInv, Signer PROVE SignersInv'
<1>1. CASE SyncStarts
  <2>1. UNCHANGED <<signer, wanted, expired, bundle, allBundles>>
    BY <1>1 DEF SyncStarts, caVars, timeVars
  <2>2. sync'.pc = "signers" \/ (sync'.pc = "leaves" /\ allBundles # Missing)
    BY <1>1 DEF SyncStarts, Unguarded
  <2> QED BY <2>1, <2>2 DEF SignersInv
<1>2. CASE EnsureSigners
  <2> DEFINE due == {k \in Kinds : signer[k] < wanted[k]}
  <2>1. sync.pc = "signers" /\ UNCHANGED <<wanted, expired, bundle, allBundles>>
    BY <1>2 DEF EnsureSigners, timeVars
  <2>2. CASE /\ due # {} /\ signer' = [signer EXCEPT ![First(due)] = wanted[First(due)]]
             /\ UNCHANGED sync
    <3>1. First(due) \in due
      <4>1. due \in SUBSET Nat
        BY CertAssumption
      <4> HIDE DEF due
      <4> QED BY <2>2, <4>1, FirstIn
    <3>2. PICK x \in Kinds : x = First(due) /\ signer[x] < wanted[x]
      BY <3>1
    <3>3. signer' = [signer EXCEPT ![x] = wanted[x]] /\ UNCHANGED sync
      BY <2>2, <3>2
    <3> HIDE DEF due
    <3>4. \A k \in Kinds : signer[k] \in Nat /\ wanted[k] \in Nat /\ expired[k] \in SUBSET Nat
      BY CertAssumption DEF TypeOK, Trusted
    <3>5. ASSUME NEW k \in Kinds
          PROVE  signer'[k] \in Nat /\ signer[k] <= signer'[k] /\ signer'[k] <= wanted[k]
      <4>1. signer[k] <= wanted[k]
        BY DEF SignersInv
      <4>2. signer'[k] = IF k = x THEN wanted[x] ELSE signer[k]
        BY <3>3 DEF TypeOK
      <4> QED BY <3>2, <3>4, <4>1, <4>2
    <3>6. ASSUME NEW k \in Kinds, NEW g \in expired[k] PROVE g < signer'[k]
      <4>1. g < signer[k] /\ g \in Nat
        BY <3>4 DEF SignersInv
      <4> QED BY <3>4, <3>5, <4>1
    <3>7. ASSUME allBundles # Missing, NEW k \in Kinds PROVE signer'[k] >= 1
      <4>1. signer[k] >= 1
        BY <3>7 DEF SignersInv
      <4> QED BY <3>4, <3>5, <4>1
    <3> QED BY <2>1, <3>3, <3>5, <3>6, <3>7 DEF SignersInv
  <2>3. CASE due = {} /\ sync' = [sync EXCEPT !.pc = "bundles"] /\ UNCHANGED signer
    <3>1. sync'.pc = "bundles"
      BY <2>1, <2>3, SyncIs DEF Early, Idle
    <3>2. ASSUME NEW k \in Kinds PROVE signer[k] >= 1
      <4>1. ~(signer[k] < wanted[k])
        BY <2>3
      <4>2. signer[k] \in 0..MaxSigner /\ wanted[k] \in 1..MaxSigner
        BY DEF TypeOK
      <4> HIDE DEF due
      <4> QED BY <4>1, <4>2, CertAssumption
    <3> HIDE DEF due
    <3> QED BY <2>1, <2>3, <3>1, <3>2 DEF SignersInv
  <2> HIDE DEF due
  <2> QED BY <1>2, <2>2, <2>3 DEF EnsureSigners, due
<1>3. CASE EnsureBundles
  <2> DEFINE due == {k \in Kinds : bundle[k] # Bundled(k)}
  <2>1. sync.pc = "bundles" /\ UNCHANGED <<wanted, expired, signer, allBundles>>
    BY <1>3 DEF EnsureBundles, timeVars
  <2>2. CASE UNCHANGED sync
    BY <2>1, <2>2 DEF SignersInv
  <2>3. CASE due = {} /\ sync' = [sync EXCEPT !.pc = "all bundles"] /\ UNCHANGED bundle
    <3>1. sync'.pc = "all bundles"
      BY <2>1, <2>3, SyncIs DEF Early, Idle
    <3>2. ASSUME NEW k \in Kinds PROVE signer[k] \in bundle[k]
      <4>1. bundle[k] = Bundled(k)
        BY <2>3
      <4>2. signer[k] \notin expired[k]
        <5>1. signer[k] \in Nat
          BY CertAssumption DEF TypeOK
        <5>2. \A g \in expired[k] : g < signer[k]
          BY DEF SignersInv
        <5> HIDE DEF due
        <5> QED BY <5>1, <5>2
      <4> QED BY <4>1, <4>2 DEF Bundled
    <3> HIDE DEF due
    <3> QED BY <2>1, <2>3, <3>1, <3>2 DEF SignersInv
  <2> HIDE DEF due
  <2> QED BY <1>3, <2>2, <2>3 DEF EnsureBundles, due
<1>4. CASE EnsureAllBundles
  <2>1. sync.pc = "all bundles" /\ UNCHANGED <<signer, wanted, expired, bundle>>
    BY <1>4 DEF EnsureAllBundles, timeVars
  <2>2. sync'.pc \in {"leaves", "idle"}
    BY <1>4 DEF EnsureAllBundles, Idle
  <2> QED BY <2>1, <2>2 DEF SignersInv
<1>5. CASE EnsureLeaf
  <2>1. /\ sync.pc = "leaves" /\ UNCHANGED <<signer, wanted, expired, bundle, allBundles>>
        /\ \E x : sync' = [sync EXCEPT !.done = x]
    BY <1>5 DEF EnsureLeaf, timeVars, caVars
  <2>2. sync'.pc = "leaves"
    BY <2>1, SyncIs DEF Early, Idle
  <2> QED BY <2>1, <2>2 DEF SignersInv
<1>6. CASE WriteAllCerts
  BY <1>6, SignersKeep DEF WriteAllCerts, timeVars, caVars
<1> QED BY <1>1, <1>2, <1>3, <1>4, <1>5, <1>6 DEF Signer

\* A signer gets due, an old one expires.
LEMMA SignersOfTime ==
    ASSUME TypeOK, SignersInv, NEW k \in Kinds, SignerDue(k) \/ SignerExpires(k)
    PROVE  SignersInv'
<1>1. UNCHANGED <<signer, bundle, sync, allBundles>>
  BY DEF SignerDue, SignerExpires, caVars
<1>2. \A j \in Kinds : signer[j] \in Nat /\ wanted[j] \in Nat
  BY CertAssumption DEF TypeOK
<1>3. CASE SignerDue(k)
  <2>1. wanted' = [wanted EXCEPT ![k] = wanted[k] + 1] /\ UNCHANGED expired
    BY <1>3 DEF SignerDue
  <2>2. ASSUME NEW j \in Kinds PROVE signer[j] <= wanted'[j]
    <3>1. signer[j] <= wanted[j]
      BY DEF SignersInv
    <3>2. wanted'[j] = IF j = k THEN wanted[k] + 1 ELSE wanted[j]
      BY <2>1 DEF TypeOK
    <3> QED BY <1>2, <3>1, <3>2
  <2> QED BY <1>1, <2>1, <2>2 DEF SignersInv
<1>4. CASE SignerExpires(k)
  <2>1. PICK g \in 1..(signer[k] - 1) : expired' = [expired EXCEPT ![k] = @ \cup {g}]
    BY <1>4 DEF SignerExpires
  <2>2. g < signer[k]
    BY <1>2, <2>1
  <2>3. \A j \in Kinds : \A h \in expired'[j] : h < signer[j]
    BY <2>1, <2>2 DEF TypeOK, Trusted, SignersInv
  <2> QED BY <1>1, <1>4, <2>3 DEF SignersInv, SignerExpires
<1> QED BY <1>3, <1>4

\* The counters of needs and other changes grow with that of all changes.
LEMMA ChangesGo == ASSUME TypeOK, ChangesInv, [Next]_vars PROVE ChangesInv'
<1>1. changes \in Nat /\ other \in Nat /\ \A n \in Owners : need[n] \in Nat
  BY CertAssumption DEF TypeOK
<1>2. CASE UNCHANGED <<need, other>> /\ (UNCHANGED changes \/ changes' = changes + 1)
  BY <1>1, <1>2 DEF ChangesInv
<1>3. ASSUME NEW n \in Owners, LeafDue(n) PROVE ChangesInv'
  <2>1. need' = [need EXCEPT ![n] = need[n] + 1] /\ changes' = changes + 1 /\ UNCHANGED other
    BY <1>3 DEF LeafDue
  <2> QED BY <1>1, <2>1 DEF ChangesInv, TypeOK
<1>4. CASE OtherChange
  BY <1>1, <1>4 DEF OtherChange, ChangesInv
<1>5. CASE Signer \/ Cleaner \/ GracePasses \/ NewRevision \/ BootstrapEnds \/ BundlesLost
           \/ SyncFails \/ CleanerFails \/ \E n \in Nodes : Install(n)
  BY <1>2, <1>5
  DEF Signer, Cleaner, SyncStarts, EnsureSigners, EnsureBundles, EnsureAllBundles, EnsureLeaf,
      WriteAllCerts, CleanerLists, CleanerDeletes, GracePasses, NewRevision, BootstrapEnds,
      BundlesLost, SyncFails, CleanerFails, Install, timeVars, bounds
<1>6. CASE \/ \E k \in Kinds : SignerDue(k) \/ SignerExpires(k)
           \/ \E n \in Nodes : NodeJoins(n) \/ NodeLeaves(n)
  BY <1>2, <1>6 DEF SignerDue, SignerExpires, NodeJoins, NodeLeaves, bounds
<1>7. CASE UNCHANGED vars
  BY <1>2, <1>7 DEF vars
<1> QED BY <1>3, <1>4, <1>5, <1>6, <1>7 DEF Next, Environment

-----------------------------------------------------------------------------
(* The mark on the bundles *)

\* A step that leaves the nodes, the bundles and the signers alone, and a sync where it
\* is or at its end.
LEMMA MarkKeeps ==
    ASSUME MarkInv, UNCHANGED <<nodes, files, at, allBundles, signer>>,
           UNCHANGED sync \/ sync' = Idle
    PROVE  MarkInv'
<1>1. sync' = Idle => sync'.pc = "idle"
  BY DEF Idle
<1>2. GoneRunsNothing' /\ MarkHolds'
  BY DEF MarkInv, GoneRunsNothing, MarkHolds, Running
<1>3. ReadHolds'
  BY <1>1 DEF MarkInv, ReadHolds, Running, Early
<1>4. GateHolds'
  BY <1>1 DEF MarkInv, GateHolds, Running
<1> QED BY <1>2, <1>3, <1>4 DEF MarkInv

\* A sync starts at a revision that every node is at.
LEMMA MarkStarts == ASSUME TypeOK, MarkInv, SyncStarts PROVE MarkInv'
<1>1. UNCHANGED <<nodes, files, at, allBundles, signer>>
  BY DEF SyncStarts, timeVars, caVars, rollVars
<1>2. GoneRunsNothing' /\ MarkHolds' /\ Running' = Running
  BY <1>1 DEF MarkInv, GoneRunsNothing, MarkHolds, Running
<1>3. CASE sync' = [pc |-> "signers", force |-> TRUE, cur |-> 0, rot |-> 0]
  <2>1. sync'.pc = "signers" /\ sync'.force = TRUE /\ sync'.cur = 0
    BY <1>3
  <2> QED BY <1>2, <2>1 DEF MarkInv, ReadHolds, GateHolds, Early
<1>4. CASE sync' = [pc |-> "leaves", force |-> TRUE, list |-> nodes, done |-> {}]
  <2>1. sync'.pc = "leaves" /\ sync'.force = TRUE
    BY <1>4
  <2> QED BY <1>2, <2>1 DEF MarkInv, ReadHolds, GateHolds, Early
<1>5. CASE /\ ~Unguarded /\ AtLatest
           /\ sync' = [pc |-> "signers", force |-> FALSE, cur |-> latest.rev,
                       rot |-> RotationRevision]
  <2>1. /\ sync'.pc = "signers" /\ sync'.force = FALSE /\ sync'.cur = latest.rev
        /\ sync'.rot = RotationRevision
    BY <1>5
  <2>2. allBundles # Missing /\ RotationRevision = allBundles.rev
    BY <1>5 DEF Unguarded, RotationRevision
  <2>3. \A m \in Running : at[m] = latest.rev
    BY <1>5 DEF AtLatest, Running
  <2> QED BY <1>1, <1>2, <2>1, <2>2, <2>3 DEF MarkInv, ReadHolds, GateHolds, Early
<1> QED BY <1>3, <1>4, <1>5 DEF SyncStarts

\* What a sync has read holds while it ensures signers and bundles.
LEMMA MarkEnsures ==
    ASSUME TypeOK, MarkInv, EnsureSigners \/ EnsureBundles
    PROVE  MarkInv'
<1>1. sync.pc \in Early /\ UNCHANGED <<nodes, files, at, allBundles>>
  BY DEF EnsureSigners, EnsureBundles, timeVars, rollVars, Early
<1>2. GoneRunsNothing' /\ MarkHolds' /\ Running' = Running
  BY <1>1 DEF MarkInv, GoneRunsNothing, MarkHolds, Running
<1>3. UNCHANGED sync \/ \E p \in Early : sync' = [sync EXCEPT !.pc = p]
  BY DEF EnsureSigners, EnsureBundles, Early
<1>4. /\ sync'.pc \in Early /\ sync'.force = sync.force /\ sync'.cur = sync.cur
      /\ sync'.rot = sync.rot
  BY <1>1, <1>3, SyncIs DEF Early, Idle
<1>5. ReadHolds'
  BY <1>1, <1>2, <1>4 DEF MarkInv, ReadHolds
<1>6. GateHolds'
  BY <1>4 DEF GateHolds, Early
<1> QED BY <1>2, <1>5, <1>6 DEF MarkInv

\* Bundles that have changed are marked with the revision that the nodes are at; when
\* they have not and the nodes are past the mark, the nodes have them.
LEMMA MarkWritten ==
    ASSUME TypeOK, SignersInv, MarkInv, EnsureAllBundles
    PROVE  MarkInv'
<1> DEFINE changed == allBundles = Missing \/ allBundles.of # bundle
<1>1. /\ sync.pc = "all bundles"
      /\ allBundles' = IF changed THEN [kind |-> "set", of |-> bundle, rev |-> sync.cur]
                       ELSE allBundles
      /\ sync' = IF sync.force \/ (~changed /\ sync.cur > sync.rot)
                   THEN [pc |-> "leaves", force |-> sync.force, list |-> nodes, done |-> {}]
                   ELSE Idle
      /\ UNCHANGED <<nodes, files, at, signer>>
  BY DEF EnsureAllBundles, MayGoOn, Marked, timeVars, rollVars
<1>2. sync.cur \in Nat /\ sync.rot \in Nat /\ sync.force \in BOOLEAN
  <2>1. latest.rev \in Nat
    BY DEF TypeOK
  <2>2. /\ sync.cur \in 0..latest.rev /\ sync.rot \in 0..latest.rev
        /\ sync.force \in BOOLEAN
    BY <1>1, SyncIs DEF Early
  <2>3. sync.cur \in Nat /\ sync.rot \in Nat
    <3> HIDE DEF changed
    <3> QED BY <2>1, <2>2
  <2> QED BY <2>2, <2>3
<1>3. Running' = Running /\ GoneRunsNothing'
  BY <1>1 DEF MarkInv, GoneRunsNothing, Running
<1>4. /\ sync.force => sync.cur = 0
      /\ ~sync.force => /\ allBundles # Missing /\ sync.rot = allBundles.rev
                        /\ \A m \in Running : at[m] = sync.cur
  BY <1>1 DEF MarkInv, ReadHolds, Early
<1>5. MarkHolds'
  <2>1. CASE changed
    <3>1. allBundles'.rev = sync.cur
      BY <1>1, <2>1
    <3>2. CASE sync.force
      BY <1>4, <3>1, <3>2 DEF MarkHolds
    <3>3. CASE ~sync.force
      <4>1. ASSUME NEW m \in Running PROVE ~(at'[m] > allBundles'.rev)
        <5>1. at'[m] = sync.cur /\ allBundles'.rev = sync.cur
          BY <1>1, <1>4, <3>1, <3>3
        <5> HIDE DEF changed
        <5> QED BY <1>2, <5>1
      <4> QED BY <1>3, <4>1 DEF MarkHolds
    <3> QED BY <3>2, <3>3
  <2>2. CASE ~changed
    <3>1. UNCHANGED allBundles
      BY <1>1, <2>2
    <3> HIDE DEF changed
    <3> QED BY <1>1, <1>3, <3>1 DEF MarkInv, MarkHolds
  <2> QED BY <2>1, <2>2
<1>6. sync'.pc \notin Early
  BY <1>1 DEF Early, Idle
<1>7. GateHolds'
  <2> SUFFICES ASSUME sync'.pc = "leaves", ~sync'.force
               PROVE  /\ allBundles' # Missing
                      /\ allBundles'.rev # 0 =>
                           /\ \A k \in Kinds : signer'[k] \in allBundles'.of[k]
                           /\ \A m \in Running' : files'[m].bundles = allBundles'.of
    BY DEF GateHolds
  <2>1. ~sync.force /\ ~changed /\ sync.cur > sync.rot
    <3> HIDE DEF changed
    <3> QED BY <1>1 DEF Idle
  <2>2. UNCHANGED allBundles /\ allBundles # Missing /\ allBundles.of = bundle
    BY <1>1, <2>1
  <2>3. \A k \in Kinds : signer[k] \in bundle[k]
    BY <1>1 DEF SignersInv
  <2>4. ASSUME allBundles.rev # 0, NEW m \in Running
        PROVE  files[m].bundles = allBundles.of
    <3>1. at[m] > allBundles.rev
      BY <1>4, <2>1
    <3> QED BY <2>2, <2>4, <3>1 DEF MarkInv, MarkHolds
  <2> HIDE DEF changed
  <2> QED BY <1>1, <1>3, <2>2, <2>3, <2>4
<1> QED BY <1>3, <1>5, <1>6, <1>7 DEF MarkInv, ReadHolds

\* A leaf is made: the sync stays at the leaves.
LEMMA MarkLeaf == ASSUME TypeOK, MarkInv, EnsureLeaf PROVE MarkInv'
<1>1. /\ sync.pc = "leaves" /\ UNCHANGED <<nodes, files, at, allBundles, signer>>
      /\ \E x : sync' = [sync EXCEPT !.done = x]
  BY DEF EnsureLeaf, timeVars, caVars, rollVars
<1>2. sync'.pc = "leaves" /\ sync'.force = sync.force
  BY <1>1, SyncIs DEF Early, Idle
<1>3. GoneRunsNothing' /\ MarkHolds' /\ Running' = Running
  BY <1>1 DEF MarkInv, GoneRunsNothing, MarkHolds, Running
<1>4. ReadHolds'
  BY <1>2 DEF ReadHolds, Early
<1>5. GateHolds'
  BY <1>1, <1>2, <1>3 DEF MarkInv, GateHolds
<1> QED BY <1>3, <1>4, <1>5 DEF MarkInv

\* An installation gives the node the bundles as they are.
LEMMA MarkInstall == ASSUME TypeOK, MarkInv, NEW n \in Nodes, Install(n) PROVE MarkInv'
<1>1. /\ n \in nodes /\ allBundles # Missing
      /\ sync.pc \in {"idle", "leaves"} \/ sync.force
      /\ at' = [at EXCEPT ![n] = latest.rev]
      /\ files' = [files EXCEPT ![n] = [kind |-> "set", bundles |-> allBundles.of,
                                        certs |-> allCerts.of[n]]]
      /\ UNCHANGED <<nodes, allBundles, signer, sync>>
  BY DEF Install, timeVars, caVars
<1>2. nodes \subseteq Nodes
  BY DEF TypeOK
<1>3. files'[n].bundles = allBundles.of
  BY <1>1 DEF TypeOK
<1>4. \A m \in Nodes : m # n => files'[m] = files[m] /\ at'[m] = at[m]
  BY <1>1 DEF TypeOK
<1>5. \A m \in Running' : m # n => m \in Running /\ files'[m] = files[m] /\ at'[m] = at[m]
  BY <1>1, <1>2, <1>4 DEF Running
<1>6. GoneRunsNothing'
  BY <1>1, <1>4 DEF MarkInv, GoneRunsNothing
<1>7. MarkHolds'
  BY <1>1, <1>3, <1>5 DEF MarkInv, MarkHolds
<1>8. ReadHolds'
  BY <1>1 DEF MarkInv, ReadHolds, Early
<1>9. GateHolds'
  BY <1>1, <1>3, <1>5 DEF MarkInv, GateHolds
<1> QED BY <1>6, <1>7, <1>8, <1>9 DEF MarkInv

\* A node that joins runs nothing yet, one that leaves runs nothing any more, and the
\* bundles are lost only between syncs.
LEMMA MarkEnvironment ==
    ASSUME TypeOK, MarkInv,
           BundlesLost \/ \E n \in Nodes : NodeJoins(n) \/ NodeLeaves(n)
    PROVE  MarkInv'
<1>1. CASE BundlesLost
  <2>1. /\ UNCHANGED <<nodes, files, at, signer, sync>> /\ allBundles' = Missing
        /\ sync.pc = "idle"
    BY <1>1 DEF BundlesLost, timeVars, rollVars, Idle
  <2> QED
    BY <2>1 DEF MarkInv, GoneRunsNothing, MarkHolds, ReadHolds, GateHolds, Running, Early
<1>2. ASSUME NEW n \in Nodes, NodeJoins(n) \/ NodeLeaves(n) PROVE MarkInv'
  <2>1. UNCHANGED <<allBundles, signer, sync>>
    BY <1>2 DEF NodeJoins, NodeLeaves, caVars
  <2>2. /\ GoneRunsNothing'
        /\ \A m \in Running' : m \in Running /\ files'[m] = files[m] /\ at'[m] = at[m]
    <3>1. CASE NodeJoins(n)
      BY <3>1 DEF NodeJoins, MarkInv, GoneRunsNothing, Running, rollVars
    <3>2. CASE NodeLeaves(n)
      <4>1. /\ nodes' = nodes \ {n} /\ at' = [at EXCEPT ![n] = 0]
            /\ files' = [files EXCEPT ![n] = Missing]
        BY <3>2 DEF NodeLeaves
      <4>2. /\ files'[n] = Missing /\ nodes \subseteq Nodes
            /\ \A m \in Nodes : m # n => files'[m] = files[m] /\ at'[m] = at[m]
        BY <4>1 DEF TypeOK
      <4> QED BY <4>1, <4>2 DEF MarkInv, GoneRunsNothing, Running
    <3> QED BY <1>2, <3>1, <3>2
  <2>3. MarkHolds'
    BY <2>1, <2>2 DEF MarkInv, MarkHolds
  <2>4. ReadHolds'
    BY <2>1, <2>2 DEF MarkInv, ReadHolds, Early
  <2>5. GateHolds'
    BY <2>1, <2>2 DEF MarkInv, GateHolds
  <2> QED BY <2>2, <2>3, <2>4, <2>5 DEF MarkInv
<1> QED BY <1>1, <1>2

-----------------------------------------------------------------------------
(* The theorems *)

\* Every step keeps the invariant.
LEMMA CertStep == ASSUME CertInv, [Next]_vars PROVE CertInv'
<1> USE DEF CertInv
<1>1. ChangesInv'
  BY ChangesGo
<1>2. CASE Signer
  <2>1. TypeOK'
    BY <1>2, TypeStarts, TypeSigners, TypeBundles, TypeAllBundles, TypeLeaf, TypeAllCerts
    DEF Signer
  <2>2. MarkInv'
    <3>1. CASE WriteAllCerts
      BY <3>1, MarkKeeps DEF WriteAllCerts, timeVars, caVars, rollVars
    <3> QED BY <1>2, <3>1, MarkStarts, MarkEnsures, MarkWritten, MarkLeaf DEF Signer
  <2> QED BY <1>1, <1>2, <2>1, <2>2, SignersOfSync
<1>3. CASE Cleaner \/ CleanerFails \/ GracePasses \/ SyncFails
  <2>1. TypeOK'
    BY <1>3, TypeCleaner DEF Cleaner
  <2>2. /\ UNCHANGED <<nodes, files, at, allBundles, signer, wanted, expired, bundle>>
        /\ UNCHANGED sync \/ sync' = Idle
    BY <1>3
    DEF Cleaner, CleanerLists, CleanerDeletes, CleanerFails, GracePasses, SyncFails,
        timeVars, caVars, rollVars
  <2> QED BY <1>1, <2>1, <2>2, SignersKeep, MarkKeeps
<1>4. CASE NewRevision \/ BootstrapEnds \/ OtherChange \/ \E n \in Owners : LeafDue(n)
  <2>1. TypeOK'
    BY <1>4, TypeRevision, TypeEnvironment
  <2>2. UNCHANGED <<nodes, files, at, allBundles, signer, wanted, expired, bundle, sync>>
    BY <1>4 DEF NewRevision, BootstrapEnds, OtherChange, LeafDue, timeVars, caVars, rollVars
  <2> QED BY <1>1, <2>1, <2>2, SignersKeep, MarkKeeps
<1>5. ASSUME NEW n \in Nodes, Install(n) PROVE CertInv'
  <2>1. UNCHANGED <<allBundles, signer, wanted, expired, bundle, sync>>
    BY <1>5 DEF Install, timeVars, caVars
  <2> QED BY <1>1, <1>5, <2>1, TypeInstall, MarkInstall, SignersKeep
<1>6. ASSUME NEW k \in Kinds, SignerDue(k) \/ SignerExpires(k) PROVE CertInv'
  <2>1. TypeOK'
    BY <1>6, TypeEnvironment
  <2>2. UNCHANGED <<nodes, files, at, allBundles, signer, sync>>
    BY <1>6 DEF SignerDue, SignerExpires, caVars, rollVars
  <2> QED BY <1>1, <1>6, <2>1, <2>2, SignersOfTime, MarkKeeps
<1>7. CASE BundlesLost \/ \E n \in Nodes : NodeJoins(n) \/ NodeLeaves(n)
  <2>1. TypeOK'
    BY <1>7, TypeEnvironment
  <2>2. /\ UNCHANGED <<signer, wanted, expired, bundle, sync>>
        /\ UNCHANGED allBundles \/ allBundles' = Missing
    BY <1>7 DEF BundlesLost, NodeJoins, NodeLeaves, timeVars, caVars
  <2> QED BY <1>1, <1>7, <2>1, <2>2, SignersKeep, MarkEnvironment
<1>8. CASE UNCHANGED vars
  <2>1. UNCHANGED <<nodes, files, at, allBundles, signer, wanted, expired, bundle, sync>>
    BY <1>8 DEF vars
  <2>2. TypeOK'
    BY <1>8 DEF vars, TypeOK, Syncs
  <2> QED BY <1>1, <2>1, <2>2, SignersKeep, MarkKeeps
<1> QED BY <1>2, <1>3, <1>4, <1>5, <1>6, <1>7, <1>8 DEF Next, Environment

\* The inductive invariant of the rotation, for any nodes, signers, changes and faults:
\* a node past the mark on etcd-all-bundles runs with what is in it, what a sync has read
\* holds until it writes the bundles, and at the leaves every node has them.
THEOREM CertInvariant == Spec => []CertInv
<1>1. ASSUME Init PROVE CertInv
  <2>1. TypeOK
    BY <1>1, StartsRight
  <2>2. SignersInv
    BY <1>1 DEF Init, SignersInv, Idle
  <2>3. ChangesInv
    BY <1>1 DEF Init, ChangesInv
  <2>4. MarkInv
    BY <1>1
    DEF Init, MarkInv, GoneRunsNothing, MarkHolds, ReadHolds, GateHolds, Idle, Early
  <2> QED BY <2>1, <2>2, <2>3, <2>4 DEF CertInv
<1> QED BY <1>1, CertStep, PTL DEF Spec

\* Every reachable state of the certificates is well typed: no empty bundle is published, no
\* mark and no node is ahead of the latest revision, and neither etcd-all-certs nor an
\* etcd lacks a leaf, also when the cleaner has deleted secrets during the sync.
THEOREM TypeCorrect == Spec => []TypeOK
<1>1. CertInv => TypeOK
  BY DEF CertInv
<1> QED BY <1>1, CertInvariant, PTL

\* syncAllMasterCertificates: outside forced syncs and their mark, no leaf is made by a
\* new signer while an etcd runs that does not trust it.
THEOREM LeavesWaitForTrust == Spec => NoLeafTooEarly
<1>1. ASSUME CertInv, [Next]_vars
      PROVE  [\A k \in Kinds :
                (/\ leaf' # leaf /\ sync.pc = "leaves" /\ ~sync.force /\ allBundles.rev # 0
                 /\ \A n \in Owners : leaf[n][k].by # signer[k]
                 /\ \E n \in Owners : leaf'[n][k].by = signer[k])
                  => \A m \in Running : signer[k] \in files[m].bundles[k]]_vars
  <2>1. ASSUME NEW k \in Kinds, sync.pc = "leaves", ~sync.force, allBundles.rev # 0,
               NEW m \in Running
        PROVE  signer[k] \in files[m].bundles[k]
    BY <1>1, <2>1 DEF CertInv, MarkInv, GateHolds
  <2> QED BY <2>1
<1> QED BY <1>1, CertInvariant, PTL DEF Spec, NoLeafTooEarly
=============================================================================
